--------------------------- MODULE GuardedEffects ---------------------------
(***************************************************************************)
(* What the approval registry of the gateway promises, with the requests,  *)
(* the policy reads and the database left out: an administrator grants a   *)
(* planned action; an effect on the CRM happens only on a grant for the    *)
(* same action, or, for an action whose policy may be waived, after an     *)
(* administrator has waived it at least once.  A grant is not consumed.    *)
(***************************************************************************)
CONSTANTS Request,    \* the tool calls that may cause an effect
          Approval,   \* the approvals that can be planned
          Action,     \* the actions protected by an approval
          Waivable,   \* the actions whose policy an administrator can waive
          None        \* "no action": nothing planned, nothing performed

VARIABLES planned,    \* planned[a]: the action approval a was created for
          granted,    \* the approvals an administrator has granted
          waived,     \* the actions ever waived
          performed   \* performed[r]: the action request r had the CRM carry out

abstractVars == <<planned, granted, waived, performed>>

Init == /\ planned = [a \in Approval |-> None]
        /\ granted = {}
        /\ waived = {}
        /\ performed = [r \in Request |-> None]

Plan(a, act) == /\ planned[a] = None
                /\ planned' = [planned EXCEPT ![a] = act]
                /\ UNCHANGED <<granted, waived, performed>>

Grant(a) == /\ planned[a] # None
            /\ granted' = granted \cup {a}
            /\ UNCHANGED <<planned, waived, performed>>

Waive(act) == /\ act \in Waivable
              /\ waived' = waived \cup {act}
              /\ UNCHANGED <<planned, granted, performed>>

MayPerform(act) == \/ act \in waived
                   \/ \E a \in granted : planned[a] = act

Perform(r, act) == /\ performed[r] = None
                   /\ MayPerform(act)
                   /\ performed' = [performed EXCEPT ![r] = act]
                   /\ UNCHANGED <<planned, granted, waived>>

Next == \/ \E a \in Approval, act \in Action : Plan(a, act)
        \/ \E a \in Approval : Grant(a)
        \/ \E act \in Action : Waive(act)
        \/ \E r \in Request, act \in Action : Perform(r, act)

Spec == Init /\ [][Next]_abstractVars
=============================================================================
