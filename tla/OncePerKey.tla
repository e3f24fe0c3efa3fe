----------------------------- MODULE OncePerKey -----------------------------
(***************************************************************************)
(* What an idempotency key promises: the requests that carry one key have  *)
(* the CRM carry out at most one effect between them, and every one of     *)
(* them that is answered with success is answered with that effect.        *)
(***************************************************************************)
CONSTANTS Request,     \* the apply calls
          Key,         \* the idempotency keys they carry
          None         \* no request

VARIABLES appliedBy,   \* appliedBy[k]: the request whose effect k stands for
          answer       \* answer[r]: the request whose effect r was answered with

onceVars == <<appliedBy, answer>>

Init == /\ appliedBy = [k \in Key |-> None]
        /\ answer = [r \in Request |-> None]

Apply(r, k) == /\ appliedBy[k] = None
               /\ appliedBy' = [appliedBy EXCEPT ![k] = r]
               /\ UNCHANGED answer

Answer(r, k) == /\ answer[r] = None
                /\ appliedBy[k] # None
                /\ answer' = [answer EXCEPT ![r] = appliedBy[k]]
                /\ UNCHANGED appliedBy

Next == \E r \in Request, k \in Key : Apply(r, k) \/ Answer(r, k)

Spec == Init /\ [][Next]_onceVars
=============================================================================
