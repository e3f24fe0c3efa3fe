----------------------------- MODULE MCAgentBatch -----------------------------
(***************************************************************************)
(* AgentBatch on small instances: the answers and policies that between    *)
(* them take every branch of processWithAiAgent.                           *)
(***************************************************************************)
EXTENDS AgentBatch

Says(decision, sure, words, calls) ==
  [decision |-> decision, sure |-> sure, text |-> words, calls |-> calls]

\* Longest list of calls: one that books and one more.
Answers ==
  {Says("RESPOND", TRUE, "confirms", <<"create">>),
   Says("RESPOND", TRUE, "confirms", <<"other">>),
   Says("RESPOND", TRUE, "confirms", <<"create", "create">>),
   Says("RESPOND", TRUE, "plain", <<"create">>),
   Says("RESPOND", TRUE, "none", <<>>),
   Says("RESPOND", FALSE, "plain", <<"create">>),
   Says("HANDOFF", TRUE, "plain", <<>>),
   Says("NEED_APPROVAL", TRUE, "none", <<"create">>)}

\* One answer of each kind.
FewAnswers ==
  {Says("RESPOND", TRUE, "confirms", <<"create">>),
   Says("HANDOFF", TRUE, "plain", <<>>),
   Says("NEED_APPROVAL", TRUE, "none", <<>>)}

Grants(reply, execute, handoff) ==
  [reply |-> reply, execute |-> execute, handoff |-> handoff]

EveryPolicy == ScenarioPolicy
OpenPolicy == {Grants(TRUE, TRUE, TRUE)}
=============================================================================
