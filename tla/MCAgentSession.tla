--------------------------- MODULE MCAgentSession ---------------------------
(* Constants for model-checking AgentSession: what the model may answer. *)
EXTENDS AgentSession

C(tool) == [tool |-> tool]

MCAnswers ==
  {<<>>, <<C("read"), C("update")>>, <<C("update"), C("delete")>>, <<C("hybrid")>>}
=============================================================================
