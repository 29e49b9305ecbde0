--------------------------- MODULE MCWorkFlowRun ---------------------------
(***************************************************************************)
(* WorkFlowRun for TLC.  The branch of a for loop is some work and an agent *)
(* that race, then a while loop around a condition, before it comes back;  *)
(* a second branch of it does not come back.  The end of the loop and the  *)
(* input are merged.                                                       *)
(***************************************************************************)
EXTENDS WorkFlowRun

LoopNodes ==
    {"input", "for", "note", "work", "agent", "race", "while", "condition", "merge"}
LoopKind ==
    [n \in LoopNodes |-> CASE n = "input" -> "start" [] n = "note" -> "work" [] OTHER -> n]
Wire(from, port, to, into) == [from |-> from, port |-> port, to |-> to, into |-> into]
Branch1 == Wire("for", "loop", "work", "in")
Branch2 == Wire("for", "loop", "note", "in")
Inner == Wire("while", "loop", "condition", "in")
LoopConnections ==
    {Wire("input", "result", "for", "value"), Branch1, Branch2, Inner,
     Wire("work", "result", "race", "a"), Wire("work", "result", "agent", "in"),
     Wire("agent", "result", "race", "b"), Wire("race", "result", "while", "value"),
     Wire("condition", "true", "while", "loop"), Wire("while", "done", "for", "loop"),
     Wire("input", "result", "merge", "a"), Wire("for", "done", "merge", "b")}
LoopIterations == [n \in {"for", "while"} |-> 1]

\* The graph is one of those LoopsTakeTurns is proved for.
ASSUME LoopsAreNested ==
    Nested([n \in LoopNodes |->
              CASE n \in {"work", "agent", "race", "while"} -> <<Branch1>>
                [] n = "condition" -> <<Branch1, Inner>>
                [] n = "note" -> <<Branch2>>
                [] OTHER -> <<>>])
=============================================================================
