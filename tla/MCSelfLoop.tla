----------------------------- MODULE MCSelfLoop -----------------------------
(***************************************************************************)
(* One iterate stage whose decision may start it over: a self-loop, which  *)
(* validate-workflow.ts accepts.                                           *)
(***************************************************************************)
EXTENDS RunProperties

MCDef == [s \in {"slice"} |->
  [shape |-> "iterate", kind |-> "produces", terminal |-> FALSE,
   prompt |-> FALSE, reads |-> {}, publish |-> "slices"]]

MCEdge == [s \in {"slice"} |->
  [decision |-> TRUE, targets |-> {"slice", Stop}]]

MCFanoutFn(s, a, e) == <<>>

MCIterateFn(s, a, acc, e) ==
  CASE Len(acc) = 0 -> "a"
    [] Len(acc) = 1 -> "b"
    [] OTHER -> NoUnit
=============================================================================
