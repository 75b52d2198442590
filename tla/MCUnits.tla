------------------------------ MODULE MCUnits ------------------------------
(***************************************************************************)
(* A workflow in the form of the built-in `polish': slices pulled from a   *)
(* generator, a fanout over the last slice, and a check whose decision     *)
(* starts over or stops.  Both generators depend on the artifact they are  *)
(* given, so that a resume with the wrong one runs the wrong unit, and on  *)
(* the outside world, so that they may drift between two calls.            *)
(***************************************************************************)
EXTENDS RunProperties

MCStage == {"slice", "work", "check"}
MCSlot == {"slices", "checks"}
MCTag == {"a", "b", "c"}

Stages(shape, kind, publish) ==
  [shape |-> shape, kind |-> kind, terminal |-> FALSE, prompt |-> FALSE,
   reads |-> {}, publish |-> publish]

MCDef == [s \in MCStage |->
  CASE s = "slice" -> Stages("iterate", "produces", "slices")
    [] s = "work"  -> Stages("fanout", "side-effect", "checks")
    [] s = "check" -> Stages("session", "produces", "checks")]

MCEdge == [s \in MCStage |->
  CASE s = "slice" -> [decision |-> FALSE, targets |-> {"work"}]
    [] s = "work"  -> [decision |-> FALSE, targets |-> {"check"}]
    [] s = "check" -> [decision |-> TRUE, targets |-> {"slice", Stop}]]

(* Two units, in an order the artifact decides; in epoch 2 the even list   *)
(* has another second unit, so that a prefix of it survives the drift, and *)
(* the odd list is empty, so that the stage runs in one session.           *)
MCFanoutFn(s, a, e) ==
  CASE a % 2 = 0 /\ e = 1 -> <<"a", "b">>
    [] a % 2 = 0 /\ e = 2 -> <<"a", "c">>
    [] a % 2 = 1 /\ e = 1 -> <<"b", "a">>
    [] a % 2 = 1 /\ e = 2 -> <<>>

(* The first slice is decided by the entry artifact.  In epoch 1 the first *)
(* pass has two slices and a later one never ends; in epoch 2 one slice.   *)
MCIterateFn(s, a, acc, e) ==
  CASE Len(acc) = 0 -> IF a = 0 THEN "a" ELSE "b"
    [] Len(acc) = 1 /\ e = 1 -> "c"
    [] Len(acc) > 1 /\ e = 1 /\ a # 0 -> "a"
    [] OTHER -> NoUnit
=============================================================================
