----------------------------- MODULE MCPipeline -----------------------------
(***************************************************************************)
(* A workflow in the form of the built-in `build': plan, implement, review *)
(* by a script whose decision sends the work back or on to a terminal      *)
(* commit; and with a second loop through the same decision, by way of a   *)
(* fix that the run first reaches in mid-loop.                             *)
(***************************************************************************)
EXTENDS RunProperties

MCStage == {"plan", "implement", "review", "fix", "commit"}
MCSlot == {"plan", "code", "review"}

Stages(shape, kind, terminal, reads, publish) ==
  [shape |-> shape, kind |-> kind, terminal |-> terminal, prompt |-> FALSE,
   reads |-> reads, publish |-> publish]

MCDef == [s \in MCStage |->
  CASE s = "plan"      -> Stages("session", "produces", FALSE, {}, "plan")
    [] s = "implement" -> Stages("session", "produces", FALSE, {"plan"}, "code")
    [] s = "review"    -> Stages("script", "produces", FALSE, {}, "review")
    [] s = "fix"       -> Stages("session", "produces", FALSE, {"plan", "code"}, "code")
    [] s = "commit"    -> Stages("session", "side-effect", TRUE, {}, "code")]

MCEdge == [s \in MCStage |->
  CASE s = "plan"      -> [decision |-> FALSE, targets |-> {"implement"}]
    [] s = "implement" -> [decision |-> FALSE, targets |-> {"review"}]
    [] s = "review"    -> [decision |-> TRUE, targets |-> {"implement", "commit"}]
    [] s = "fix"       -> [decision |-> FALSE, targets |-> {"review"}]
    [] s = "commit"    -> [decision |-> FALSE, targets |-> {Stop}]]

MCDetourEdge == [MCEdge EXCEPT !["review"].targets = @ \cup {"fix"}]

MCFanoutFn(s, a, e) == <<>>
MCIterateFn(s, a, acc, e) == NoUnit
=============================================================================
