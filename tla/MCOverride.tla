----------------------------- MODULE MCOverride -----------------------------
(***************************************************************************)
(* Two stages, one with a skill and one a script, two skills to type, and  *)
(* files that configure them on every rung of the cascade.  The user picks *)
(* from models no file names, so that an override left in force is seen.   *)
(***************************************************************************)
EXTENDS ModelOverride

MCStageRef == {[name |-> "plan", skill |-> "blueprint"], [name |-> "check", skill |-> None]}

Entry(m, l) == [model |-> m, thinking |-> l]
Nothing == [n \in {} |-> Blank]

(* The plan stage is named by its skill, by its stage and by its preset;   *)
(* an entry with a level only; defaults that reach every rung; a name the  *)
(* registry does not know.                                                 *)
MCFile == {
  [defaults |-> Blank,
   stages |-> [n \in {"plan"} |-> Entry("o1", "high")],
   skills |-> [n \in {"blueprint"} |-> Entry("o2", None)],
   presets |-> Nothing],
  [defaults |-> Blank,
   stages |-> [n \in {"check"} |-> Entry("gone", "high")],
   skills |-> [n \in {"blueprint", "commit"} |->
                 IF n = "commit" THEN Entry(None, "high") ELSE Entry("o1", None)],
   presets |-> [w \in {"ship"} |-> [n \in {"plan"} |-> Entry("o2", None)]]],
  [defaults |-> Entry("o1", None),
   stages |-> [n \in {"check"} |-> Entry("o2", None)],
   skills |-> [n \in {"commit"} |-> Entry(None, "high")],
   presets |-> [w \in {"ship"} |-> Nothing]]}
=============================================================================
