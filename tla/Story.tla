------------------------------- MODULE Story -------------------------------
(***************************************************************************)
(* What the audit trail promises its readers: "New rows append to the same *)
(* JSONL file so the trail reads as one story: ran -> failed -> resumed -> *)
(* continued" (runner.ts, resumeWorkflow).  The whole state is the         *)
(* sequence of stage rows.  There are no processes, crashes or resumes     *)
(* here: every row must follow from the rows before it alone, as a         *)
(* continuation of the workflow's graph and of its unit lists.             *)
(***************************************************************************)
EXTENDS Reconstruct

VARIABLE story

IsComplete(row) == row.status = "completed"

(* The labels the first row of an activation of stage s may carry, when    *)
(* the artifact in force is a; NoUnit: the stage runs in one session.      *)
FirstUnits(s, a) ==
  CASE Def[s].shape = "fanout" ->
         {IF FanoutFn(s, a, e) = <<>> THEN NoUnit ELSE FanoutFn(s, a, e)[1] : e \in Epoch}
    [] Def[s].shape = "iterate" -> {IterateFn(s, a, <<>>, e) : e \in Epoch}
    [] OTHER -> {NoUnit}

(* A refusal of the runner itself, reported under the bare stage name.     *)
Refuses(s, row) ==
  row.stage = s /\ row.unit = NoUnit /\ ~IsComplete(row)

(* The row opens an activation of stage s.                                 *)
Opens(v, s, row) ==
  \/ row.stage = s /\ row.unit \in FirstUnits(s, v.st.primary)
  \/ Refuses(s, row)

(* The units that may follow the completed units of the open generation.   *)
NextUnits(v) ==
  LET p == v.gen.parent
      n == Len(v.gen.units)
      lists == {FanoutFn(p, v.st.primary, e) : e \in Epoch}
  IN  IF Def[p].shape = "fanout"
      THEN {l[n + 1] : l \in {k \in lists : /\ Len(k) > n
                                            /\ SubSeq(k, 1, n) = v.gen.units}}
      ELSE {IterateFn(p, v.gen.entry, v.gen.acc, e) : e \in Epoch} \ {NoUnit}

(* The open generation may be over.                                        *)
Exhausted(v) ==
  LET p == v.gen.parent
  IN  \E e \in Epoch :
        IF Def[p].shape = "fanout"
        THEN v.gen.units = FanoutFn(p, v.st.primary, e)
        ELSE IterateFn(p, v.gen.entry, v.gen.acc, e) = NoUnit

(* The stages that may come after stage s.                                 *)
Follows(v, row) ==
  LET s == v.last.stage
  IN  \/ \E t \in Edge[s].targets \ {Stop} : Opens(v, t, row)
      \/ Edge[s].decision /\ Refuses(s, row)      \* the edge function threw

Licensed(v, row) ==
  /\ row.num = v.st.allocated + 1
  /\ row.out \in IF IsComplete(row) THEN OutputsOf(row.stage, row.unit) ELSE {"none"}
  /\ CASE v.last = NoRow -> Opens(v, Start, row)
       [] v.last # NoRow /\ ~IsDecorated(v.last) ->
            IF IsComplete(v.last) THEN Follows(v, row)
            ELSE Opens(v, v.last.stage, row)
       [] OTHER ->
            \/ row.stage = v.gen.parent /\ row.unit \in NextUnits(v)
            \/ Refuses(v.gen.parent, row)
            \/ Exhausted(v) /\ Follows(v, row)

Init == story = <<>>

Extend ==
  /\ Len(story') = Len(story) + 1
  /\ SubSeq(story', 1, Len(story)) = story
  /\ Licensed(ReconstructState(story), story'[Len(story')])

Spec == Init /\ [][Extend]_story
=============================================================================
