--------------------------- MODULE RunProperties ---------------------------
(***************************************************************************)
(* What a workflow run must get right across failures and resumes.         *)
(***************************************************************************)
EXTENDS WorkflowRun

(* The stage rows a reader of the file gets back.                          *)
AddRow(rows, line) == IF IsStageRow(line) THEN Append(rows, line) ELSE rows

StoryOf(ls) ==
  LET rows[n \in 0..Len(ls)] == IF n = 0 THEN <<>> ELSE AddRow(rows[n - 1], ls[n])
  IN  rows[Len(ls)]

StoryOfRun == StoryOf(lines)

S == INSTANCE Story WITH story <- StoryOfRun

(* The live state is the state a resume would rebuild from the file at     *)
(* this instant: sessions.ts and script-stage.ts commit what resume.ts     *)
(* folds, numbers, counters, artifacts and named outputs alike.            *)
StateParity == Running => Recon.st = st

(* The stages the backward-jump guard takes for visited are those a resume *)
(* would, except for the stage now being entered or run.                   *)
VisitedParity ==
  Running => visited \subseteq Recon.visited /\ Recon.visited \ {at} \subseteq visited

(* A fanout or an iterate in progress stands where the trail says it does: *)
(* a resume would run the very unit the live loop is about to run, with    *)
(* the entry artifact and the accumulated outputs of the live loop.        *)
UnitParity ==
  LET g == Recon.gen
  IN  /\ pc = "session" /\ unit.todo # <<>> =>
           IF g.parent = at THEN g.units = SubSeq(unit.todo, 1, unit.done)
           ELSE unit.done = 0
      /\ pc \in {"session", "pull"} /\ Def[at].shape = "iterate" =>
           IF g.parent = at THEN g.acc = unit.acc /\ g.entry = unit.entry
           ELSE unit.acc = <<>> /\ unit.entry = st.primary

(* The block of unit rows of one stage that ends the trail, with the units *)
(* completed in it: the file read line by line, without the fold.          *)
NoBlock == [stage |-> NoStage, units |-> <<>>]

AddUnit(block, line) ==
  LET before == IF block.stage = line.stage THEN block.units ELSE <<>>
  IN  IF ~IsStageRow(line) THEN block
      ELSE IF ~IsDecorated(line) THEN NoBlock
      ELSE [stage |-> line.stage,
            units |-> IF line.status = "completed" THEN Append(before, line.unit)
                      ELSE before]

TrailingBlock(ls) ==
  LET block[n \in 0..Len(ls)] == IF n = 0 THEN NoBlock ELSE AddUnit(block[n - 1], ls[n])
  IN  block[Len(ls)]

(* When the runner leaves a fanout, whatever crashes, halts and resumes    *)
(* lie behind, the trail shows each unit of the list completed once and in *)
(* order.                                                                  *)
UnitsExactlyOnce ==
  pc = "route" /\ unit.todo # <<>> =>
    TrailingBlock(lines) = [stage |-> at, units |-> unit.todo]

(* Stage numbers identify rows (Output.meta.stageNumber refers to one):    *)
(* they increase along the file, also across lost rows and resumes.        *)
NumbersIncrease ==
  \A i, j \in 1..Len(lines) :
    i < j /\ IsStageRow(lines[i]) /\ IsStageRow(lines[j]) => lines[i].num < lines[j].num

(* The result of the call and the end of the trail tell the same story: a  *)
(* success leaves a completed stage that may stop as the last row (so that *)
(* a resume has nothing to run), an error whose appends all landed leaves  *)
(* a failed row (so that a resume runs something again), and a rejected    *)
(* call was resuming a unit and left that unit for the next resume.        *)
EnvelopeMatchesTrail ==
  LET last == Recon.last
  IN  pc = "ended" =>
        /\ outcome = "success" => /\ last # NoRow /\ last.status = "completed"
                                  /\ Stop \in Edge[last.stage].targets
        /\ outcome = "error" /\ faults = 0 => last # NoRow /\ last.status = "failed"
        /\ outcome = "thrown" => last # NoRow /\ IsDecorated(last)

(* Whatever lines were cut short or glued together, the file never claims  *)
(* more than the live run has done: a resume may repeat work, not skip it, *)
(* and its allocator stays behind the live one.                            *)
NeverAhead ==
  Running => /\ Recon.st.completed <= st.completed
             /\ Recon.st.allocated <= st.allocated
             /\ Recon.visited \subseteq visited \cup {at}

(* Completed rows of stage s, units apart.                                 *)
Completed(line, s) ==
  IsStageRow(line) /\ line.stage = s /\ ~IsDecorated(line) /\ line.status = "completed"

Completions(s) == Cardinality({i \in 1..Len(lines) : Completed(lines[i], s)})

(* A region no edge leaves, or none but into t; and one that no fixed edge *)
(* leaves.  What is reachable is what is in every such region.             *)
Closed(region, t) == \A x \in region : Edge[x].targets \ {Stop, t} \subseteq region

FixedClosed(region) ==
  \A x \in region : ~Edge[x].decision => Edge[x].targets \ {Stop} \subseteq region

Reaches(x, s) ==
  \A region \in SUBSET Stage : x \in region /\ Closed(region, Stop) => s \in region

ReachesByFixed(x, s) ==
  \A region \in SUBSET Stage : x \in region /\ FixedClosed(region) => s \in region

(* A way from the start to s passes by t.                                  *)
Bypasses(t, s) ==
  \A region \in SUBSET Stage :
    Closed(region, t) /\ (Start = t \/ Start \in region) => s \in region

Chosen == {t \in Stage : \E x \in Stage : Edge[x].decision /\ t \in Edge[x].targets}

(* The stages a decision may send the run to for the first time when s has *)
(* completed already, and behind which s may come again.                   *)
Detours == [s \in Stage |-> {t \in Chosen \ {s} : Reaches(t, s) /\ Bypasses(t, s)}]

(* MAX_BACKWARD_JUMPS is a budget per loop and per call: every call, and   *)
(* every detour taken for the first time, grants a stage one completion    *)
(* and MaxBackwardJumps retries, and no path around the guard exists.      *)
RetriesBounded ==
  \A s \in Stage :
    Completions(s) <= (resumes + 1 + Cardinality(Detours[s])) * (MaxBackwardJumps + 1)

(* What is left of a call, from the most significant to the least: the     *)
(* stages never reached and the jumps, the stages ahead on fixed edges,    *)
(* the phases of the present stage, its units.                             *)
Reached == IF pc = "guard" THEN visited ELSE visited \cup {at}

JumpsLeft ==
  Cardinality(Stage \ Reached) * (MaxBackwardJumps + 1) + MaxBackwardJumps - jumps

FixedAhead == [s \in Stage |-> Cardinality({t \in Stage : ReachesByFixed(s, t)})]

StagesLeft == IF pc = "guard" THEN 0 ELSE FixedAhead[at]

PhasesLeft == IF pc = "enter" THEN 2 ELSE IF pc \in {"session", "pull"} THEN 1 ELSE 0

UnitsLeft ==
  IF pc = "session" /\ InFanoutUnit THEN Len(unit.todo) - unit.done
  ELSE 2 * (MaxIterations - Len(unit.acc)) + (IF pc = "pull" THEN 1 ELSE 0)

(* No step of a call is for nothing: it settles the call, or takes from    *)
(* what is left of it and adds to nothing more significant.  Whatever      *)
(* resets a counter (an escape the jumps, a stage its units) uses up       *)
(* something that nothing gives back, which is why every call settles.     *)
NearerTheEnd ==
  [][Work /\ Running' =>
       /\ JumpsLeft' \in Nat
       /\ \/ JumpsLeft' < JumpsLeft
          \/ JumpsLeft' = JumpsLeft /\ StagesLeft' < StagesLeft
          \/ /\ JumpsLeft' = JumpsLeft /\ StagesLeft' = StagesLeft
             /\ PhasesLeft' < PhasesLeft
          \/ /\ JumpsLeft' = JumpsLeft /\ StagesLeft' = StagesLeft
             /\ PhasesLeft' = PhasesLeft
             /\ UnitsLeft' \in Nat /\ UnitsLeft' < UnitsLeft]_vars

(* The trail is one story: every row follows from the rows before it.      *)
OneStory == S!Spec

(* A call settles: decision loops are cut by the backward-jump budget,     *)
(* generators by the iteration cap.                                        *)
CallSettles == Running ~> ~Running

=============================================================================
