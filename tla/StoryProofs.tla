----------------------------- MODULE StoryProofs -----------------------------
(***************************************************************************)
(* The trail, the run and what a resume rebuilds of it tell one story.     *)
(*                                                                         *)
(* First that the live run and the run a resume would rebuild are the      *)
(* same, as long as an append writes its whole line or nothing of it.  The *)
(* code keeps them equal by hand: sessions.ts and script-stage.ts commit a *)
(* completed stage to RunState, resume.ts folds its row.  The proof is by  *)
(* cases on what the runner may do between two rows, and rests on one      *)
(* computation, CommitIsFold: the three arms of the fold and the three     *)
(* commits give the same state.  Then what the rows say of one another.    *)
(***************************************************************************)
EXTENDS WorkflowRunProofs, FiniteSetTheorems

StateAgrees == pc \notin {"down", "ended"} => Recon.st = st

StateInv == TypeOK /\ ~open /\ StateAgrees

-----------------------------------------------------------------------------
(* The file, when no append stops part-way *)

LEMMA WholeLines ==
  ASSUME ~MayTear, ~open, NEW line, BestEffort(line) \/ Landed(line) \/ AppendFails(line)
  PROVE  ~open' /\ (UNCHANGED lines \/ lines' = Append(lines, line))
BY DEF BestEffort, Landed, AppendFails, Torn

LEMMA ReconNext ==
  ASSUME TrailType, NEW line \in Line, UNCHANGED lines \/ lines' = Append(lines, line)
  PROVE  /\ UNCHANGED lines => Recon' = Recon
         /\ lines' = Append(lines, line) => Recon' = FoldLine(Recon, line)
BY ReconstructAppend DEF TrailType, Recon

-----------------------------------------------------------------------------
(* What a row folds to is what its stage committed.                        *)

LEMMA CountedCommit ==
  ASSUME NEW v \in View, NEW row \in StageRows, row.status = "completed",
         row.num = v.st.allocated + 1
  PROVE  Counted(v, row).st = [v.st EXCEPT !.allocated = row.num, !.completed = @ + 1]
<1>1. Counted(v, row).st = CountedState(v.st, row) /\ v.st \in RunState
  BY CountedEffect DEF View
<1>2. v.st.allocated \in Nat
  BY <1>1 DEF RunState
<1>3. Larger(v.st.allocated, row.num) = row.num
  BY <1>2 DEF Larger
<1> QED BY <1>1, <1>3 DEF CountedState

LEMMA ProducedFold ==
  ASSUME NEW v \in View, NEW row \in StageRows, row.status = "completed"
  PROVE  FoldLine(v, row).st =
           IF (IsDecorated(row) /\ Def[row.stage].shape = "fanout") \/ row.out = "none"
           THEN Counted(v, row).st ELSE Produced(Counted(v, row).st, row)
<1> DEFINE c == Counted(v, row)
<1>1. c \in View /\ IsStageRow(row)
  BY CountedType DEF IsStageRow, StageRows
<1>2. CASE IsDecorated(row) /\ Def[row.stage].shape = "fanout"
  <2>1. FoldLine(v, row) = FoldFanoutUnit(v, row)
    BY <1>1, <1>2 DEF FoldLine
  <2>2. FoldFanoutUnit(v, row).st = c.st
    BY <1>1 DEF FoldFanoutUnit, View
  <2> HIDE DEF c
  <2> QED BY <1>2, <2>1, <2>2 DEF c
<1>3. CASE ~IsDecorated(row)
  <2> DEFINE d == [c EXCEPT !.gen = NoGeneration]
  <2>1. FoldLine(v, row) = FoldKnownStage(v, row)
    BY <1>1, <1>3 DEF FoldLine
  <2>2. d.st = c.st /\ [d EXCEPT !.st = Produced(@, row)].st = Produced(d.st, row)
    BY <1>1 DEF View
  <2>3. FoldKnownStage(v, row) = IF row.out # "none"
                                 THEN [d EXCEPT !.st = Produced(@, row)] ELSE d
    BY DEF FoldKnownStage
  <2> HIDE DEF c, d
  <2> QED BY <1>3, <2>1, <2>2, <2>3 DEF c
<1>4. CASE IsDecorated(row) /\ Def[row.stage].shape # "fanout"
  <2> DEFINE d == [c EXCEPT !.gen = GenerationOf(v, row)]
             e == [d EXCEPT !.st = Produced(@, row), !.gen.acc = Append(@, row.num)]
  <2>1. FoldLine(v, row) = FoldIterateUnit(v, row)
    BY <1>1, <1>4 DEF FoldLine
  <2>2. d.st = c.st /\ e.st = Produced(d.st, row)
    BY <1>1 DEF View
  <2>3. FoldIterateUnit(v, row) = IF row.out # "none" THEN e ELSE d
    BY DEF FoldIterateUnit
  <2> HIDE DEF c, d, e
  <2> QED BY <1>4, <2>1, <2>2, <2>3 DEF c
<1> QED BY <1>2, <1>3, <1>4

LEMMA CommitIsFold ==
  ASSUME RunType, TrailType, Recon.st = st, NEW out \in OutputsOf(at, unit.tag)
  PROVE  FoldLine(Recon, StageRow(NextNumber, at, unit.tag, "completed", out)).st
           = Committed(NextNumber, out)
<1> DEFINE row == StageRow(NextNumber, at, unit.tag, "completed", out)
           counted == [st EXCEPT !.allocated = NextNumber, !.completed = @ + 1]
<1>1. row \in StageRows
  BY CompletedRowType
<1>2. /\ row.num = NextNumber /\ row.stage = at /\ row.unit = unit.tag
      /\ row.status = "completed" /\ row.out = out
  BY DEF StageRow
<1> HIDE DEF row
<1>3. Recon \in View
  BY ReconType
<1>4. Counted(Recon, row).st = counted
  BY <1>1, <1>2, <1>3, CountedCommit DEF NextNumber
<1>5. IsDecorated(row) /\ Def[row.stage].shape = "fanout" <=> out = "none"
  BY <1>2 DEF OutputsOf, IsDecorated
<1>6. Produced(counted, row) =
        ApplyCompletedStage([counted EXCEPT !.output = NextNumber], Def[at], NextNumber, out)
  BY <1>2 DEF Produced
<1>7. FoldLine(Recon, row).st = IF out = "none" THEN counted ELSE Produced(counted, row)
  <2> HIDE DEF counted
  <2> QED BY <1>1, <1>2, <1>3, <1>4, <1>5, ProducedFold
<1>8. Committed(NextNumber, out) = IF out = "none" THEN counted ELSE Produced(counted, row)
  BY <1>6 DEF Committed
<1> QED BY <1>7, <1>8 DEF row

-----------------------------------------------------------------------------
(* The actions *)

(* What keeps the two states, or ends the run.                             *)
LEMMA Unmoved ==
  ASSUME StateInv, TypeOK', UNCHANGED <<lines, open>>,
         \/ UNCHANGED <<pc, st>>
         \/ pc \notin {"down", "ended"} /\ UNCHANGED st
         \/ pc' \in {"down", "ended"}
         \/ st' = Recon.st
  PROVE  StateInv'
BY DEF StateInv, StateAgrees, Recon

LEMMA HaltState ==
  ASSUME ~MayTear, StateInv, TypeOK', NEW n, NEW s, NEW u, Halt(n, s, u)
  PROVE  StateInv'
BY WholeLines DEF Halt, Settle, StateInv, StateAgrees

LEMMA SessionState ==
  ASSUME ~MayTear, StateInv, TypeOK', SessionCompletes \/ SessionAuditFails
  PROVE  StateInv'
<1>1. TrailType /\ RunType /\ Recon.st = st /\ ~open
  BY DEF StateInv, StateAgrees, TypeOK, TrailType, RunType, SessionCompletes,
         SessionAuditFails
<1>2. CASE SessionCompletes
  <2>1. PICK out \in OutputsOf(at, unit.tag) :
          /\ Landed(StageRow(NextNumber, at, unit.tag, "completed", out))
          /\ st' = Committed(NextNumber, out)
    BY <1>2 DEF SessionCompletes
  <2>2. StageRow(NextNumber, at, unit.tag, "completed", out) \in Line
    BY <1>1, CompletedRowType DEF Line
  <2>3. /\ ~open'
        /\ lines' = Append(lines, StageRow(NextNumber, at, unit.tag, "completed", out))
    BY <1>1, <2>1 DEF Landed
  <2>4. Recon'.st = st'
    BY <1>1, <2>1, <2>2, <2>3, ReconNext, CommitIsFold
  <2> QED BY <2>3, <2>4 DEF StateInv, StateAgrees
<1>3. CASE SessionAuditFails
  <2>1. ~open' /\ pc' = "ended"
    BY <1>1, <1>3, WholeLines DEF SessionAuditFails, Settle
  <2> QED BY <2>1 DEF StateInv, StateAgrees
<1> QED BY <1>2, <1>3

(* A line that is not a stage row changes no state.                        *)
LEMMA OtherLineState ==
  ASSUME ~MayTear, StateInv, TypeOK', pc \notin {"down", "ended"}, UNCHANGED st,
         NEW line \in Line, ~IsStageRow(line), BestEffort(line)
  PROVE  StateInv'
<1>1. TrailType /\ ~open /\ Recon.st = st
  BY DEF StateInv, StateAgrees, TypeOK, TrailType
<1>2. ~open' /\ (UNCHANGED lines \/ lines' = Append(lines, line))
  BY <1>1, WholeLines
<1>3. Recon' = Recon
  BY <1>1, <1>2, ReconNext DEF FoldLine
<1> QED BY <1>1, <1>2, <1>3 DEF StateInv, StateAgrees

LEMMA StepState ==
  ASSUME ~MayTear, StateInv, [Next]_vars
  PROVE  StateInv'
<1>1. TypeOK'
  BY StepType DEF StateInv
<1>2. TrailType /\ RunType
  BY DEF StateInv, TypeOK, TrailType, RunType
<1>3. CASE Launch
  <2>1. Header \in Line /\ ~IsStageRow(Header)
    BY DEF Line, Header, IsStageRow
  <2> QED BY <1>1, <1>3, <2>1, OtherLineState DEF Launch
<1>4. CASE SessionCompletes \/ SessionAuditFails
  BY <1>1, <1>4, SessionState
<1>5. CASE RouteDecision
  <2>1. PICK next \in Edge[at].targets \ {Stop} : BestEffort(RoutingRow(at, next))
    BY <1>5 DEF RouteDecision
  <2>2. RoutingRow(at, next) \in Line /\ ~IsStageRow(RoutingRow(at, next))
    BY <1>2, TargetType DEF RoutingRow, RoutingRows, Line, RunType, IsStageRow
  <2> QED BY <1>1, <1>5, <2>1, <2>2, OtherLineState DEF RouteDecision
<1>6. CASE HaltAtSeam \/ PullUnit \/ SessionHalts \/ SessionThrows \/ RouteError \/ JumpBack
  BY <1>1, <1>6, HaltState, Unmoved DEF HaltAtSeam, PullUnit, SessionHalts,
     SessionThrows, RouteError, JumpBack, Settle, trailVars
<1>7. CASE EnterSingle \/ EnterFanout \/ EnterIterate \/ RouteStop \/ RouteNext \/ EscapeLoop
  BY <1>1, <1>7, Unmoved DEF EnterSingle, EnterFanout, EnterIterate, RouteStop,
     RouteNext, EscapeLoop, Settle, trailVars
<1>8. CASE Crash
  BY <1>1, <1>8, Unmoved DEF Crash, trailVars
<1>9. CASE Resume
  <2>1. CASE RefuseDrift(Recon)
    BY <1>1, <2>1, HaltState DEF RefuseDrift
  <2>2. CASE UNCHANGED trailVars /\ (st' = Recon.st \/ pc' = "ended")
    BY <1>1, <2>2, Unmoved DEF trailVars
  <2> QED BY <1>9, <2>1, <2>2 DEF Resume, ResumeUnitStage, ResumeSingle, ResumeFanout,
             ResumeIterate, Reenter, Settle
<1>10. CASE Drift \/ UNCHANGED vars
  BY <1>1, <1>10, Unmoved DEF Drift, vars, trailVars, runVars
<1> QED BY <1>3, <1>4, <1>5, <1>6, <1>7, <1>8, <1>9, <1>10 DEF Next, Work

(* While a call is in progress, a kill loses nothing: the state a resume   *)
(* rebuilds from the file (counters, artifact, named outputs) is the state *)
(* of the live run, whatever rows were dropped and however often the run   *)
(* was resumed before.                                                     *)
THEOREM StateAlwaysRebuilt ==
  ASSUME ~MayTear
  PROVE  Spec => []StateParity
<1>1. Init => StateInv
  <2>1. Init => Recon = EmptyView
    BY ReconstructEmpty DEF Init, Recon
  <2> QED BY <2>1, InitType DEF StateInv, StateAgrees, EmptyView, Init
<1>2. StateInv /\ [Next]_vars => StateInv'
  BY StepState
<1>3. StateInv => StateParity
  BY DEF StateInv, StateAgrees, StateParity, Running
<1> QED BY <1>1, <1>2, <1>3, PTL DEF Spec

-----------------------------------------------------------------------------
(* The stages visited.  The runner marks a stage visited when it leaves    *)
(* it, the fold when it reads a row of it; they agree because nothing is   *)
(* left without a row.  An iterate whose generator has nothing to say from *)
(* the start would be: the theorem assumes there is none.                  *)

IteratesStart ==
  \A s \in Stage, a \in Nat, e \in Epoch :
    Def[s].shape = "iterate" => IterateFn(s, a, <<>>, e) # NoUnit

(* The stage being left has a row already.                                 *)
HasRow ==
  pc = "route" \/ (pc \in {"pull", "session"} /\ unit.acc # <<>>) => at \in Recon.visited

PullsFromIterate ==
  pc = "pull" \/ (pc = "session" /\ InIterateUnit) => Def[at].shape = "iterate"

LastIsVisited == Recon.last # NoRow => Recon.last.stage \in Recon.visited

VisitedAgrees ==
  pc \notin {"down", "ended"} =>
    visited \subseteq Recon.visited /\ Recon.visited \ {at} \subseteq visited

VisitedInv ==
  StateInv /\ HasRow /\ PullsFromIterate /\ LastIsVisited /\ VisitedAgrees

LEMMA LastAfter ==
  ASSUME TrailType, LastIsVisited, NEW line \in Line,
         UNCHANGED lines \/ lines' = Append(lines, line)
  PROVE  LastIsVisited'
<1>1. Recon \in View /\ (Recon' = Recon \/ Recon' = FoldLine(Recon, line))
  BY ReconType, ReconNext
<1>2. CASE IsStageRow(line) /\ Recon' = FoldLine(Recon, line)
  <2>1. line \in StageRows
    BY <1>2, StageRowsType
  <2>2. Recon'.visited = Recon.visited \cup {line.stage} /\ Recon'.last = line
    BY <1>1, <1>2, <2>1, FoldLineEffect
  <2> QED BY <2>2 DEF LastIsVisited
<1>3. CASE ~IsStageRow(line) \/ Recon' = Recon
  <2>1. Recon' = Recon
    BY <1>1, <1>3 DEF FoldLine
  <2> QED BY <2>1 DEF LastIsVisited
<1> QED BY <1>1, <1>2, <1>3

(* Once the call is over, only the last row matters.                       *)
LEMMA SettledVisited ==
  ASSUME StateInv', LastIsVisited', pc' \in {"down", "ended"}
  PROVE  VisitedInv'
BY DEF VisitedInv, HasRow, PullsFromIterate, VisitedAgrees

LEMMA HaltVisited ==
  ASSUME ~MayTear, VisitedInv, StateInv',
         NEW n \in Nat \ {0}, NEW s \in Stage, NEW u \in Tag \cup {NoUnit}, Halt(n, s, u)
  PROVE  VisitedInv'
<1>1. StageRow(n, s, u, "failed", "none") \in Line
  BY StageRowType DEF Status, OutputShape, Line
<1>2. UNCHANGED lines \/ lines' = Append(lines, StageRow(n, s, u, "failed", "none"))
  BY WholeLines DEF Halt, VisitedInv, StateInv
<1>3. TrailType /\ LastIsVisited
  BY DEF VisitedInv, StateInv, TypeOK, TrailType
<1>4. LastIsVisited'
  BY <1>1, <1>2, <1>3, LastAfter
<1> QED BY <1>4, SettledVisited DEF Halt, Settle

LEMMA SessionVisited ==
  ASSUME ~MayTear, VisitedInv, StateInv', SessionCompletes
  PROVE  VisitedInv'
<1>1. TrailType /\ RunType /\ LastIsVisited /\ Recon \in View
      /\ visited \subseteq Recon.visited /\ Recon.visited \ {at} \subseteq visited
      /\ PullsFromIterate /\ ~open /\ pc = "session"
  BY ReconType DEF VisitedInv, VisitedAgrees, StateInv, TypeOK, TrailType, RunType,
     SessionCompletes
<1>2. PICK out \in OutputsOf(at, unit.tag) :
        /\ Landed(StageRow(NextNumber, at, unit.tag, "completed", out))
        /\ AdvanceUnit(NextNumber)
  BY DEF SessionCompletes
<1> DEFINE row == StageRow(NextNumber, at, unit.tag, "completed", out)
<1>3. row \in StageRows /\ row \in Line /\ row.stage = at
  BY <1>1, CompletedRowType DEF Line, StageRow
<1>4. lines' = Append(lines, row)
  BY <1>1, <1>2 DEF Landed
<1> HIDE DEF row
<1>5. Recon' = FoldLine(Recon, row)
  BY <1>1, <1>3, <1>4, ReconNext
<1>6. Recon'.visited = Recon.visited \cup {at}
  BY <1>1, <1>3, <1>5, FoldLineEffect
<1>7. LastIsVisited'
  BY <1>1, <1>3, <1>4, LastAfter
<1>8. UNCHANGED <<at, visited>>
  BY DEF SessionCompletes
<1>9. HasRow' /\ VisitedAgrees'
  BY <1>1, <1>6, <1>8 DEF HasRow, VisitedAgrees
<1>10. PullsFromIterate'
  <2>1. CASE InFanoutUnit /\ unit.done + 1 < Len(unit.todo)
    <3>1. /\ unit' = [unit EXCEPT !.done = unit.done + 1, !.tag = unit.todo[unit.done + 2]]
          /\ pc' = "session"
      BY <1>2, <2>1 DEF AdvanceUnit
    <3>2. unit'.todo = unit.todo
      BY <1>1, <3>1 DEF RunType, Activation
    <3> QED BY <2>1, <3>1, <3>2 DEF PullsFromIterate, InFanoutUnit, InIterateUnit
  <2>2. CASE InFanoutUnit /\ ~(unit.done + 1 < Len(unit.todo))
    BY <1>2, <2>2 DEF AdvanceUnit, PullsFromIterate
  <2>3. CASE ~InFanoutUnit /\ InIterateUnit
    BY <1>1, <1>8, <2>3 DEF PullsFromIterate
  <2>4. CASE ~InFanoutUnit /\ ~InIterateUnit
    BY <1>2, <2>4 DEF AdvanceUnit, PullsFromIterate
  <2> QED BY <2>1, <2>2, <2>3, <2>4
<1> QED BY <1>7, <1>9, <1>10 DEF VisitedInv

LEMMA PullVisited ==
  ASSUME ~MayTear, IteratesStart, VisitedInv, StateInv', PullUnit
  PROVE  VisitedInv'
<1> DEFINE next == IterateFn(at, unit.entry, unit.acc, epoch)
<1>1. RunType /\ epoch \in Epoch /\ PullsFromIterate /\ HasRow /\ VisitedAgrees
      /\ LastIsVisited /\ pc = "pull"
  BY DEF VisitedInv, StateInv, TypeOK, RunType, PullUnit
<1>2. CASE next = NoUnit /\ pc' = "route"
           /\ UNCHANGED <<trailVars, at, st, visited, jumps, unit, outcome>>
  <2>1. unit.entry \in Nat /\ at \in Stage /\ Def[at].shape = "iterate"
    BY <1>1 DEF RunType, Activation, PullsFromIterate
  <2>2. unit.acc # <<>>
    BY <1>1, <1>2, <2>1 DEF IteratesStart
  <2>3. at \in Recon.visited /\ Recon' = Recon
    BY <1>1, <1>2, <2>2 DEF HasRow, Recon, trailVars
  <2> QED BY <1>1, <1>2, <2>3 DEF VisitedInv, HasRow, VisitedAgrees, LastIsVisited,
             PullsFromIterate
<1>3. CASE next \in Tag /\ pc' = "session" /\ unit' = [unit EXCEPT !.tag = next]
           /\ UNCHANGED <<trailVars, at, st, visited, jumps, outcome>>
  <2>1. unit'.acc = unit.acc /\ Recon' = Recon
    BY <1>1, <1>3 DEF RunType, Activation, Recon, trailVars
  <2>2. HasRow' /\ VisitedAgrees' /\ LastIsVisited'
    BY <1>1, <1>3, <2>1 DEF HasRow, VisitedAgrees, LastIsVisited
  <2>3. PullsFromIterate'
    BY <1>1, <1>3 DEF PullsFromIterate
  <2> QED BY <2>2, <2>3 DEF VisitedInv
<1>4. CASE Halt(NextNumber, at, NoUnit)
  BY <1>1, <1>4, NextNumberType, HaltVisited DEF RunType
<1> QED BY <1>2, <1>3, <1>4 DEF PullUnit

(* Steps that add no stage row, with the file's effect on the fold known.  *)
LEMMA StageChangeVisited ==
  ASSUME VisitedInv, StateInv', Recon' = Recon, pc \notin {"down", "ended"},
         pc' \in {"enter", "guard"},
         \/ UNCHANGED <<at, visited>>
         \/ pc = "route" /\ visited' = visited \cup {at}
  PROVE  VisitedInv'
BY DEF VisitedInv, HasRow, VisitedAgrees, LastIsVisited, PullsFromIterate

LEMMA EnterVisited ==
  ASSUME VisitedInv, StateInv', EnterSingle \/ EnterFanout \/ EnterIterate
  PROVE  VisitedInv'
<1>1. UNCHANGED <<lines, at, visited>> /\ pc = "enter"
  BY DEF EnterSingle, EnterFanout, EnterIterate, trailVars
<1>2. LastIsVisited' /\ VisitedAgrees'
  BY <1>1 DEF VisitedInv, VisitedAgrees, LastIsVisited, Recon
<1>3. CASE EnterSingle
  BY <1>2, <1>3 DEF EnterSingle, Single, VisitedInv, HasRow, PullsFromIterate, InIterateUnit
<1>4. CASE EnterFanout
  <2> DEFINE units == FanoutFn(at, st.primary, epoch)
  <2>1. units # <<>> /\ unit' = [Single EXCEPT !.todo = units, !.tag = units[1]]
        /\ pc' = "session"
    BY <1>4 DEF EnterFanout
  <2> HIDE DEF units
  <2>2. unit'.acc = <<>> /\ unit'.todo # <<>>
    BY <2>1 DEF Single
  <2> QED BY <1>2, <2>1, <2>2 DEF VisitedInv, HasRow, PullsFromIterate, InIterateUnit
<1>5. CASE EnterIterate
  <2>1. unit'.acc = <<>> /\ pc' = "pull" /\ Def[at].shape = "iterate"
    BY <1>5 DEF EnterIterate, Single
  <2> QED BY <1>1, <1>2, <2>1 DEF VisitedInv, HasRow, PullsFromIterate
<1> QED BY <1>3, <1>4, <1>5

LEMMA ReenterVisited ==
  ASSUME VisitedInv, StateInv', Recon.last # NoRow, NEW phase, NEW activation,
         Reenter(Recon, phase, activation),
         phase = "pull" => Def[Recon.last.stage].shape = "iterate",
         phase = "session" => activation.todo # <<>>
  PROVE  VisitedInv'
<1>1. /\ Recon' = Recon /\ at' = Recon.last.stage /\ visited' = Recon.visited
      /\ pc' = phase /\ unit' = activation
  BY DEF Reenter, trailVars, Recon
<1>2. HasRow' /\ VisitedAgrees' /\ LastIsVisited'
  BY <1>1 DEF VisitedInv, HasRow, VisitedAgrees, LastIsVisited
<1>3. PullsFromIterate'
  BY <1>1 DEF PullsFromIterate, InIterateUnit
<1> QED BY <1>2, <1>3 DEF VisitedInv

LEMMA ResumeVisited ==
  ASSUME ~MayTear, VisitedInv, StateInv', Resume
  PROVE  VisitedInv'
<1>1. /\ Recon \in View /\ Recon.last # NoRow /\ Recon.last.stage \in Stage
      /\ Recon.st.allocated + 1 \in Nat \ {0} /\ Recon.gen.units \in Seq(Tag)
  BY ReconType, LastRowType DEF VisitedInv, StateInv, TypeOK, TrailType, Resume
<1>2. CASE RefuseDrift(Recon)
  BY <1>1, <1>2, HaltVisited DEF RefuseDrift
<1>3. CASE UNCHANGED trailVars /\ Settle("thrown")
  BY <1>3, SettledVisited DEF Settle, VisitedInv, LastIsVisited, Recon, trailVars
<1>4. CASE ResumeFanout(Recon)
  <2> DEFINE units == FanoutFn(Recon.last.stage, Recon.st.primary, epoch)
             done == Len(Recon.gen.units)
             stage == [Single EXCEPT !.todo = units, !.done = done, !.caught = FALSE]
  <2>1. CASE Reenter(Recon, "route", stage)
    BY <1>1, <2>1, ReenterVisited
  <2>2. CASE /\ units \in Seq(Tag) /\ done < Len(units)
             /\ Reenter(Recon, "session", [stage EXCEPT !.tag = units[done + 1]])
    <3>1. units # <<>>
      BY <1>1, <2>2
    <3> DEFINE next == [stage EXCEPT !.tag = units[done + 1]]
    <3>2. next.todo = units /\ Reenter(Recon, "session", next)
      BY <2>2 DEF Single
    <3> HIDE DEF next
    <3> QED BY <1>1, <3>1, <3>2, ReenterVisited
  <2> QED BY <1>2, <1>4, <2>1, <2>2 DEF ResumeFanout
<1>5. CASE ResumeIterate(Recon) /\ Def[Recon.last.stage].shape = "iterate"
  BY <1>1, <1>2, <1>5, ReenterVisited DEF ResumeIterate
<1>6. CASE ResumeSingle(Recon)
  BY <1>1, <1>6, ReenterVisited DEF ResumeSingle
<1> QED BY <1>3, <1>4, <1>5, <1>6 DEF Resume, ResumeUnitStage

LEMMA StepVisited ==
  ASSUME ~MayTear, IteratesStart, VisitedInv, [Next]_vars
  PROVE  VisitedInv'
<1>1. StateInv'
  BY StepState DEF VisitedInv
<1>2. TrailType /\ RunType /\ ~open /\ LastIsVisited
  BY DEF VisitedInv, StateInv, TypeOK, TrailType, RunType
<1>3. CASE Launch
  <2>1. UNCHANGED lines \/ lines' = Append(lines, Header)
    BY <1>2, <1>3, WholeLines DEF Launch
  <2>2. Recon' = Recon
    BY <1>2, <2>1, ReconNext DEF FoldLine, Line, Header, IsStageRow
  <2> QED BY <1>1, <1>3, <2>2, StageChangeVisited DEF Launch
<1>4. CASE RouteDecision
  <2>1. PICK next \in Edge[at].targets \ {Stop} :
          BestEffort(RoutingRow(at, next)) /\ LeaveFor(next)
    BY <1>4 DEF RouteDecision
  <2>2. RoutingRow(at, next) \in Line /\ ~IsStageRow(RoutingRow(at, next))
    BY <1>2, TargetType DEF RoutingRow, RoutingRows, Line, RunType, IsStageRow
  <2>3. UNCHANGED lines \/ lines' = Append(lines, RoutingRow(at, next))
    BY <1>2, <2>1, WholeLines
  <2>4. Recon' = Recon
    BY <1>2, <2>2, <2>3, ReconNext DEF FoldLine
  <2> QED BY <1>1, <1>4, <2>1, <2>4, StageChangeVisited DEF RouteDecision, LeaveFor
<1>5. CASE SessionCompletes
  BY <1>1, <1>5, SessionVisited
<1>6. CASE SessionAuditFails
  <2>1. PICK out \in OutputsOf(at, unit.tag) :
          AppendFails(StageRow(NextNumber, at, unit.tag, "completed", out))
    BY <1>6 DEF SessionAuditFails
  <2>2. StageRow(NextNumber, at, unit.tag, "completed", out) \in Line
    BY <1>2, CompletedRowType DEF Line
  <2>3. LastIsVisited'
    BY <1>2, <2>1, <2>2, WholeLines, LastAfter
  <2> QED BY <1>1, <1>6, <2>3, SettledVisited DEF SessionAuditFails, Settle
<1>7. CASE \E u \in Tag \cup {NoUnit} : Halt(NextNumber, at, u)
  BY <1>1, <1>2, <1>7, NextNumberType, HaltVisited DEF RunType
<1>8. CASE HaltAtSeam \/ SessionHalts \/ SessionThrows \/ RouteError
  <2>1. unit.tag \in Tag \cup {NoUnit} /\ NoUnit \in Tag \cup {NoUnit}
    BY <1>2, UnitTagType
  <2>2. CASE UNCHANGED trailVars /\ Settle("thrown")
    BY <1>1, <1>2, <2>2, SettledVisited DEF Settle, LastIsVisited, Recon, trailVars
  <2> QED BY <1>7, <1>8, <2>1, <2>2 DEF HaltAtSeam, SessionHalts, SessionThrows, RouteError
<1>9. CASE PullUnit
  BY <1>1, <1>9, PullVisited
<1>10. CASE EnterSingle \/ EnterFanout \/ EnterIterate
  BY <1>1, <1>10, EnterVisited
<1>11. CASE RouteNext \/ EscapeLoop
  BY <1>1, <1>11, StageChangeVisited DEF RouteNext, EscapeLoop, LeaveFor, Recon, trailVars
<1>12. CASE JumpBack
  <2>1. CASE Halt(NextNumber, at, NoUnit)
    BY <1>7, <2>1
  <2> QED BY <1>1, <1>12, <2>1, StageChangeVisited DEF JumpBack, Recon, trailVars
<1>13. CASE RouteStop \/ Crash
  <2>1. CASE UNCHANGED lines
    BY <1>1, <1>2, <1>13, <2>1, SettledVisited DEF RouteStop, Crash, Settle,
       LastIsVisited, Recon
  <2> QED BY <1>13, <2>1 DEF RouteStop, Crash, trailVars
<1>14. CASE Resume
  BY <1>1, <1>14, ResumeVisited
<1>15. CASE Drift \/ UNCHANGED vars
  <2>1. UNCHANGED <<lines, pc, at, unit, visited>>
    BY <1>15 DEF Drift, vars, trailVars, runVars
  <2> QED BY <1>1, <2>1 DEF VisitedInv, HasRow, PullsFromIterate, LastIsVisited,
             VisitedAgrees, InIterateUnit, Recon
<1> QED BY <1>3, <1>4, <1>5, <1>6, <1>8, <1>9, <1>10, <1>11, <1>12, <1>13, <1>14, <1>15
        DEF Next, Work

LEMMA InitVisited ==
  ASSUME Init
  PROVE  VisitedInv
<1>1. Recon = EmptyView
  BY ReconstructEmpty DEF Init, Recon
<1>2. StateInv
  BY <1>1, InitType DEF StateInv, StateAgrees, EmptyView, Init
<1> QED BY <1>1, <1>2 DEF VisitedInv, HasRow, PullsFromIterate, LastIsVisited,
           VisitedAgrees, EmptyView, Init

(* The backward-jump guard asks a resumed run the question it would have   *)
(* asked the run that died: the two hold the same stages for visited, the  *)
(* one being entered apart.                                                *)
THEOREM VisitedAlwaysRebuilt ==
  ASSUME ~MayTear, IteratesStart
  PROVE  Spec => []VisitedParity
<1>1. Init => VisitedInv
  BY InitVisited
<1>2. VisitedInv /\ [Next]_vars => VisitedInv'
  BY StepVisited
<1>3. VisitedInv => VisitedParity
  BY DEF VisitedInv, VisitedAgrees, VisitedParity, Running
<1> QED BY <1>1, <1>2, <1>3, PTL DEF Spec

-----------------------------------------------------------------------------
(* The story of a file: its stage rows, and the fold does not tell them    *)
(* from the file.                                                          *)

TellsTheSame(ls, rows) ==
  rows \in Seq(StageRows) /\ ReconstructState(rows) = ReconstructState(ls)

Reading == INSTANCE SequenceFold WITH Base <- <<>>, Step <- AddRow, Holds <- TellsTheSame

LEMMA StoryIsFold ==
  ASSUME NEW ls
  PROVE  StoryOf(ls) = Reading!Folded(ls)
BY DEF StoryOf, Reading!Folded

LEMMA StoryAppend ==
  ASSUME NEW ls \in Seq(Line), NEW line \in Line
  PROVE  StoryOf(Append(ls, line)) = AddRow(StoryOf(ls), line)
BY StoryIsFold, Reading!FoldedAppend

LEMMA StoryTellsTheSame ==
  ASSUME NEW ls \in Seq(Line)
  PROVE  TellsTheSame(ls, StoryOf(ls))
<1>1. TellsTheSame(<<>>, <<>>)
  BY DEF TellsTheSame
<1>2. ASSUME NEW rs \in Seq(Line), NEW line \in Line, NEW rows, TellsTheSame(rs, rows)
      PROVE  TellsTheSame(Append(rs, line), AddRow(rows, line))
  <2>1. CASE IsStageRow(line)
    <3>1. line \in StageRows /\ Append(rows, line) \in Seq(StageRows)
      BY <1>2, <2>1, StageRowsType DEF TellsTheSame
    <3>2. ReconstructState(Append(rows, line)) = FoldLine(ReconstructState(rows), line)
      BY <1>2, <3>1, ReconstructAppend DEF TellsTheSame
    <3> QED BY <1>2, <2>1, <3>1, <3>2, ReconstructAppend DEF TellsTheSame, AddRow
  <2>2. CASE ~IsStageRow(line)
    BY <1>2, <2>2, ReconstructAppend DEF TellsTheSame, AddRow, FoldLine
  <2> QED BY <2>1, <2>2
<1>3. \A rs \in Seq(Line) : TellsTheSame(rs, Reading!Folded(rs))
  BY <1>1, <1>2, Reading!FoldedInduction
<1> QED BY <1>3, StoryIsFold

(* The reader of the story folds as the resume does.                       *)
StoryFold(v, line) == S!FoldLine(v, line)

FoldsAlike(ls, v) == v = ReconstructState(ls)

Retold == INSTANCE SequenceFold WITH Base <- S!EmptyView, Step <- StoryFold, Holds <- FoldsAlike

LEMMA SameLine ==
  ASSUME NEW v, NEW line
  PROVE  S!FoldLine(v, line) = FoldLine(v, line)
<1>1. S!Counted(v, line) = Counted(v, line)
  BY DEF S!Counted, Counted, S!CountedState, CountedState, S!Larger, Larger
<1>2. \A s, def, num, out :
        S!ApplyCompletedStage(s, def, num, out) = ApplyCompletedStage(s, def, num, out)
  BY DEF S!ApplyCompletedStage, ApplyCompletedStage
<1>3. \A s : S!Produced(s, line) = Produced(s, line)
  BY <1>2 DEF S!Produced, Produced
<1>4. S!GenerationOf(v, line) = GenerationOf(v, line) /\ S!NoGeneration = NoGeneration
  BY DEF S!GenerationOf, GenerationOf, S!NoGeneration, NoGeneration
<1>5. S!FoldKnownStage(v, line) = FoldKnownStage(v, line)
  BY <1>1, <1>3, <1>4 DEF S!FoldKnownStage, FoldKnownStage
<1>6. S!FoldFanoutUnit(v, line) = FoldFanoutUnit(v, line)
  BY <1>1, <1>4 DEF S!FoldFanoutUnit, FoldFanoutUnit
<1>7. S!FoldIterateUnit(v, line) = FoldIterateUnit(v, line)
  BY <1>1, <1>3, <1>4 DEF S!FoldIterateUnit, FoldIterateUnit
<1> QED BY <1>5, <1>6, <1>7 DEF S!FoldLine, FoldLine, S!IsStageRow, IsStageRow,
           S!IsDecorated, IsDecorated

LEMMA SameFold ==
  ASSUME NEW ls \in Seq(Line)
  PROVE  S!ReconstructState(ls) = ReconstructState(ls)
<1>1. S!EmptyView = ReconstructState(<<>>)
  BY ReconstructEmpty DEF S!EmptyView, EmptyView, S!FreshState, FreshState,
     S!NoGeneration, NoGeneration, S!NoRow, NoRow
<1>2. \A rs \in Seq(Line), line \in Line :
        FoldsAlike(rs, Retold!Folded(rs)) =>
          FoldsAlike(Append(rs, line), StoryFold(Retold!Folded(rs), line))
  BY SameLine, ReconstructAppend DEF FoldsAlike, StoryFold
<1>3. FoldsAlike(ls, Retold!Folded(ls))
  BY <1>1, <1>2, Retold!FoldedInduction DEF FoldsAlike
<1>4. S!ReconstructState(ls) = Retold!Folded(ls)
  BY DEF S!ReconstructState, Retold!Folded, StoryFold
<1> QED BY <1>3, <1>4 DEF FoldsAlike

-----------------------------------------------------------------------------
(* What a row does to the open generation, in every arm of the fold. *)

LEMMA FoldGeneration ==
  ASSUME NEW v \in View, NEW row \in StageRows
  PROVE  LET w == FoldLine(v, row)
             g == GenerationOf(v, row)
         IN  /\ ~IsDecorated(row) => w.gen = NoGeneration
             /\ IsDecorated(row) => w.gen.parent = row.stage /\ w.gen.entry = g.entry
             /\ IsDecorated(row) /\ row.status # "completed" =>
                  w.gen.units = g.units /\ w.gen.acc = g.acc
             /\ IsDecorated(row) /\ row.status = "completed" =>
                  /\ Def[row.stage].shape = "fanout" => w.gen.units = Append(g.units, row.unit)
                  /\ Def[row.stage].shape # "fanout" /\ row.out # "none" =>
                       w.gen.acc = Append(g.acc, row.num)
<1> DEFINE c == Counted(v, row)
           g == GenerationOf(v, row)
           w == FoldLine(v, row)
<1>1. c \in View /\ g \in Generation /\ g.parent = row.stage /\ IsStageRow(row)
  <2>1. g.parent = row.stage
    BY DEF GenerationOf
  <2> QED BY <2>1, CountedType, GenerationOfType DEF IsStageRow, StageRows
<1>2. CASE ~IsDecorated(row)
  <2>1. w = FoldKnownStage(v, row)
    BY <1>1, <1>2 DEF FoldLine
  <2>2. FoldKnownStage(v, row).gen = NoGeneration
    <3> HIDE DEF c
    <3>1. [c EXCEPT !.gen = NoGeneration].gen = NoGeneration
      BY <1>1 DEF View
    <3> QED BY <1>1, <3>1 DEF FoldKnownStage, View, c
  <2> QED BY <1>2, <2>1, <2>2
<1>3. CASE IsDecorated(row) /\ Def[row.stage].shape = "fanout"
  <2>1. w = FoldFanoutUnit(v, row)
    BY <1>1, <1>3 DEF FoldLine
  <2>2. w.gen = IF row.status = "completed"
                THEN [g EXCEPT !.units = Append(@, row.unit)] ELSE g
    <3> HIDE DEF c, g, w
    <3>1. \A h : [c EXCEPT !.gen = h].gen = h
      BY <1>1 DEF View
    <3>2. w = [c EXCEPT !.gen = IF row.status = "completed"
                                THEN [g EXCEPT !.units = Append(@, row.unit)] ELSE g]
      BY <2>1 DEF FoldFanoutUnit, c, g
    <3> QED BY <3>1, <3>2
  <2> HIDE DEF c, g, w
  <2> QED BY <1>1, <1>3, <2>2 DEF Generation, c, g, w
<1>4. CASE IsDecorated(row) /\ Def[row.stage].shape # "fanout"
  <2> DEFINE d == [c EXCEPT !.gen = g]
             e == [d EXCEPT !.st = Produced(@, row), !.gen.acc = Append(@, row.num)]
  <2>1. w = IF row.status = "completed" /\ row.out # "none" THEN e ELSE d
    BY <1>1, <1>4 DEF FoldLine, FoldIterateUnit
  <2>2. d.gen = g /\ e.gen = [g EXCEPT !.acc = Append(@, row.num)]
    <3> HIDE DEF c, g
    <3> QED BY <1>1 DEF View
  <2> HIDE DEF c, d, e, g, w
  <2>3. g.acc \in Seq(Nat) /\ row.num \in Nat
    BY <1>1 DEF Generation, StageRows
  <2>4. row.status = "completed" /\ row.out # "none" =>
          w.gen.acc = Append(g.acc, row.num) /\ w.gen.parent = g.parent /\ w.gen.entry = g.entry
    BY <1>1, <2>1, <2>2, <2>3 DEF Generation
  <2>5. ~(row.status = "completed" /\ row.out # "none") => w.gen = g
    BY <2>1, <2>2
  <2>6. w.gen.parent = row.stage /\ w.gen.entry = g.entry
    BY <1>1, <2>4, <2>5
  <2> QED BY <1>4, <2>4, <2>5, <2>6 DEF g, w
<1> QED BY <1>2, <1>3, <1>4

-----------------------------------------------------------------------------
(* The inductive invariant: where the live run stands is where its trail   *)
(* stands.                                                                 *)

(* A stage of units does not follow itself: the fold takes two activations *)
(* in a row for one.                                                       *)
NoUnitLoop == \A s \in UnitStage : s \notin Edge[s].targets

(* A generation is open exactly when the trail ends in a unit.             *)
LastHasGeneration ==
  LET v == Recon
  IN  IF v.last # NoRow /\ IsDecorated(v.last)
      THEN v.gen.parent = v.last.stage /\ v.last.stage \in UnitStage
      ELSE v.gen = NoGeneration

(* A trail that reads v may go on with a new activation of stage s.        *)
Entered(v, s) ==
  IF v.last = NoRow THEN s = Start
  ELSE IF ~IsDecorated(v.last) /\ v.last.status # "completed" THEN s = v.last.stage
  ELSE /\ s \in Edge[v.last.stage].targets \ {Stop}
       /\ IsDecorated(v.last) => S!Exhausted(v)

(* The open generation is that of the stage at work.                       *)
Continues == Recon.gen.parent = at

(* The unit in session is the generator's, for some world it has read.     *)
FanoutShaped ==
  pc = "session" /\ unit.todo # <<>> =>
    /\ Def[at].shape = "fanout" /\ unit.done < Len(unit.todo)
    /\ unit.tag = unit.todo[unit.done + 1]
    /\ \E e \in Epoch : unit.todo = FanoutFn(at, st.primary, e)

IterateShaped ==
  /\ pc = "pull" => Def[at].shape = "iterate" /\ unit.todo = <<>>
  /\ pc = "session" /\ InIterateUnit =>
       /\ Def[at].shape = "iterate"
       /\ \E e \in Epoch : unit.tag = IterateFn(at, unit.entry, unit.acc, e)

SingleShaped ==
  pc = "session" /\ unit.todo = <<>> /\ unit.tag = NoUnit =>
    /\ ~Continues
    /\ \/ Def[at].shape \in {"session", "script"}
       \/ /\ Def[at].shape = "fanout"
          /\ \E e \in Epoch : FanoutFn(at, st.primary, e) = <<>>

(* The stage being entered, or whose first unit is due, may come next; the *)
(* activation of a resumed unit has units in the trail.                    *)
WellEntered ==
  /\ pc \in {"fresh", "enter", "guard"} => ~Continues
  /\ pc \in {"fresh", "enter", "guard", "session", "pull"} /\ ~Continues =>
       Entered(Recon, at)
  /\ pc \in {"session", "pull"} /\ ~unit.caught => Continues

(* The stage being left is the last of the trail, and is complete; of a    *)
(* fanout the trail has every unit.                                        *)
WellLeft ==
  pc = "route" =>
    /\ unit.todo # <<>> =>
         Def[at].shape = "fanout" /\ Continues /\ Recon.gen.units = unit.todo
    /\ Recon.last # NoRow /\ Recon.last.stage = at
    /\ IF IsDecorated(Recon.last) THEN S!Exhausted(Recon)
       ELSE Recon.last.status = "completed"

Stands ==
  FanoutShaped /\ IterateShaped /\ SingleShaped /\ WellEntered /\ WellLeft /\ UnitParity

StoryInv == StateInv /\ LastHasGeneration /\ Stands

-----------------------------------------------------------------------------
(* The trail after a step *)

LEMMA GenerationKept ==
  ASSUME TrailType, LastHasGeneration, NEW line \in Line,
         IsStageRow(line) /\ IsDecorated(line) => line.stage \in UnitStage,
         UNCHANGED lines \/ lines' = Append(lines, line)
  PROVE  LastHasGeneration'
<1>1. Recon \in View /\ (Recon' = Recon \/ Recon' = FoldLine(Recon, line))
  BY ReconType, ReconNext
<1>2. CASE Recon' = Recon
  BY <1>2 DEF LastHasGeneration
<1>3. CASE ~IsStageRow(line)
  BY <1>1, <1>2, <1>3 DEF FoldLine
<1>4. CASE IsStageRow(line) /\ Recon' = FoldLine(Recon, line)
  <2>1. line \in StageRows
    BY <1>4, StageRowsType
  <2>2. /\ Recon'.last = line /\ line # NoRow
        /\ ~IsDecorated(line) => Recon'.gen = NoGeneration
        /\ IsDecorated(line) => Recon'.gen.parent = line.stage
    BY <1>1, <1>4, <2>1, FoldLineEffect, FoldGeneration DEF StageRows, NoRow
  <2> QED BY <1>4, <2>2 DEF LastHasGeneration
<1> QED BY <1>1, <1>2, <1>3, <1>4

LEMMA SettledStory ==
  ASSUME StateInv', LastHasGeneration', pc' \in {"down", "ended"}
  PROVE  StoryInv'
BY DEF StoryInv, Stands, FanoutShaped, IterateShaped, SingleShaped, WellEntered, WellLeft,
   UnitParity

LEMMA SameTrail ==
  ASSUME UNCHANGED lines, LastHasGeneration
  PROVE  Recon' = Recon /\ LastHasGeneration'
BY DEF Recon, LastHasGeneration

LEMMA StoryTypes ==
  ASSUME StoryInv
  PROVE  /\ TrailType /\ RunType /\ Recon \in View /\ epoch \in Epoch /\ ~open
         /\ at \in Stage /\ unit \in Activation
         /\ pc \notin {"down", "ended"} => Recon.st = st
<1>1. TrailType /\ RunType
  BY DEF StoryInv, StateInv, TypeOK, TrailType, RunType
<1> QED BY <1>1, ReconType DEF StoryInv, StateInv, StateAgrees, TypeOK, RunType

(* The stage of the open generation is the last of the trail.              *)
LEMMA ContinuesLast ==
  ASSUME StoryInv, Continues
  PROVE  Recon.last # NoRow /\ IsDecorated(Recon.last) /\ Recon.last.stage = at
         /\ at \in UnitStage
BY StoryTypes, StageAssumption DEF StoryInv, LastHasGeneration, Continues, NoGeneration

-----------------------------------------------------------------------------
(* The actions *)

LEMMA HaltStory ==
  ASSUME ~MayTear, StoryInv, StateInv', NEW n \in Nat \ {0}, NEW s \in Stage,
         NEW u \in Tag \cup {NoUnit}, Halt(n, s, u), u # NoUnit => s \in UnitStage
  PROVE  StoryInv'
<1> DEFINE row == StageRow(n, s, u, "failed", "none")
<1>1. row \in Line /\ row.stage = s /\ row.unit = u
  BY StageRowType DEF Status, OutputShape, Line, StageRow
<1>2. UNCHANGED lines \/ lines' = Append(lines, row)
  BY StoryTypes, WholeLines DEF Halt
<1> HIDE DEF row
<1>3. LastHasGeneration'
  BY <1>1, <1>2, StoryTypes, GenerationKept DEF StoryInv, IsDecorated
<1> QED BY <1>3, SettledStory DEF Halt, Settle

LEMMA EnterStory ==
  ASSUME StoryInv, StateInv', EnterSingle \/ EnterFanout \/ EnterIterate
  PROVE  StoryInv'
<1>1. /\ pc = "enter" /\ UNCHANGED <<lines, at, st>> /\ pc' \in {"session", "pull"}
      /\ epoch \in Epoch /\ Recon' = Recon /\ LastHasGeneration'
  BY StoryTypes, SameTrail DEF EnterSingle, EnterFanout, EnterIterate, trailVars, StoryInv
<1>2. ~Continues /\ ~Continues' /\ Entered(Recon, at)
  BY <1>1 DEF StoryInv, Stands, WellEntered, Continues
<1>3. WellLeft'
  BY <1>1 DEF WellLeft
<1>4. CASE EnterSingle
  <2>1. unit' = Single /\ pc' = "session"
    BY <1>4 DEF EnterSingle
  <2>2. unit'.todo = <<>> /\ unit'.tag = NoUnit /\ unit'.caught
    BY <2>1 DEF Single
  <2>3. WellEntered'
    BY <1>1, <1>2, <2>1, <2>2 DEF WellEntered
  <2>4. FanoutShaped' /\ IterateShaped' /\ SingleShaped'
    BY <1>1, <1>2, <1>4, <2>1, <2>2 DEF FanoutShaped, IterateShaped, SingleShaped, InIterateUnit,
       EnterSingle
  <2>5. UnitParity'
    BY <1>1, <1>4, <2>1, <2>2 DEF UnitParity, EnterSingle
  <2> QED BY <1>1, <1>3, <2>3, <2>4, <2>5 DEF StoryInv, Stands
<1>5. CASE EnterFanout
  <2> DEFINE units == FanoutFn(at, st.primary, epoch)
  <2>1. /\ units \in Seq(Tag) /\ units # <<>> /\ Def[at].shape = "fanout"
        /\ unit' = [Single EXCEPT !.todo = units, !.tag = units[1]] /\ pc' = "session"
    BY <1>5 DEF EnterFanout
  <2>2. \E e \in Epoch : units = FanoutFn(at, st.primary, e)
    BY <1>1
  <2> HIDE DEF units
  <2>3. unit'.todo = units /\ unit'.tag = units[1] /\ unit'.done = 0 /\ unit'.caught
    BY <2>1 DEF Single
  <2>4. Len(units) \in Nat /\ Len(units) > 0
    BY <2>1
  <2>5. WellEntered'
    BY <1>1, <1>2, <2>1, <2>3 DEF WellEntered
  <2>6. FanoutShaped'
    BY <1>1, <2>1, <2>2, <2>3, <2>4 DEF FanoutShaped
  <2>7. IterateShaped' /\ SingleShaped'
    BY <1>1, <2>1, <2>3 DEF IterateShaped, SingleShaped, InIterateUnit
  <2>8. UnitParity'
    BY <1>1, <1>2, <2>1, <2>3 DEF UnitParity, Continues
  <2> QED BY <1>1, <1>3, <2>5, <2>6, <2>7, <2>8 DEF StoryInv, Stands
<1>6. CASE EnterIterate
  <2>1. unit' = [Single EXCEPT !.entry = st.primary] /\ pc' = "pull" /\ Def[at].shape = "iterate"
    BY <1>6 DEF EnterIterate
  <2>2. unit'.todo = <<>> /\ unit'.acc = <<>> /\ unit'.entry = st.primary /\ unit'.caught
    BY <2>1 DEF Single
  <2>3. WellEntered'
    BY <1>1, <1>2, <2>1, <2>2 DEF WellEntered
  <2>4. FanoutShaped' /\ IterateShaped' /\ SingleShaped'
    BY <1>1, <2>1, <2>2 DEF FanoutShaped, IterateShaped, SingleShaped
  <2>5. UnitParity'
    BY <1>1, <1>2, <2>1, <2>2 DEF UnitParity, Continues
  <2> QED BY <1>1, <1>3, <2>3, <2>4, <2>5 DEF StoryInv, Stands
<1> QED BY <1>4, <1>5, <1>6

LEMMA PullStory ==
  ASSUME ~MayTear, IteratesStart, StoryInv, StateInv', PullUnit
  PROVE  StoryInv'
<1> DEFINE next == IterateFn(at, unit.entry, unit.acc, epoch)
<1>1. /\ TrailType /\ RunType /\ Recon \in View /\ epoch \in Epoch /\ at \in Stage
      /\ unit \in Activation /\ unit.entry \in Nat /\ pc = "pull"
      /\ Def[at].shape = "iterate" /\ unit.todo = <<>> /\ LastHasGeneration
  BY StoryTypes DEF StoryInv, Stands, IterateShaped, PullUnit, Activation
<1>2. IF Continues THEN Recon.gen.acc = unit.acc /\ Recon.gen.entry = unit.entry
      ELSE unit.acc = <<>> /\ unit.entry = st.primary
  BY <1>1 DEF StoryInv, Stands, UnitParity, Continues
<1>3. CASE /\ next = NoUnit /\ pc' = "route"
           /\ UNCHANGED <<trailVars, at, st, visited, jumps, unit, outcome>>
  <2>1. unit.acc # <<>>
    BY <1>1, <1>3 DEF IteratesStart
  <2>2. Continues /\ IterateFn(at, Recon.gen.entry, Recon.gen.acc, epoch) = NoUnit
    BY <1>2, <1>3, <2>1
  <2>3. S!Exhausted(Recon)
    BY <1>1, <2>2 DEF S!Exhausted, Continues
  <2>4. Recon' = Recon /\ LastHasGeneration' /\ at' = at
    BY <1>1, <1>3, SameTrail DEF trailVars
  <2>5. WellLeft'
    BY <1>1, <1>3, <2>2, <2>3, <2>4, ContinuesLast DEF WellLeft
  <2> QED BY <1>3, <2>4, <2>5 DEF StoryInv, Stands, FanoutShaped, IterateShaped, SingleShaped,
             WellEntered, UnitParity
<1>4. CASE /\ next \in Tag /\ pc' = "session" /\ unit' = [unit EXCEPT !.tag = next]
           /\ UNCHANGED <<trailVars, at, st, visited, jumps, outcome>>
  <2>1. Recon' = Recon /\ LastHasGeneration' /\ at' = at /\ st' = st
    BY <1>1, <1>4, SameTrail DEF trailVars
  <2>2. /\ unit'.tag = next /\ next # NoUnit /\ unit'.todo = <<>> /\ unit'.acc = unit.acc
        /\ unit'.entry = unit.entry /\ unit'.caught = unit.caught
    BY <1>1, <1>4, StageAssumption DEF Activation
  <2>3. WellEntered' /\ WellLeft'
    BY <1>1, <1>4, <2>1, <2>2 DEF StoryInv, Stands, WellEntered, WellLeft, Continues
  <2>4. IterateShaped'
    BY <1>1, <1>4, <2>1, <2>2 DEF IterateShaped, InIterateUnit
  <2>5. FanoutShaped' /\ SingleShaped'
    BY <1>4, <2>2 DEF FanoutShaped, SingleShaped
  <2>6. UnitParity'
    BY <1>1, <1>2, <2>1, <2>2 DEF UnitParity, Continues
  <2> QED BY <2>1, <2>3, <2>4, <2>5, <2>6 DEF StoryInv, Stands
<1>5. CASE Halt(NextNumber, at, NoUnit)
  BY <1>1, <1>5, NextNumberType, HaltStory
<1> QED BY <1>3, <1>4, <1>5 DEF PullUnit

(* The row of a session that completes.                                    *)
LEMMA SessionRow ==
  ASSUME StoryInv, pc = "session", NEW status \in Status, NEW out \in OutputShape,
         NEW row, row = StageRow(NextNumber, at, unit.tag, status, out)
  PROVE  /\ row \in StageRows /\ row \in Line /\ IsStageRow(row)
         /\ row.num = NextNumber /\ row.stage = at /\ row.unit = unit.tag
         /\ row.status = status /\ row.out = out
         /\ IsDecorated(row) <=> unit.tag # NoUnit
         /\ unit.tag # NoUnit => at \in UnitStage
<1>1. unit.tag \in Tag \cup {NoUnit} /\ at \in Stage /\ NextNumber \in Nat \ {0}
  BY StoryTypes, UnitTagType, NextNumberType
<1>2. unit.tag # NoUnit => at \in UnitStage
  BY <1>1 DEF StoryInv, Stands, FanoutShaped, IterateShaped, InIterateUnit, UnitStage
<1> QED BY <1>1, <1>2 DEF StageRow, StageRows, Line, IsStageRow, IsDecorated

LEMMA OneMore ==
  ASSUME NEW X, NEW s \in Seq(X), NEW n \in Nat, n < Len(s)
  PROVE  /\ Append(SubSeq(s, 1, n), s[n + 1]) = SubSeq(s, 1, n + 1)
         /\ SubSeq(s, 1, Len(s)) = s
OBVIOUS

LEMMA SessionStory ==
  ASSUME ~MayTear, StoryInv, StateInv', SessionCompletes
  PROVE  StoryInv'
<1>1. /\ TrailType /\ RunType /\ Recon \in View /\ ~open /\ at \in Stage /\ unit \in Activation
      /\ Recon.st = st /\ LastHasGeneration /\ pc = "session" /\ at' = at
  BY StoryTypes DEF StoryInv, SessionCompletes
<1>2. PICK out \in OutputsOf(at, unit.tag) :
        /\ Landed(StageRow(NextNumber, at, unit.tag, "completed", out))
        /\ st' = Committed(NextNumber, out)
        /\ AdvanceUnit(NextNumber)
  BY DEF SessionCompletes
<1> DEFINE row == StageRow(NextNumber, at, unit.tag, "completed", out)
           g == GenerationOf(Recon, row)
<1>3. /\ row \in StageRows /\ row \in Line /\ IsStageRow(row)
      /\ row.num = NextNumber /\ row.stage = at /\ row.unit = unit.tag
      /\ row.status = "completed" /\ row.out = out
      /\ IsDecorated(row) <=> unit.tag # NoUnit
      /\ unit.tag # NoUnit => at \in UnitStage
  BY <1>1, <1>2, OutputsOfType, SessionRow DEF Status
<1>4. lines' = Append(lines, row)
  BY <1>1, <1>2 DEF Landed
<1> HIDE DEF row
<1>5. Recon' = FoldLine(Recon, row) /\ Recon'.last = row /\ row # NoRow
  BY <1>1, <1>3, <1>4, ReconNext, FoldLineEffect DEF StageRows, NoRow
<1>6. LastHasGeneration'
  BY <1>1, <1>3, <1>4, GenerationKept
<1>7. Recon'.st = st'
  BY <1>2, <1>5, <1>1, CommitIsFold DEF row
<1>8. CASE InFanoutUnit
  <2>1. /\ unit.todo # <<>> /\ unit.todo \in Seq(Tag) /\ unit.done \in Nat
        /\ Def[at].shape = "fanout" /\ unit.done < Len(unit.todo)
        /\ unit.tag = unit.todo[unit.done + 1] /\ unit.tag # NoUnit
        /\ \E e \in Epoch : unit.todo = FanoutFn(at, st.primary, e)
    BY <1>1, <1>8, StageAssumption DEF InFanoutUnit, StoryInv, Stands, FanoutShaped, Activation
  <2>2. g.units = SubSeq(unit.todo, 1, unit.done)
    <3>1. Continues => g.units = SubSeq(unit.todo, 1, unit.done)
      BY <1>1, <1>3, <2>1 DEF StoryInv, Stands, UnitParity, Continues, GenerationOf
    <3>2. ~Continues => g.units = <<>> /\ unit.done = 0
      BY <1>1, <1>3, <2>1 DEF StoryInv, Stands, UnitParity, Continues, GenerationOf
    <3>3. SubSeq(unit.todo, 1, 0) = <<>>
      BY <2>1
    <3> QED BY <3>1, <3>2, <3>3
  <2>3. Recon'.gen.parent = at /\ Recon'.gen.units = SubSeq(unit.todo, 1, unit.done + 1)
    <3>1. /\ Recon'.gen.parent = at /\ Recon'.gen.units = Append(g.units, row.unit)
      BY <1>1, <1>3, <1>5, <2>1, FoldGeneration
    <3>2. Append(SubSeq(unit.todo, 1, unit.done), unit.todo[unit.done + 1])
            = SubSeq(unit.todo, 1, unit.done + 1)
      BY <2>1, OneMore
    <3> QED BY <1>3, <2>1, <2>2, <3>1, <3>2
  <2>4. st'.primary = st.primary
    BY <1>1, <1>2, <2>1 DEF OutputsOf, Committed, RunType, RunState
  <2>5. CASE unit.done + 1 < Len(unit.todo)
    <3>1. /\ pc' = "session"
          /\ unit' = [unit EXCEPT !.done = @ + 1, !.tag = unit.todo[unit.done + 2]]
      BY <1>2, <1>8, <2>5 DEF AdvanceUnit
    <3>2. unit'.todo = unit.todo /\ unit'.done = unit.done + 1
          /\ unit'.tag = unit.todo[(unit.done + 1) + 1]
      BY <1>1, <2>1, <3>1 DEF Activation
    <3>3. FanoutShaped' /\ IterateShaped' /\ SingleShaped'
      BY <1>1, <2>1, <2>4, <2>5, <3>1, <3>2 DEF FanoutShaped, IterateShaped, SingleShaped,
         InIterateUnit
    <3>4. WellEntered' /\ WellLeft'
      BY <1>1, <2>3, <3>1 DEF WellEntered, WellLeft, Continues
    <3>5. UnitParity'
      BY <1>1, <2>1, <2>3, <3>1, <3>2 DEF UnitParity
    <3> QED BY <1>6, <3>3, <3>4, <3>5 DEF StoryInv, Stands
  <2>6. CASE ~(unit.done + 1 < Len(unit.todo))
    <3>1. pc' = "route" /\ unit'.todo = unit.todo
      BY <1>1, <1>2, <1>8, <2>6 DEF AdvanceUnit, Activation
    <3>2. unit.done + 1 = Len(unit.todo)
      BY <2>1, <2>6
    <3>3. Recon'.gen.units = unit.todo
      BY <2>1, <2>3, <3>2, OneMore
    <3>4. S!Exhausted(Recon')
      BY <1>7, <2>1, <2>3, <2>4, <3>3 DEF S!Exhausted
    <3>5. WellLeft'
      BY <1>1, <1>3, <1>5, <2>1, <2>3, <3>1, <3>3, <3>4 DEF WellLeft, Continues
    <3> QED BY <1>6, <3>1, <3>5 DEF StoryInv, Stands, FanoutShaped, IterateShaped,
               SingleShaped, WellEntered, UnitParity
  <2> QED BY <2>5, <2>6
<1>9. CASE ~InFanoutUnit /\ InIterateUnit
  <2>1. /\ unit.todo = <<>> /\ unit.tag # NoUnit /\ Def[at].shape = "iterate"
    BY <1>1, <1>9 DEF InIterateUnit, StoryInv, Stands, IterateShaped
  <2>2. out = "full"
    BY <1>1, <2>1, IterateAssumption DEF OutputsOf
  <2>3. g.acc = unit.acc /\ g.entry = unit.entry
    BY <1>1, <1>3, <2>1 DEF StoryInv, Stands, UnitParity, GenerationOf
  <2>4. /\ Recon'.gen.parent = at /\ Recon'.gen.entry = unit.entry
        /\ Recon'.gen.acc = Append(unit.acc, NextNumber)
    BY <1>1, <1>3, <1>5, <2>1, <2>2, <2>3, FoldGeneration
  <2>5. pc' = "pull" /\ unit' = [unit EXCEPT !.acc = Append(@, NextNumber), !.tag = NoUnit]
    BY <1>2, <1>9 DEF AdvanceUnit
  <2>6. unit'.todo = <<>> /\ unit'.acc = Append(unit.acc, NextNumber) /\ unit'.entry = unit.entry
    BY <1>1, <2>1, <2>5 DEF Activation
  <2>7. FanoutShaped' /\ IterateShaped' /\ SingleShaped'
    BY <1>1, <2>1, <2>5, <2>6 DEF FanoutShaped, IterateShaped, SingleShaped
  <2>8. WellEntered' /\ WellLeft'
    BY <1>1, <2>4, <2>5 DEF WellEntered, WellLeft, Continues
  <2>9. UnitParity'
    BY <1>1, <2>4, <2>5, <2>6 DEF UnitParity
  <2> QED BY <1>6, <2>7, <2>8, <2>9 DEF StoryInv, Stands
<1>10. CASE ~InFanoutUnit /\ ~InIterateUnit
  <2>1. pc' = "route" /\ unit.tag = NoUnit /\ unit'.todo = <<>>
    BY <1>2, <1>10 DEF AdvanceUnit, InFanoutUnit, InIterateUnit
  <2>2. WellLeft'
    BY <1>1, <1>3, <1>5, <2>1 DEF WellLeft
  <2> QED BY <1>6, <2>1, <2>2 DEF StoryInv, Stands, FanoutShaped, IterateShaped,
             SingleShaped, WellEntered, UnitParity
<1> QED BY <1>8, <1>9, <1>10

LEMMA RouteStory ==
  ASSUME NoUnitLoop, StoryInv, StateInv', Recon' = Recon, pc = "route",
         NEW next \in Edge[at].targets \ {Stop}, at' = next, UNCHANGED <<st, unit>>,
         pc' \in {"enter", "guard"}
  PROVE  StoryInv'
<1>1. /\ next \in Stage /\ at \in Stage /\ LastHasGeneration /\ Recon.last # NoRow
      /\ Recon.last.stage = at
      /\ IF IsDecorated(Recon.last) THEN S!Exhausted(Recon) ELSE Recon.last.status = "completed"
  BY StoryTypes, TargetType DEF StoryInv, Stands, WellLeft
<1>2. Recon.gen.parent # next
  BY <1>1, StageAssumption DEF LastHasGeneration, NoUnitLoop, NoGeneration
<1>3. WellEntered'
  BY <1>1, <1>2 DEF WellEntered, Continues, Entered
<1>4. LastHasGeneration'
  BY <1>1 DEF LastHasGeneration
<1> QED BY <1>3, <1>4 DEF StoryInv, Stands, FanoutShaped, IterateShaped, SingleShaped,
           WellLeft, UnitParity

(* The runner moves on to run the same stage.                              *)
LEMMA ProceedStory ==
  ASSUME StoryInv, StateInv', Recon' = Recon, pc \in {"fresh", "guard"}, pc' = "enter",
         UNCHANGED <<at, st, unit>>
  PROVE  StoryInv'
BY DEF StoryInv, Stands, LastHasGeneration, FanoutShaped, IterateShaped, SingleShaped,
   WellEntered, WellLeft, UnitParity, Continues

LEMMA ReenterStory ==
  ASSUME StoryInv, StateInv', Recon.last # NoRow, NEW phase, NEW activation,
         Reenter(Recon, phase, activation)
  PROVE  /\ Recon' = Recon /\ LastHasGeneration' /\ at' = Recon.last.stage
         /\ pc' = phase /\ unit' = activation /\ st' = Recon.st
BY DEF Reenter, trailVars, Recon, StoryInv, LastHasGeneration

LEMMA ResumeFanoutStory ==
  ASSUME ~MayTear, StoryInv, StateInv', Resume, IsDecorated(Recon.last),
         Def[Recon.last.stage].shape = "fanout", ResumeFanout(Recon)
  PROVE  StoryInv'
<1> DEFINE units == FanoutFn(Recon.last.stage, Recon.st.primary, epoch)
           done == Len(Recon.gen.units)
           stage == [Single EXCEPT !.todo = units, !.done = done, !.caught = FALSE]
           next == [stage EXCEPT !.tag = units[done + 1]]
<1>1. /\ Recon \in View /\ Recon.last # NoRow /\ Recon.last.stage \in Stage
      /\ Recon.st.allocated + 1 \in Nat \ {0} /\ Recon.gen.units \in Seq(Tag)
      /\ epoch \in Epoch /\ units \in Seq(Tag)
      /\ Recon.gen.parent = Recon.last.stage
  BY StoryTypes, LastRowType DEF Resume, ResumeFanout, StoryInv, LastHasGeneration
<1>2. CASE RefuseDrift(Recon)
  BY <1>1, <1>2, HaltStory DEF RefuseDrift
<1>3. CASE ~Drifted(Recon.gen.units, units) /\ done = Len(units) /\ Reenter(Recon, "route", stage)
  <2>1. Recon.gen.units = units
    BY <1>1, <1>3, OneMore DEF Drifted
  <2>2. S!Exhausted(Recon)
    BY <1>1, <2>1 DEF S!Exhausted
  <2>3. /\ Recon' = Recon /\ LastHasGeneration' /\ at' = Recon.last.stage /\ pc' = "route"
        /\ unit'.todo = units
    <3>1. stage.todo = units
      BY DEF Single
    <3> HIDE DEF stage
    <3> QED BY <1>1, <1>3, <3>1, ReenterStory
  <2>4. WellLeft'
    BY <1>1, <2>1, <2>2, <2>3 DEF WellLeft, Continues
  <2> QED BY <2>3, <2>4 DEF StoryInv, Stands, FanoutShaped, IterateShaped, SingleShaped,
             WellEntered, UnitParity
<1>4. CASE /\ ~Drifted(Recon.gen.units, units) /\ done < Len(units)
           /\ Reenter(Recon, "session", next)
  <2>1. Recon.gen.units = SubSeq(units, 1, done)
    BY <1>1, <1>4 DEF Drifted
  <2>2. /\ Recon' = Recon /\ LastHasGeneration' /\ at' = Recon.last.stage /\ pc' = "session"
        /\ unit' = next /\ st' = Recon.st
    BY <1>1, <1>4, ReenterStory
  <2>3. next.todo = units /\ next.done = done /\ next.tag = units[done + 1]
    BY DEF Single
  <2>4. done \in Nat /\ units # <<>>
    BY <1>1, <1>4
  <2>5. FanoutShaped'
    BY <1>1, <1>4, <2>2, <2>3, <2>4 DEF FanoutShaped
  <2>6. IterateShaped' /\ SingleShaped' /\ WellLeft'
    BY <2>2, <2>3, <2>4 DEF IterateShaped, SingleShaped, WellLeft, InIterateUnit
  <2>7. WellEntered'
    BY <1>1, <2>2 DEF WellEntered, Continues
  <2>8. UnitParity'
    <3> HIDE DEF next
    <3> QED BY <1>1, <2>1, <2>2, <2>3 DEF UnitParity
  <2> QED BY <2>2, <2>5, <2>6, <2>7, <2>8 DEF StoryInv, Stands
<1> QED BY <1>2, <1>3, <1>4 DEF ResumeFanout

LEMMA ResumeIterateStory ==
  ASSUME ~MayTear, StoryInv, StateInv', Resume, IsDecorated(Recon.last),
         Def[Recon.last.stage].shape = "iterate", ResumeIterate(Recon)
  PROVE  StoryInv'
<1> DEFINE tag == IterateFn(Recon.last.stage, Recon.gen.entry, Recon.gen.acc, epoch)
           stage == [Single EXCEPT !.entry = Recon.gen.entry, !.acc = Recon.gen.acc,
                                   !.caught = FALSE]
<1>1. /\ Recon \in View /\ Recon.last # NoRow /\ Recon.last.stage \in Stage
      /\ Recon.st.allocated + 1 \in Nat \ {0} /\ epoch \in Epoch
      /\ Recon.gen.parent = Recon.last.stage
  BY StoryTypes, LastRowType DEF Resume, StoryInv, LastHasGeneration
<1>2. CASE RefuseDrift(Recon)
  BY <1>1, <1>2, HaltStory DEF RefuseDrift
<1>3. CASE tag = NoUnit /\ Reenter(Recon, "route", stage)
  <2>1. S!Exhausted(Recon)
    BY <1>1, <1>3 DEF S!Exhausted
  <2>2. /\ Recon' = Recon /\ LastHasGeneration' /\ at' = Recon.last.stage /\ pc' = "route"
        /\ unit'.todo = <<>>
    <3>1. stage.todo = <<>>
      BY DEF Single
    <3> HIDE DEF stage
    <3> QED BY <1>1, <1>3, <3>1, ReenterStory
  <2>3. WellLeft'
    BY <1>1, <2>1, <2>2 DEF WellLeft
  <2> QED BY <2>2, <2>3 DEF StoryInv, Stands, FanoutShaped, IterateShaped, SingleShaped,
             WellEntered, UnitParity
<1>4. CASE tag \in Tag /\ Reenter(Recon, "pull", stage)
  <2>1. /\ Recon' = Recon /\ LastHasGeneration' /\ at' = Recon.last.stage /\ pc' = "pull"
        /\ unit' = stage /\ st' = Recon.st
    BY <1>1, <1>4, ReenterStory
  <2>2. stage.todo = <<>> /\ stage.entry = Recon.gen.entry /\ stage.acc = Recon.gen.acc
    BY DEF Single
  <2>3. IterateShaped' /\ FanoutShaped' /\ SingleShaped' /\ WellLeft'
    BY <2>1, <2>2 DEF IterateShaped, FanoutShaped, SingleShaped, WellLeft
  <2>4. WellEntered'
    BY <1>1, <2>1 DEF WellEntered, Continues
  <2>5. UnitParity'
    BY <1>1, <2>1, <2>2 DEF UnitParity
  <2> QED BY <2>1, <2>3, <2>4, <2>5 DEF StoryInv, Stands
<1> QED BY <1>2, <1>3, <1>4 DEF ResumeIterate

LEMMA ResumeSingleStory ==
  ASSUME StoryInv, StateInv', Resume, ResumeSingle(Recon)
  PROVE  StoryInv'
<1> DEFINE phase == IF Recon.last.status = "completed" THEN "route" ELSE "enter"
<1>1. Recon.last # NoRow /\ ~IsDecorated(Recon.last) /\ Recon.last.stage \in Stage
      /\ Recon.gen = NoGeneration
  BY StoryTypes, LastRowType DEF Resume, ResumeSingle, StoryInv, LastHasGeneration
<1>2. /\ Recon' = Recon /\ LastHasGeneration' /\ at' = Recon.last.stage /\ pc' = phase
      /\ unit'.todo = <<>>
  BY <1>1, ReenterStory DEF ResumeSingle, Single
<1>3. WellLeft'
  BY <1>1, <1>2 DEF WellLeft
<1>4. WellEntered'
  BY <1>1, <1>2, StageAssumption DEF WellEntered, Continues, NoGeneration, Entered
<1> QED BY <1>2, <1>3, <1>4 DEF StoryInv, Stands, FanoutShaped, IterateShaped, SingleShaped,
           UnitParity

LEMMA StepStory ==
  ASSUME ~MayTear, NoUnitLoop, IteratesStart, StoryInv, [Next]_vars
  PROVE  StoryInv'
<1>1. StateInv'
  BY StepState DEF StoryInv
<1>2. /\ TrailType /\ RunType /\ ~open /\ at \in Stage /\ LastHasGeneration
      /\ unit.tag \in Tag \cup {NoUnit} /\ NoUnit \in Tag \cup {NoUnit}
      /\ NextNumber \in Nat \ {0}
  BY StoryTypes, UnitTagType, NextNumberType DEF StoryInv
<1>3. CASE Launch
  <2>1. UNCHANGED lines \/ lines' = Append(lines, Header)
    BY <1>2, <1>3, WholeLines DEF Launch
  <2>2. Recon' = Recon
    BY <1>2, <2>1, ReconNext DEF FoldLine, Line, Header, IsStageRow
  <2> QED BY <1>1, <1>3, <2>2, ProceedStory DEF Launch
<1>4. CASE RouteDecision
  <2>1. PICK next \in Edge[at].targets \ {Stop} :
          BestEffort(RoutingRow(at, next)) /\ LeaveFor(next)
    BY <1>4 DEF RouteDecision
  <2>2. RoutingRow(at, next) \in Line /\ ~IsStageRow(RoutingRow(at, next))
    BY <1>2, TargetType DEF RoutingRow, RoutingRows, Line, IsStageRow
  <2>3. UNCHANGED lines \/ lines' = Append(lines, RoutingRow(at, next))
    BY <1>2, <2>1, WholeLines
  <2>4. Recon' = Recon
    BY <1>2, <2>2, <2>3, ReconNext DEF FoldLine
  <2> QED BY <1>1, <1>4, <2>1, <2>4, RouteStory DEF RouteDecision, LeaveFor
<1>5. CASE RouteNext
  <2>1. PICK next \in Edge[at].targets \ {Stop} : LeaveFor(next)
    BY <1>5 DEF RouteNext
  <2> QED BY <1>1, <1>2, <1>5, <2>1, SameTrail, RouteStory DEF RouteNext, LeaveFor, trailVars
<1>6. CASE SessionCompletes
  BY <1>1, <1>6, SessionStory
<1>7. CASE SessionAuditFails
  <2>1. UNCHANGED lines /\ pc' = "ended"
    BY <1>2, <1>7 DEF SessionAuditFails, AppendFails, Torn, Settle
  <2> QED BY <1>1, <1>2, <2>1, SameTrail, SettledStory
<1>8. CASE Halt(NextNumber, at, NoUnit)
  BY <1>1, <1>2, <1>8, HaltStory
<1>9. CASE SessionHalts
  <2>1. unit.tag # NoUnit => at \in UnitStage
    BY <1>2, <1>9 DEF SessionHalts, StoryInv, Stands, FanoutShaped, IterateShaped,
       InIterateUnit, UnitStage
  <2> QED BY <1>1, <1>2, <1>9, <2>1, HaltStory DEF SessionHalts
<1>10. CASE UNCHANGED lines /\ pc' \in {"down", "ended"}
  BY <1>1, <1>2, <1>10, SameTrail, SettledStory
<1>11. CASE HaltAtSeam \/ SessionThrows \/ RouteError
  BY <1>8, <1>10, <1>11 DEF HaltAtSeam, SessionThrows, RouteError, Settle, trailVars
<1>12. CASE PullUnit
  BY <1>1, <1>12, PullStory
<1>13. CASE EnterSingle \/ EnterFanout \/ EnterIterate
  BY <1>1, <1>13, EnterStory
<1>14. CASE EscapeLoop \/ JumpBack
  BY <1>1, <1>2, <1>8, <1>14, SameTrail, ProceedStory DEF EscapeLoop, JumpBack, trailVars
<1>15. CASE RouteStop \/ Crash
  BY <1>10, <1>15 DEF RouteStop, Crash, Settle, trailVars
<1>16. CASE Resume
  <2>1. CASE IsDecorated(Recon.last) /\ UNCHANGED trailVars /\ Settle("thrown")
    BY <1>10, <2>1 DEF Settle, trailVars
  <2> QED BY <1>1, <1>16, <2>1, ResumeFanoutStory, ResumeIterateStory, ResumeSingleStory
          DEF Resume, ResumeUnitStage
<1>17. CASE Drift \/ UNCHANGED vars
  <2>1. UNCHANGED <<lines, pc, at, st, unit>>
    BY <1>17 DEF Drift, vars, trailVars, runVars
  <2>2. Recon' = Recon /\ LastHasGeneration'
    BY <1>2, <2>1, SameTrail
  <2> QED BY <1>1, <2>1, <2>2 DEF StoryInv, Stands, FanoutShaped, IterateShaped, SingleShaped,
             WellEntered, WellLeft, UnitParity, Continues, InIterateUnit
<1> QED BY <1>3, <1>4, <1>5, <1>6, <1>7, <1>9, <1>11, <1>12, <1>13, <1>14, <1>15, <1>16, <1>17
        DEF Next, Work

LEMMA InitStory ==
  ASSUME Init
  PROVE  StoryInv
<1>1. Recon = EmptyView
  BY ReconstructEmpty DEF Init, Recon
<1>2. StateInv
  BY <1>1, InitType DEF StateInv, StateAgrees, EmptyView, Init
<1> QED BY <1>1, <1>2, StageAssumption DEF StoryInv, Stands, LastHasGeneration, FanoutShaped,
           IterateShaped, SingleShaped, WellEntered, WellLeft, UnitParity, Continues, Entered,
           EmptyView, NoGeneration, Init

(* A fanout or an iterate in progress stands where the trail says it does: *)
(* a resume at this instant would run the very unit the live loop is about *)
(* to run, with its entry artifact and accumulated outputs.                *)
THEOREM UnitsAlwaysStand ==
  ASSUME ~MayTear, NoUnitLoop, IteratesStart
  PROVE  Spec => []UnitParity
<1>1. Init => StoryInv
  BY InitStory
<1>2. StoryInv /\ [Next]_vars => StoryInv'
  BY StepStory
<1>3. StoryInv => UnitParity
  BY DEF StoryInv, Stands
<1> QED BY <1>1, <1>2, <1>3, PTL DEF Spec

-----------------------------------------------------------------------------
(* Every row follows from the rows before it: the run refines Story.       *)

(* A step that writes one line extends the story by a row it licenses.     *)
LEMMA TellsOn ==
  ASSUME TrailType, NEW line \in Line, UNCHANGED lines \/ lines' = Append(lines, line),
         IsStageRow(line) => S!Licensed(Recon, line)
  PROVE  [S!Extend]_StoryOfRun
<1>1. /\ lines \in Seq(Line) /\ StoryOfRun \in Seq(StageRows)
      /\ ReconstructState(StoryOfRun) = Recon
  BY StoryTellsTheSame DEF TrailType, TellsTheSame, StoryOfRun, Recon
<1>2. StoryOfRun \in Seq(Line)
  BY <1>1 DEF Line
<1>3. S!ReconstructState(StoryOfRun) = Recon
  BY <1>1, <1>2, SameFold
<1>4. CASE UNCHANGED lines
  BY <1>4 DEF StoryOfRun
<1>5. CASE lines' = Append(lines, line)
  <2>1. StoryOfRun' = AddRow(StoryOfRun, line)
    BY <1>1, <1>5, StoryAppend DEF StoryOfRun
  <2>2. CASE ~IsStageRow(line)
    BY <2>1, <2>2 DEF AddRow
  <2>3. CASE IsStageRow(line)
    <3>1. line \in StageRows /\ StoryOfRun' = Append(StoryOfRun, line)
      BY <2>1, <2>3, StageRowsType DEF AddRow
    <3> DEFINE story == StoryOfRun
               next == StoryOfRun'
    <3>2. /\ Len(next) = Len(story) + 1 /\ SubSeq(next, 1, Len(story)) = story
          /\ next[Len(next)] = line
      <4>1. story \in Seq(StageRows) /\ next = Append(story, line)
        BY <1>1, <3>1
      <4> HIDE DEF story, next
      <4> QED BY <4>1, <3>1
    <3> QED BY <1>3, <2>3, <3>2 DEF S!Extend
  <2> QED BY <2>2, <2>3
<1> QED BY <1>4, <1>5

(* The stage at work may write a row that opens it, if the trail does not  *)
(* have it open already.                                                   *)
LEMMA OpeningLicensed ==
  ASSUME NEW v, NEW s, NEW row, Entered(v, s), S!Opens(v, s, row),
         row.num = v.st.allocated + 1,
         row.out \in IF row.status = "completed" THEN OutputsOf(row.stage, row.unit) ELSE {"none"}
  PROVE  S!Licensed(v, row)
<1>1. S!OutputsOf(row.stage, row.unit) = OutputsOf(row.stage, row.unit)
  BY DEF S!OutputsOf, OutputsOf
<1>2. /\ S!IsComplete(row) <=> row.status = "completed"
      /\ S!IsComplete(v.last) <=> v.last.status = "completed"
      /\ S!NoRow = NoRow
      /\ S!IsDecorated(v.last) <=> IsDecorated(v.last)
  BY DEF S!IsComplete, S!NoRow, NoRow, S!IsDecorated, IsDecorated
<1>3. CASE v.last = NoRow
  BY <1>1, <1>2, <1>3 DEF S!Licensed, Entered
<1>4. CASE v.last # NoRow /\ ~IsDecorated(v.last) /\ v.last.status # "completed"
  BY <1>1, <1>2, <1>4 DEF S!Licensed, Entered
<1>5. CASE v.last # NoRow /\ (IsDecorated(v.last) \/ v.last.status = "completed")
  <2>1. S!Follows(v, row)
    BY <1>5 DEF Entered, S!Follows
  <2> QED BY <1>1, <1>2, <1>5, <2>1 DEF S!Licensed, Entered
<1> QED BY <1>3, <1>4, <1>5

(* The runner may refuse the stage at work at any moment.                  *)
LEMMA RefusalLicensed ==
  ASSUME StoryInv, pc \in {"enter", "guard", "session", "pull"}
  PROVE  S!Licensed(Recon, StageRow(NextNumber, at, NoUnit, "failed", "none"))
<1> DEFINE row == StageRow(NextNumber, at, NoUnit, "failed", "none")
<1>1. /\ row.stage = at /\ row.unit = NoUnit /\ row.status = "failed" /\ row.out = "none"
      /\ row.num = Recon.st.allocated + 1
  BY StoryTypes DEF StageRow, NextNumber
<1> HIDE DEF row
<1>2. S!Refuses(at, row) /\ ~S!IsComplete(row)
  BY <1>1 DEF S!Refuses, S!IsComplete
<1>3. CASE Continues
  <2>1. Recon.last # NoRow /\ IsDecorated(Recon.last)
    BY <1>3, ContinuesLast
  <2>2. S!NoRow = NoRow /\ S!IsDecorated(Recon.last)
    BY <2>1 DEF S!NoRow, NoRow, S!IsDecorated, IsDecorated
  <2>3. S!Refuses(Recon.gen.parent, row)
    BY <1>2, <1>3 DEF Continues
  <2> QED BY <1>1, <1>2, <2>1, <2>2, <2>3 DEF S!Licensed, row
<1>4. CASE ~Continues
  <2>1. Entered(Recon, at) /\ S!Opens(Recon, at, row)
    BY <1>2, <1>4 DEF StoryInv, Stands, WellEntered, S!Opens
  <2> QED BY <1>1, <2>1, OpeningLicensed DEF row
<1> QED BY <1>3, <1>4

(* The unit in session is one the trail allows next, or the first of its   *)
(* stage.                                                                  *)
LEMMA UnitLicensed ==
  ASSUME StoryInv, pc = "session"
  PROVE  IF Continues THEN unit.tag \in S!NextUnits(Recon) /\ unit.tag # NoUnit
         ELSE unit.tag \in S!FirstUnits(at, Recon.st.primary)
<1>1. /\ at \in Stage /\ unit \in Activation /\ Recon.st = st /\ Recon \in View
      /\ unit.todo \in Seq(Tag) /\ unit.done \in Nat /\ Def[at].shape \in Shape
      /\ NoUnit \notin Tag
  BY StoryTypes, DefAssumption, StageAssumption DEF Activation, StageDef
<1>2. CASE unit.todo # <<>>
  <2>1. /\ Def[at].shape = "fanout" /\ unit.done < Len(unit.todo)
        /\ unit.tag = unit.todo[unit.done + 1]
    BY <1>2 DEF StoryInv, Stands, FanoutShaped
  <2>2. PICK e \in Epoch : unit.todo = FanoutFn(at, st.primary, e)
    BY <1>2 DEF StoryInv, Stands, FanoutShaped
  <2>3. IF Continues THEN Recon.gen.units = SubSeq(unit.todo, 1, unit.done)
        ELSE unit.done = 0
    BY <1>2 DEF StoryInv, Stands, UnitParity, Continues
  <2>4. CASE Continues
    <3>1. Len(Recon.gen.units) = unit.done /\ unit.tag \in Tag
      BY <1>1, <2>1, <2>3, <2>4
    <3>2. unit.tag \in S!NextUnits(Recon)
      BY <1>1, <2>1, <2>2, <2>3, <2>4, <3>1 DEF S!NextUnits, Continues
    <3> QED BY <1>1, <2>4, <3>1, <3>2
  <2>5. CASE ~Continues
    <3>1. unit.tag = FanoutFn(at, Recon.st.primary, e)[1] /\ FanoutFn(at, Recon.st.primary, e) # <<>>
      BY <1>1, <1>2, <2>1, <2>2, <2>3, <2>5
    <3> QED BY <2>1, <2>5, <3>1 DEF S!FirstUnits
  <2> QED BY <2>4, <2>5
<1>3. CASE unit.todo = <<>> /\ unit.tag # NoUnit
  <2>1. /\ Def[at].shape = "iterate"
        /\ \E e \in Epoch : unit.tag = IterateFn(at, unit.entry, unit.acc, e)
    BY <1>3 DEF StoryInv, Stands, IterateShaped, InIterateUnit
  <2>2. IF Continues THEN Recon.gen.acc = unit.acc /\ Recon.gen.entry = unit.entry
        ELSE unit.acc = <<>> /\ unit.entry = Recon.st.primary
    BY <1>1, <2>1 DEF StoryInv, Stands, UnitParity, Continues
  <2> QED BY <1>3, <2>1, <2>2 DEF S!NextUnits, S!FirstUnits, Continues
<1>4. CASE unit.todo = <<>> /\ unit.tag = NoUnit
  <2>1. /\ ~Continues
        /\ \/ Def[at].shape \in {"session", "script"}
           \/ Def[at].shape = "fanout" /\ \E e \in Epoch : FanoutFn(at, Recon.st.primary, e) = <<>>
    BY <1>1, <1>4 DEF StoryInv, Stands, SingleShaped
  <2>2. CASE Def[at].shape \in {"session", "script"}
    BY <1>4, <2>1, <2>2 DEF S!FirstUnits
  <2>3. CASE Def[at].shape = "fanout"
    BY <1>4, <2>1, <2>3 DEF S!FirstUnits
  <2> QED BY <2>1, <2>2, <2>3
<1> QED BY <1>2, <1>3, <1>4

LEMMA SessionLicensed ==
  ASSUME StoryInv, pc = "session", NEW status \in Status, NEW out \in OutputShape,
         out \in IF status = "completed" THEN OutputsOf(at, unit.tag) ELSE {"none"}
  PROVE  S!Licensed(Recon, StageRow(NextNumber, at, unit.tag, status, out))
<1> DEFINE row == StageRow(NextNumber, at, unit.tag, status, out)
<1>1. /\ row.stage = at /\ row.unit = unit.tag /\ row.status = status /\ row.out = out
      /\ row.num = Recon.st.allocated + 1
  BY StoryTypes DEF StageRow, NextNumber
<1> HIDE DEF row
<1>2. CASE Continues
  <2>1. Recon.last # NoRow /\ IsDecorated(Recon.last)
    BY <1>2, ContinuesLast
  <2>2. /\ S!NoRow = NoRow /\ S!IsDecorated(Recon.last)
        /\ S!IsComplete(row) <=> status = "completed"
        /\ S!OutputsOf(at, unit.tag) = OutputsOf(at, unit.tag)
    BY <1>1, <2>1 DEF S!NoRow, NoRow, S!IsDecorated, IsDecorated, S!IsComplete,
       S!OutputsOf, OutputsOf
  <2>3. row.stage = Recon.gen.parent /\ row.unit \in S!NextUnits(Recon)
    BY <1>1, <1>2, UnitLicensed DEF Continues
  <2> QED BY <1>1, <2>1, <2>2, <2>3 DEF S!Licensed, row
<1>3. CASE ~Continues
  <2>1. Entered(Recon, at) /\ S!Opens(Recon, at, row)
    BY <1>1, <1>3, UnitLicensed DEF StoryInv, Stands, WellEntered, S!Opens
  <2> QED BY <1>1, <2>1, OpeningLicensed DEF row
<1> QED BY <1>2, <1>3

(* A failed edge function is reported under the stage it leaves.           *)
LEMMA RouteErrorLicensed ==
  ASSUME StoryInv, pc = "route", Edge[at].decision
  PROVE  S!Licensed(Recon, StageRow(NextNumber, at, NoUnit, "failed", "none"))
<1> DEFINE row == StageRow(NextNumber, at, NoUnit, "failed", "none")
<1>1. /\ row.stage = at /\ row.unit = NoUnit /\ row.status = "failed" /\ row.out = "none"
      /\ row.num = Recon.st.allocated + 1
  BY StoryTypes DEF StageRow, NextNumber
<1> HIDE DEF row
<1>2. /\ Recon.last # NoRow /\ Recon.last.stage = at
      /\ IF IsDecorated(Recon.last) THEN S!Exhausted(Recon) ELSE Recon.last.status = "completed"
  BY DEF StoryInv, Stands, WellLeft
<1>3. /\ S!Follows(Recon, row) /\ ~S!IsComplete(row) /\ S!NoRow = NoRow
      /\ S!IsDecorated(Recon.last) <=> IsDecorated(Recon.last)
      /\ S!IsComplete(Recon.last) <=> Recon.last.status = "completed"
  BY <1>1, <1>2 DEF S!Follows, S!Refuses, S!IsComplete, S!NoRow, NoRow, S!IsDecorated, IsDecorated
<1> QED BY <1>1, <1>2, <1>3 DEF S!Licensed, row

LEMMA DriftLicensed ==
  ASSUME StoryInv, Recon.last # NoRow, IsDecorated(Recon.last)
  PROVE  S!Licensed(Recon, StageRow(Recon.st.allocated + 1, Recon.last.stage, NoUnit,
                                    "failed", "none"))
<1> DEFINE row == StageRow(Recon.st.allocated + 1, Recon.last.stage, NoUnit, "failed", "none")
<1>1. /\ row.stage = Recon.gen.parent /\ row.unit = NoUnit /\ row.status = "failed"
      /\ row.out = "none" /\ row.num = Recon.st.allocated + 1
  BY DEF StageRow, StoryInv, LastHasGeneration
<1> HIDE DEF row
<1>2. /\ S!Refuses(Recon.gen.parent, row) /\ ~S!IsComplete(row) /\ S!NoRow = NoRow
      /\ S!IsDecorated(Recon.last)
  BY <1>1 DEF S!Refuses, S!IsComplete, S!NoRow, NoRow, S!IsDecorated, IsDecorated
<1> QED BY <1>1, <1>2 DEF S!Licensed, row

LEMMA StepTells ==
  ASSUME ~MayTear, StoryInv, [Next]_vars
  PROVE  [S!Extend]_StoryOfRun
<1>1. /\ TrailType /\ RunType /\ ~open /\ at \in Stage
      /\ unit.tag \in Tag \cup {NoUnit} /\ NoUnit \in Tag \cup {NoUnit}
      /\ NextNumber \in Nat \ {0}
  BY StoryTypes, UnitTagType, NextNumberType
<1>2. ASSUME NEW line \in Line, BestEffort(line) \/ Landed(line) \/ AppendFails(line),
             IsStageRow(line) => S!Licensed(Recon, line)
      PROVE  [S!Extend]_StoryOfRun
  BY <1>1, <1>2, WholeLines, TellsOn
<1>3. CASE UNCHANGED lines
  BY <1>3 DEF StoryOfRun
<1>4. CASE Launch
  BY <1>2, <1>4 DEF Launch, Line, Header, IsStageRow
<1>5. CASE RouteDecision
  <2>1. PICK next \in Edge[at].targets \ {Stop} : BestEffort(RoutingRow(at, next))
    BY <1>5 DEF RouteDecision
  <2>2. RoutingRow(at, next) \in Line /\ ~IsStageRow(RoutingRow(at, next))
    BY <1>1, TargetType DEF RoutingRow, RoutingRows, Line, IsStageRow
  <2> QED BY <1>2, <2>1, <2>2
<1>6. CASE SessionCompletes \/ SessionAuditFails
  <2>1. PICK out \in OutputsOf(at, unit.tag) :
          \/ Landed(StageRow(NextNumber, at, unit.tag, "completed", out))
          \/ AppendFails(StageRow(NextNumber, at, unit.tag, "completed", out))
    BY <1>6 DEF SessionCompletes, SessionAuditFails
  <2>2. StageRow(NextNumber, at, unit.tag, "completed", out) \in Line
    BY <1>1, CompletedRowType DEF Line
  <2>3. S!Licensed(Recon, StageRow(NextNumber, at, unit.tag, "completed", out))
    BY <1>6, OutputsOfType, SessionLicensed DEF Status, SessionCompletes, SessionAuditFails
  <2> QED BY <1>2, <2>1, <2>2, <2>3
<1>7. ASSUME NEW n \in Nat \ {0}, NEW s \in Stage, NEW u \in Tag \cup {NoUnit}, Halt(n, s, u),
             S!Licensed(Recon, StageRow(n, s, u, "failed", "none"))
      PROVE  [S!Extend]_StoryOfRun
  BY <1>2, <1>7, StageRowType DEF Halt, Status, OutputShape, Line
<1>8. CASE SessionHalts
  <2>1. S!Licensed(Recon, StageRow(NextNumber, at, unit.tag, "failed", "none"))
    BY <1>8, SessionLicensed DEF SessionHalts, Status, OutputShape
  <2> QED BY <1>1, <1>7, <1>8, <2>1 DEF SessionHalts
<1>9. CASE RouteError
  BY <1>1, <1>7, <1>9, RouteErrorLicensed DEF RouteError
<1>10. CASE Halt(NextNumber, at, NoUnit) /\ pc \in {"enter", "guard", "session", "pull"}
  BY <1>1, <1>7, <1>10, RefusalLicensed
<1>11. CASE HaltAtSeam \/ SessionThrows \/ PullUnit \/ JumpBack
  BY <1>3, <1>10, <1>11 DEF HaltAtSeam, SessionThrows, PullUnit, JumpBack, trailVars
<1>12. CASE Resume
  <2>1. CASE IsDecorated(Recon.last) /\ RefuseDrift(Recon)
    BY <1>7, <1>12, <2>1, StoryTypes, LastRowType, DriftLicensed DEF RefuseDrift, Resume
  <2> QED BY <1>3, <1>12, <2>1 DEF Resume, ResumeUnitStage, ResumeFanout, ResumeIterate,
             ResumeSingle, Reenter, trailVars
<1>13. CASE \/ EnterSingle \/ EnterFanout \/ EnterIterate \/ RouteStop \/ RouteNext
            \/ EscapeLoop \/ Crash \/ Drift \/ UNCHANGED vars
  BY <1>3, <1>13 DEF EnterSingle, EnterFanout, EnterIterate, RouteStop, RouteNext,
     EscapeLoop, Crash, Drift, vars, trailVars
<1> QED BY <1>4, <1>5, <1>6, <1>8, <1>9, <1>11, <1>12, <1>13 DEF Next, Work

(* The trail reads as one story, whatever crashes, dropped rows and        *)
(* resumes produced it: every row continues the workflow's graph and its   *)
(* unit lists from the rows before it.                                     *)
THEOREM TrailIsOneStory ==
  ASSUME ~MayTear, NoUnitLoop, IteratesStart
  PROVE  Spec => OneStory
<1>1. Init => StoryInv /\ S!Init
  BY InitStory, StoryIsFold, Reading!FoldedEmpty DEF Init, StoryOfRun, S!Init
<1>2. StoryInv /\ [Next]_vars => StoryInv' /\ [S!Extend]_StoryOfRun
  BY StepStory, StepTells
<1> QED BY <1>1, <1>2, PTL DEF Spec, OneStory, S!Spec

-----------------------------------------------------------------------------
(* The envelope and the end of the trail                                   *)

(* A generator answers from its arguments: resume-fanout.ts and            *)
(* resume-iterate.ts ask it again and compare, so they expect no less.     *)
(* Without it a list that has shrunk to the units already done lets a      *)
(* resume go on behind a unit that failed.                                 *)
SteadyGenerators ==
  \A s \in Stage, a \in Nat, e, f \in Epoch :
    /\ FanoutFn(s, a, e) = FanoutFn(s, a, f)
    /\ \A acc \in Seq(Nat) : IterateFn(s, a, acc, e) = IterateFn(s, a, acc, f)

(* A unit that failed is still to be done.                                 *)
FailedUnitIsDue ==
  LET last == Recon.last
  IN  last # NoRow /\ IsDecorated(last) /\ last.status = "failed" => ~S!Exhausted(Recon)

EnvelopeInv == StoryInv /\ FailedUnitIsDue /\ EnvelopeMatchesTrail

LEMMA DueKept ==
  ASSUME TrailType, FailedUnitIsDue, NEW line \in Line,
         UNCHANGED lines \/ lines' = Append(lines, line),
         ~(IsStageRow(line) /\ IsDecorated(line) /\ line.status = "failed")
  PROVE  FailedUnitIsDue'
<1>1. Recon \in View /\ (Recon' = Recon \/ Recon' = FoldLine(Recon, line))
  BY ReconType, ReconNext
<1>2. CASE Recon' = Recon
  BY <1>2 DEF FailedUnitIsDue
<1>3. CASE ~IsStageRow(line)
  BY <1>1, <1>2, <1>3 DEF FoldLine
<1>4. CASE IsStageRow(line) /\ Recon' = FoldLine(Recon, line)
  BY <1>1, <1>4, StageRowsType, FoldLineEffect DEF FailedUnitIsDue
<1> QED BY <1>1, <1>2, <1>3, <1>4

LEMMA FailedFold ==
  ASSUME NEW v \in View, NEW row \in StageRows, row.status = "failed"
  PROVE  FoldLine(v, row).st = CountedState(v.st, row)
<1> DEFINE c == Counted(v, row)
<1>1. c \in View /\ IsStageRow(row) /\ c.st = CountedState(v.st, row)
  BY CountedType, CountedEffect DEF IsStageRow, StageRows
<1>2. \A g : [c EXCEPT !.gen = g].st = c.st
  BY <1>1 DEF View
<1>3. \E g : FoldLine(v, row) = [c EXCEPT !.gen = g]
  BY <1>1 DEF FoldLine, FoldKnownStage, FoldFanoutUnit, FoldIterateUnit
<1> QED BY <1>1, <1>2, <1>3

(* The failed unit, with the generator asked about it: it is due again.    *)
LEMMA UnitFailsDue ==
  ASSUME ~MayTear, SteadyGenerators, StoryInv, FailedUnitIsDue, SessionHalts
  PROVE  FailedUnitIsDue'
<1> DEFINE row == StageRow(NextNumber, at, unit.tag, "failed", "none")
<1>1. /\ TrailType /\ ~open /\ at \in Stage /\ unit \in Activation /\ Recon.st = st
      /\ Recon \in View /\ pc = "session" /\ BestEffort(row)
  BY StoryTypes DEF SessionHalts, Halt
<1>2. /\ row \in StageRows /\ row \in Line /\ IsStageRow(row) /\ row.stage = at
      /\ row.unit = unit.tag /\ row.status = "failed"
      /\ IsDecorated(row) <=> unit.tag # NoUnit
  BY <1>1, SessionRow DEF Status, OutputShape
<1> HIDE DEF row
<1>3. UNCHANGED lines \/ lines' = Append(lines, row)
  BY <1>1, WholeLines
<1>4. CASE UNCHANGED lines \/ unit.tag = NoUnit
  <2>1. CASE UNCHANGED lines
    BY <2>1 DEF FailedUnitIsDue, Recon
  <2>2. CASE unit.tag = NoUnit
    BY <1>1, <1>2, <1>3, <2>2, DueKept
  <2> QED BY <1>4, <2>1, <2>2
<1>5. CASE lines' = Append(lines, row) /\ unit.tag # NoUnit
  <2> DEFINE g == GenerationOf(Recon, row)
  <2>1. Recon' = FoldLine(Recon, row)
    BY <1>1, <1>2, <1>5, ReconNext
  <2>2. /\ Recon'.gen.parent = at /\ Recon'.gen.entry = g.entry
        /\ Recon'.gen.units = g.units /\ Recon'.gen.acc = g.acc
    BY <1>1, <1>2, <1>5, <2>1, FoldGeneration
  <2>3. Recon'.st.primary = st.primary /\ st.primary \in Nat
    <3>1. Recon'.st = CountedState(st, row)
      BY <1>1, <1>2, <2>1, FailedFold
    <3> QED BY <1>1, <3>1, StoryTypes DEF CountedState, RunType, RunState
  <2>4. CASE unit.todo # <<>>
    <3>1. /\ Def[at].shape = "fanout" /\ unit.done < Len(unit.todo) /\ unit.done \in Nat
          /\ unit.todo \in Seq(Tag)
      BY <1>1, <2>4 DEF StoryInv, Stands, FanoutShaped, Activation
    <3>2. \A e \in Epoch : FanoutFn(at, st.primary, e) = unit.todo
      BY <1>1, <2>3, <2>4 DEF StoryInv, Stands, FanoutShaped, SteadyGenerators
    <3>3. g.units = IF Continues THEN SubSeq(unit.todo, 1, unit.done) ELSE <<>>
      BY <1>1, <1>2, <2>4 DEF StoryInv, Stands, UnitParity, Continues, GenerationOf
    <3>4. Len(g.units) < Len(unit.todo)
      BY <3>1, <3>3, <2>4
    <3>5. ~S!Exhausted(Recon')
      BY <2>2, <2>3, <3>1, <3>2, <3>4 DEF S!Exhausted
    <3> QED BY <3>5 DEF FailedUnitIsDue
  <2>5. CASE unit.todo = <<>>
    <3>1. /\ Def[at].shape = "iterate" /\ unit.entry \in Nat /\ unit.acc \in Seq(Nat)
          /\ \E e \in Epoch : unit.tag = IterateFn(at, unit.entry, unit.acc, e)
      BY <1>1, <1>5, <2>5 DEF StoryInv, Stands, IterateShaped, InIterateUnit, Activation
    <3>2. \A e \in Epoch : IterateFn(at, unit.entry, unit.acc, e) = unit.tag
      BY <1>1, <3>1 DEF SteadyGenerators
    <3>3. g.acc = unit.acc /\ g.entry = unit.entry
      BY <1>1, <1>2, <3>1 DEF StoryInv, Stands, UnitParity, GenerationOf
    <3>4. ~S!Exhausted(Recon')
      BY <1>5, <2>2, <3>1, <3>2, <3>3 DEF S!Exhausted
    <3> QED BY <3>4 DEF FailedUnitIsDue
  <2> QED BY <2>4, <2>5
<1> QED BY <1>3, <1>4, <1>5

(* A halt whose row landed leaves a failed row.                            *)
LEMMA HaltEnvelope ==
  ASSUME ~MayTear, StoryInv, NEW n \in Nat \ {0}, NEW s \in Stage,
         NEW u \in Tag \cup {NoUnit}, Halt(n, s, u)
  PROVE  /\ EnvelopeMatchesTrail'
         /\ u = NoUnit /\ FailedUnitIsDue => FailedUnitIsDue'
<1> DEFINE row == StageRow(n, s, u, "failed", "none")
<1>1. /\ TrailType /\ ~open /\ Recon \in View /\ BestEffort(row) /\ faults \in Nat
      /\ outcome' = "error"
  BY StoryTypes DEF Halt, Settle, Release, StoryInv, StateInv, TypeOK
<1>2. row \in StageRows /\ row \in Line /\ row.status = "failed" /\ row.unit = u
      /\ row # NoRow
  BY StageRowType DEF Status, OutputShape, Line, StageRow, NoRow
<1> HIDE DEF row
<1>3. UNCHANGED lines \/ lines' = Append(lines, row)
  BY <1>1, WholeLines
<1>4. faults' = 0 => lines' = Append(lines, row)
  BY <1>1 DEF BestEffort, Landed, AppendFails
<1>5. lines' = Append(lines, row) => Recon'.last = row
  BY <1>1, <1>2, ReconNext, FoldLineEffect
<1>6. EnvelopeMatchesTrail'
  BY <1>1, <1>2, <1>4, <1>5 DEF EnvelopeMatchesTrail
<1>7. u = NoUnit /\ FailedUnitIsDue => FailedUnitIsDue'
  BY <1>1, <1>2, <1>3, DueKept DEF IsDecorated
<1> QED BY <1>6, <1>7

LEMMA StepEnvelope ==
  ASSUME ~MayTear, SteadyGenerators, EnvelopeInv, [Next]_vars
  PROVE  FailedUnitIsDue' /\ EnvelopeMatchesTrail'
<1>1. /\ TrailType /\ RunType /\ ~open /\ at \in Stage /\ StoryInv /\ FailedUnitIsDue
      /\ unit.tag \in Tag \cup {NoUnit} /\ NoUnit \in Tag \cup {NoUnit}
      /\ NextNumber \in Nat \ {0} /\ Recon \in View /\ faults \in Nat
  BY StoryTypes, UnitTagType, NextNumberType DEF EnvelopeInv, StoryInv, StateInv, TypeOK
<1>2. CASE UNCHANGED lines /\ pc' # "ended"
  BY <1>1, <1>2 DEF FailedUnitIsDue, EnvelopeMatchesTrail, Recon
<1>3. CASE Launch
  <2>1. Header \in Line /\ ~IsStageRow(Header) /\ (UNCHANGED lines \/ lines' = Append(lines, Header))
    BY <1>1, <1>3, WholeLines DEF Launch, Line, Header, IsStageRow
  <2> QED BY <1>1, <1>3, <2>1, DueKept DEF Launch, EnvelopeMatchesTrail
<1>4. CASE RouteDecision
  <2>1. PICK next \in Edge[at].targets \ {Stop} : BestEffort(RoutingRow(at, next))
    BY <1>4 DEF RouteDecision
  <2>2. RoutingRow(at, next) \in Line /\ ~IsStageRow(RoutingRow(at, next))
    BY <1>1, TargetType DEF RoutingRow, RoutingRows, Line, IsStageRow
  <2>3. UNCHANGED lines \/ lines' = Append(lines, RoutingRow(at, next))
    BY <1>1, <2>1, WholeLines
  <2> QED BY <1>1, <1>4, <2>2, <2>3, DueKept DEF RouteDecision, EnvelopeMatchesTrail
<1>5. CASE SessionCompletes
  <2>1. PICK out \in OutputsOf(at, unit.tag) :
          Landed(StageRow(NextNumber, at, unit.tag, "completed", out))
    BY <1>5 DEF SessionCompletes
  <2> DEFINE row == StageRow(NextNumber, at, unit.tag, "completed", out)
  <2>2. row \in Line /\ row.status = "completed"
    BY <1>1, CompletedRowType DEF Line, StageRow
  <2>3. lines' = Append(lines, row) /\ pc' # "ended"
    BY <1>1, <1>5, <2>1 DEF Landed, SessionCompletes, AdvanceUnit
  <2> HIDE DEF row
  <2> QED BY <1>1, <2>2, <2>3, DueKept DEF EnvelopeMatchesTrail
<1>6. CASE SessionAuditFails
  <2>1. UNCHANGED lines /\ faults' = faults + 1 /\ outcome' = "error"
    BY <1>1, <1>6 DEF SessionAuditFails, AppendFails, Torn, Settle, Release
  <2> QED BY <1>1, <2>1 DEF FailedUnitIsDue, EnvelopeMatchesTrail, Recon
<1>7. CASE Halt(NextNumber, at, NoUnit)
  BY <1>1, <1>7, HaltEnvelope
<1>8. CASE SessionHalts
  BY <1>1, <1>8, UnitFailsDue, HaltEnvelope DEF SessionHalts
<1>9. CASE /\ Recon.last # NoRow /\ IsDecorated(Recon.last)
           /\ UNCHANGED trailVars /\ Settle("thrown")
  BY <1>1, <1>9 DEF Settle, Release, FailedUnitIsDue, EnvelopeMatchesTrail, Recon, trailVars
<1>10. CASE SessionThrows
  <2>1. ~unit.caught => Recon.last # NoRow /\ IsDecorated(Recon.last)
    BY <1>1, <1>10, ContinuesLast DEF SessionThrows, StoryInv, Stands, WellEntered
  <2> QED BY <1>7, <1>9, <1>10, <2>1 DEF SessionThrows
<1>11. CASE RouteStop
  <2>1. /\ Recon' = Recon /\ outcome' = "success" /\ Stop \in Edge[at].targets
        /\ Recon.last # NoRow /\ Recon.last.stage = at
        /\ IF IsDecorated(Recon.last) THEN S!Exhausted(Recon) ELSE Recon.last.status = "completed"
    BY <1>1, <1>11 DEF RouteStop, Settle, Release, StoryInv, Stands, WellLeft, Recon, trailVars
  <2>2. Recon.last.status \in Status
    BY <1>1, <2>1, LastRowType DEF StageRows
  <2>3. Recon.last.status = "completed"
    BY <1>1, <2>1, <2>2 DEF FailedUnitIsDue, Status
  <2> QED BY <1>1, <2>1, <2>3 DEF FailedUnitIsDue, EnvelopeMatchesTrail
<1>12. CASE HaltAtSeam \/ PullUnit \/ RouteError \/ JumpBack
  BY <1>2, <1>7, <1>12 DEF HaltAtSeam, PullUnit, RouteError, JumpBack, trailVars
<1>13. CASE Resume
  <2>1. CASE RefuseDrift(Recon)
    BY <1>1, <1>13, <2>1, LastRowType, HaltEnvelope DEF RefuseDrift, Resume
  <2> QED BY <1>2, <1>9, <1>13, <2>1 DEF Resume, ResumeUnitStage, ResumeFanout,
             ResumeIterate, ResumeSingle, Reenter, trailVars
<1>14. CASE Drift \/ UNCHANGED vars
  BY <1>1, <1>14 DEF Drift, vars, trailVars, runVars, EnvelopeInv, FailedUnitIsDue,
     EnvelopeMatchesTrail, Recon
<1>15. CASE \/ EnterSingle \/ EnterFanout \/ EnterIterate \/ RouteNext \/ EscapeLoop \/ Crash
  BY <1>2, <1>15 DEF EnterSingle, EnterFanout, EnterIterate, RouteNext, EscapeLoop, Crash,
     trailVars
<1> QED BY <1>3, <1>4, <1>5, <1>6, <1>8, <1>10, <1>11, <1>12, <1>13, <1>14, <1>15 DEF Next, Work

(* A success leaves a completed stage that may stop as the last row, an    *)
(* error whose appends all landed leaves a failed row, and a rejected call *)
(* leaves a unit: the envelope says what the next resume will find.        *)
THEOREM EnvelopeAlwaysMatches ==
  ASSUME ~MayTear, NoUnitLoop, IteratesStart, SteadyGenerators
  PROVE  Spec => []EnvelopeMatchesTrail
<1>1. Init => EnvelopeInv
  <2>1. Init => Recon.last = NoRow
    BY ReconstructEmpty DEF Init, Recon, EmptyView
  <2> QED BY <2>1, InitStory DEF EnvelopeInv, FailedUnitIsDue, EnvelopeMatchesTrail, Init
<1>2. EnvelopeInv /\ [Next]_vars => EnvelopeInv'
  BY StepStory, StepEnvelope DEF EnvelopeInv
<1>3. EnvelopeInv => EnvelopeMatchesTrail
  BY DEF EnvelopeInv
<1> QED BY <1>1, <1>2, <1>3, PTL DEF Spec

-----------------------------------------------------------------------------
(* Each unit once                                                          *)

(* The block of unit rows that ends a file is its open generation.         *)
BlockAgrees(ls, block) ==
  LET v == ReconstructState(ls)
  IN  /\ block \in [stage : Stage \cup {NoStage}, units : Seq(Tag)]
      /\ block.stage = v.gen.parent
      /\ block.stage # NoStage /\ Def[block.stage].shape = "fanout" => block.units = v.gen.units

Blocks == INSTANCE SequenceFold WITH Base <- NoBlock, Step <- AddUnit, Holds <- BlockAgrees

LEMMA BlockStep ==
  ASSUME NEW ls \in Seq(Line), NEW line \in Line, NEW block, BlockAgrees(ls, block)
  PROVE  BlockAgrees(Append(ls, line), AddUnit(block, line))
<1> DEFINE v == ReconstructState(ls)
           w == ReconstructState(Append(ls, line))
           next == AddUnit(block, line)
<1>1. w = FoldLine(v, line) /\ v \in View
  BY ReconstructAppend, ReconstructType
<1> HIDE DEF v, w, next
<1>2. /\ block \in [stage : Stage \cup {NoStage}, units : Seq(Tag)]
      /\ block.stage = v.gen.parent
      /\ block.stage # NoStage /\ Def[block.stage].shape = "fanout" => block.units = v.gen.units
  BY DEF BlockAgrees, v
<1>3. CASE ~IsStageRow(line)
  <2>1. w = v /\ next = block
    BY <1>1, <1>3 DEF FoldLine, AddUnit, next
  <2> QED BY <1>2, <2>1 DEF BlockAgrees, w, next
<1>4. CASE IsStageRow(line) /\ ~IsDecorated(line)
  <2>1. w.gen = NoGeneration /\ next = NoBlock
    BY <1>1, <1>4, StageRowsType, FoldGeneration DEF AddUnit, next
  <2> QED BY <2>1 DEF BlockAgrees, NoGeneration, NoBlock, w, next
<1>5. CASE IsStageRow(line) /\ IsDecorated(line)
  <2> DEFINE before == IF block.stage = line.stage THEN block.units ELSE <<>>
             g == GenerationOf(v, line)
  <2>1. line \in StageRows /\ line.unit \in Tag /\ line.stage \in Stage /\ line.status \in Status
    BY <1>5, StageRowsType DEF StageRows, IsDecorated
  <2>2. /\ next.stage = line.stage
        /\ next.units = IF line.status = "completed" THEN Append(before, line.unit) ELSE before
        /\ next \in [stage : Stage \cup {NoStage}, units : Seq(Tag)]
    BY <1>2, <1>5, <2>1 DEF AddUnit, next
  <2>3. /\ w.gen.parent = line.stage
        /\ Def[line.stage].shape = "fanout" =>
             w.gen.units = IF line.status = "completed" THEN Append(g.units, line.unit)
                           ELSE g.units
    <3> HIDE DEF g
    <3> QED BY <1>1, <1>5, <2>1, FoldGeneration DEF g
  <2>4. Def[line.stage].shape = "fanout" => g.units = before
    BY <1>2, <2>1, StageAssumption DEF GenerationOf
  <2> QED BY <2>2, <2>3, <2>4 DEF BlockAgrees, w, next
<1> QED BY <1>3, <1>4, <1>5

LEMMA BlockIsGeneration ==
  ASSUME NEW ls \in Seq(Line)
  PROVE  BlockAgrees(ls, TrailingBlock(ls))
<1>1. BlockAgrees(<<>>, NoBlock)
  BY ReconstructEmpty DEF BlockAgrees, NoBlock, EmptyView, NoGeneration
<1>2. BlockAgrees(ls, Blocks!Folded(ls))
  BY <1>1, BlockStep, Blocks!FoldedInduction
<1> QED BY <1>2 DEF TrailingBlock, Blocks!Folded

(* When the runner leaves a fanout, whatever crashes, halts and resumes    *)
(* lie behind, the trail shows each unit of the list completed once and in *)
(* order.                                                                  *)
THEOREM UnitsRunExactlyOnce ==
  ASSUME ~MayTear, NoUnitLoop, IteratesStart
  PROVE  Spec => []UnitsExactlyOnce
<1>1. Init => StoryInv
  BY InitStory
<1>2. StoryInv /\ [Next]_vars => StoryInv'
  BY StepStory
<1>3. StoryInv => UnitsExactlyOnce
  <2> SUFFICES ASSUME StoryInv, pc = "route", unit.todo # <<>>
               PROVE  TrailingBlock(lines) = [stage |-> at, units |-> unit.todo]
    BY DEF UnitsExactlyOnce
  <2>1. at \in Stage /\ lines \in Seq(Line) /\ NoStage \notin Stage
    BY StoryTypes, StageAssumption DEF TrailType
  <2>2. Def[at].shape = "fanout" /\ Recon.gen.parent = at /\ Recon.gen.units = unit.todo
    BY DEF StoryInv, Stands, WellLeft, Continues
  <2>3. BlockAgrees(lines, TrailingBlock(lines))
    BY <2>1, BlockIsGeneration
  <2> DEFINE block == TrailingBlock(lines)
  <2>4. /\ block \in [stage : Stage \cup {NoStage}, units : Seq(Tag)]
        /\ block.stage = at /\ block.units = unit.todo
    BY <2>1, <2>2, <2>3 DEF BlockAgrees, Recon
  <2> HIDE DEF block
  <2>5. block = [stage |-> at, units |-> unit.todo]
    BY <2>4
  <2> QED BY <2>5 DEF block
<1> QED BY <1>1, <1>2, <1>3, PTL DEF Spec

-----------------------------------------------------------------------------
(* The retries of a call.  A completion of s is paid for when the run sets *)
(* out for s: by the launch, by the call that resumes, by a jump, or by a  *)
(* detour taken for the first time.  What is paid for and not completed is *)
(* Due, and fixed edges alone bring no second completion.                  *)

(* No loop of fixed edges only: such a loop passes no decision, and the    *)
(* guard counts decisions.                                                 *)
LoopsAreGuarded ==
  \A s \in Stage : ~Edge[s].decision =>
    \A next \in Edge[s].targets \ {Stop} : ~ReachesByFixed(next, s)

(* The run is on fixed edges to a completion of s, which no guard will see.*)
Due(s) ==
  \/ pc \in {"enter", "session", "pull"} /\ ReachesByFixed(at, s)
  \/ pc = "route" /\ ~Edge[at].decision /\
       \E next \in Edge[at].targets \ {Stop} : ReachesByFixed(next, s)

(* The detours taken, the one under way among them.                        *)
Behind(s) == Detours[s] \cap Recon.visited
Taken(s) ==
  Detours[s] \cap (IF pc = "guard" THEN Recon.visited ELSE Recon.visited \cup {at})

Allowance(n) == n * (MaxBackwardJumps + 1)

JumpsAreFew == Running => jumps <= MaxBackwardJumps

GuardSeesAll == pc = "guard" => at \in Chosen /\ Recon.visited \subseteq visited

FreshIsFresh ==
  pc = "fresh" => /\ at = Start /\ jumps = 0 /\ Recon.visited = {}

CompletedAreVisited == \A s \in Stage : Completions(s) # 0 => s \in Recon.visited

(* A stage not visited has kept the run in any region it encloses.         *)
NoShortcut ==
  \A t \in Stage, region \in SUBSET Stage :
    t \notin Recon.visited /\ Closed(region, t) /\ (Start = t \/ Start \in region) =>
      Recon.visited \subseteq region /\ (Running => at \in region \cup {t})

WithinAllowance ==
  \A s \in Stage : Completions(s) <= Allowance(resumes + 1 + Cardinality(Behind(s)))

WithinJumps ==
  Running => \A s \in Stage : Reaches(at, s) =>
    Completions(s) + (IF Due(s) THEN 1 ELSE 0)
      <= Allowance(resumes + Cardinality(Taken(s))) + jumps + 1

UnitsAreTagged == pc = "session" /\ InFanoutUnit => unit.tag # NoUnit

BudgetInv ==
  /\ VisitedInv /\ UnitsAreTagged /\ JumpsAreFew /\ GuardSeesAll /\ FreshIsFresh
  /\ CompletedAreVisited /\ NoShortcut /\ WithinAllowance /\ WithinJumps

-----------------------------------------------------------------------------
(* Regions *)

LEMMA ReachesNext ==
  ASSUME NEW x \in Stage, NEW y \in Edge[x].targets \ {Stop}, y \in Stage,
         NEW s, Reaches(y, s)
  PROVE  Reaches(x, s)
BY DEF Reaches, Closed

LEMMA FixedReachesNext ==
  ASSUME NEW x \in Stage, ~Edge[x].decision, NEW y \in Edge[x].targets \ {Stop}, y \in Stage,
         NEW s, ReachesByFixed(y, s)
  PROVE  ReachesByFixed(x, s)
BY DEF ReachesByFixed, FixedClosed

LEMMA FixedReachesOn ==
  ASSUME NEW x \in Stage, NEW s \in Stage \ {x}, ReachesByFixed(x, s)
  PROVE  ~Edge[x].decision /\ \E y \in Edge[x].targets \ {Stop} : ReachesByFixed(y, s)
<1>1. CASE Edge[x].decision
  <2>1. {x} \in SUBSET Stage /\ FixedClosed({x})
    BY <1>1 DEF FixedClosed
  <2> QED BY <2>1 DEF ReachesByFixed
<1>2. CASE ~Edge[x].decision
  <2>1. SUFFICES ASSUME \A y \in Edge[x].targets \ {Stop} : ~ReachesByFixed(y, s)
                 PROVE  FALSE
    BY <1>2
  <2>2. PICK y : Edge[x].targets = {y}
    <3>1. Cardinality(Edge[x].targets) = 1 /\ IsFiniteSet(Edge[x].targets)
      <4>1. Edge[x].targets \subseteq Stage \cup {Stop}
        BY EdgeAssumption DEF EdgeDef
      <4>2. IsFiniteSet(Stage \cup {Stop})
        BY StageAssumption, FS_AddElement
      <4> QED BY <1>2, <4>1, <4>2, FS_Subset, EdgeAssumption
    <3> QED BY <3>1, FS_Singleton
  <2>3. CASE y = Stop
    <3>1. {x} \in SUBSET Stage /\ FixedClosed({x})
      BY <2>2, <2>3 DEF FixedClosed
    <3> QED BY <3>1 DEF ReachesByFixed
  <2>4. CASE y # Stop
    <3>1. PICK region \in SUBSET Stage : y \in region /\ FixedClosed(region) /\ s \notin region
      BY <2>1, <2>2, <2>4 DEF ReachesByFixed
    <3>2. region \cup {x} \in SUBSET Stage /\ FixedClosed(region \cup {x})
      BY <2>2, <3>1 DEF FixedClosed
    <3> QED BY <3>1, <3>2 DEF ReachesByFixed
  <2> QED BY <2>3, <2>4
<1> QED BY <1>1, <1>2

LEMMA FixedReachesReaches ==
  ASSUME NEW x, NEW s, ReachesByFixed(x, s)
  PROVE  Reaches(x, s)
BY DEF Reaches, ReachesByFixed, Closed, FixedClosed

-----------------------------------------------------------------------------
(* Counting *)

LEMMA DetoursType ==
  ASSUME NEW s \in Stage, NEW T
  PROVE  /\ Detours[s] \subseteq Stage /\ IsFiniteSet(Detours[s] \cap T)
         /\ Cardinality(Detours[s] \cap T) \in Nat
         /\ Cardinality(Detours[s] \cap T) <= Cardinality(Detours[s])
<1>1. Chosen \subseteq Stage
  BY DEF Chosen
<1>2. Detours[s] \subseteq Stage
  BY <1>1 DEF Detours
<1>3. IsFiniteSet(Detours[s])
  BY <1>2, StageAssumption, FS_Subset
<1>4. Detours[s] \cap T \in SUBSET Detours[s]
  OBVIOUS
<1> QED BY <1>2, <1>3, <1>4, FS_Subset, FS_CardinalityType

LEMMA DetoursGrow ==
  ASSUME NEW s \in Stage, NEW T, NEW U, T \subseteq U
  PROVE  Cardinality(Detours[s] \cap T) <= Cardinality(Detours[s] \cap U)
<1>1. Detours[s] \cap T \in SUBSET (Detours[s] \cap U)
  OBVIOUS
<1> QED BY <1>1, DetoursType, FS_Subset

LEMMA DetourAdded ==
  ASSUME NEW s \in Stage, NEW T, NEW t \in Detours[s], t \notin T
  PROVE  Cardinality(Detours[s] \cap (T \cup {t})) = Cardinality(Detours[s] \cap T) + 1
<1>1. Detours[s] \cap (T \cup {t}) = (Detours[s] \cap T) \cup {t}
  OBVIOUS
<1> QED BY <1>1, DetoursType, FS_AddElement

LEMMA AllowanceGrows ==
  ASSUME NEW m \in Nat, NEW n \in Nat
  PROVE  /\ Allowance(n) \in Nat
         /\ Allowance(n + 1) = Allowance(n) + MaxBackwardJumps + 1
         /\ m <= n => Allowance(m) <= Allowance(n)
<1> DEFINE b == MaxBackwardJumps + 1
<1>1. b \in Nat
  BY BoundAssumption
<1> HIDE DEF b
<1>2. n * b \in Nat /\ (n + 1) * b = n * b + b
  BY <1>1
<1>3. m <= n => m * b <= n * b
  BY <1>1
<1> QED BY <1>2, <1>3, BoundAssumption DEF Allowance, b

LEMMA CompletionsType ==
  ASSUME NEW ls \in Seq(Line), NEW s
  PROVE  LET rows == {i \in 1..Len(ls) : Completed(ls[i], s)}
         IN  IsFiniteSet(rows) /\ Cardinality(rows) \in Nat
<1> DEFINE rows == {i \in 1..Len(ls) : Completed(ls[i], s)}
<1>1. IsFiniteSet(1..Len(ls)) /\ rows \in SUBSET (1..Len(ls))
  BY FS_Interval
<1> QED BY <1>1, FS_Subset, FS_CardinalityType

LEMMA CompletionsAppend ==
  ASSUME TrailType, NEW line \in Line, lines' = Append(lines, line), NEW s
  PROVE  Completions(s)' = IF Completed(line, s) THEN Completions(s) + 1 ELSE Completions(s)
<1> DEFINE Rows(ls) == {i \in 1..Len(ls) : Completed(ls[i], s)}
<1>1. ASSUME NEW ls \in Seq(Line)
      PROVE  Cardinality(Rows(Append(ls, line))) =
               IF Completed(line, s) THEN Cardinality(Rows(ls)) + 1 ELSE Cardinality(Rows(ls))
  <2> DEFINE n == Len(ls) + 1
  <2>1. n \notin Rows(ls) /\ IsFiniteSet(Rows(ls))
    <3>1. IsFiniteSet({i \in 1..Len(ls) : Completed(ls[i], s)})
      BY CompletionsType
    <3> QED BY <3>1
  <2>2. ASSUME NEW i
        PROVE  i \in Rows(Append(ls, line)) <=> i \in Rows(ls) \/ (i = n /\ Completed(line, s))
    OBVIOUS
  <2> HIDE DEF Rows
  <2>3. Rows(Append(ls, line)) = IF Completed(line, s) THEN Rows(ls) \cup {n} ELSE Rows(ls)
    BY <2>2
  <2> QED BY <2>1, <2>3, FS_AddElement
<1>2. Cardinality(Rows(Append(lines, line))) =
        IF Completed(line, s) THEN Cardinality(Rows(lines)) + 1 ELSE Cardinality(Rows(lines))
  BY <1>1 DEF TrailType
<1> QED BY <1>2 DEF Completions

LEMMA BudgetTypes ==
  ASSUME VisitedInv
  PROVE  /\ TrailType /\ RunType /\ Recon \in View /\ Recon.visited \subseteq Stage
         /\ resumes \in Nat /\ jumps \in Nat /\ at \in Stage
         /\ \A s \in Stage : /\ Completions(s) \in Nat
                             /\ Cardinality(Behind(s)) \in Nat
                             /\ Cardinality(Taken(s)) \in Nat
                             /\ Cardinality(Behind(s)) <= Cardinality(Detours[s])
                             /\ Allowance(resumes + Cardinality(Taken(s))) \in Nat
<1>1. TrailType /\ RunType /\ resumes \in Nat
  BY DEF VisitedInv, StateInv, TypeOK, TrailType, RunType
<1>2. Recon \in View /\ Recon.visited \subseteq Stage
  BY <1>1, ReconType DEF View
<1>3. \A s \in Stage : Completions(s) \in Nat
  BY <1>1, CompletionsType DEF TrailType, Completions
<1>4. \A s \in Stage : /\ Cardinality(Behind(s)) \in Nat
                      /\ Cardinality(Taken(s)) \in Nat
                      /\ Cardinality(Behind(s)) <= Cardinality(Detours[s])
  BY DetoursType DEF Behind, Taken
<1>5. ASSUME NEW s \in Stage
      PROVE  Allowance(resumes + Cardinality(Taken(s))) \in Nat
  <2> DEFINE n == resumes + Cardinality(Taken(s))
  <2>1. n \in Nat
    BY <1>1, <1>4
  <2> HIDE DEF n
  <2>2. Allowance(n) \in Nat
    BY <2>1, AllowanceGrows
  <2> QED BY <2>2 DEF n
<1> QED BY <1>1, <1>2, <1>3, <1>4, <1>5 DEF RunType

-----------------------------------------------------------------------------
(* The parts of the invariant that most steps keep in the same way         *)

LEMMA ShortcutKept ==
  ASSUME NoShortcut, Recon.visited \subseteq Recon'.visited,
         Recon'.visited = Recon.visited \/ (Running /\ Recon'.visited = Recon.visited \cup {at}),
         Running' => \/ Running /\ at' = at
                     \/ at' = Start
                     \/ at' \in Recon'.visited
                     \/ \E x \in Recon'.visited : at' \in Edge[x].targets \ {Stop}
  PROVE  NoShortcut'
<1> SUFFICES ASSUME NEW t \in Stage, NEW region \in SUBSET Stage,
                    t \notin Recon'.visited, Closed(region, t),
                    Start = t \/ Start \in region
             PROVE  Recon'.visited \subseteq region /\ (Running' => at' \in region \cup {t})
  BY DEF NoShortcut
<1>1. Recon.visited \subseteq region /\ (Running => at \in region \cup {t})
  BY DEF NoShortcut
<1>2. Recon'.visited \subseteq region
  BY <1>1
<1>3. ASSUME NEW x \in Recon'.visited, at' \in Edge[x].targets \ {Stop}
      PROVE  at' \in region \cup {t}
  BY <1>2, <1>3 DEF Closed
<1> QED BY <1>1, <1>2, <1>3

LEMMA AllowanceKept ==
  ASSUME VisitedInv, VisitedInv', WithinAllowance, Recon.visited \subseteq Recon'.visited,
         NEW s \in Stage, Completions(s)' = Completions(s),
         resumes' = resumes \/ resumes' = resumes + 1
  PROVE  Completions(s)' <= Allowance(resumes' + 1 + Cardinality(Behind(s)'))
<1> DEFINE m == resumes + 1 + Cardinality(Behind(s))
           n == resumes' + 1 + Cardinality(Behind(s)')
<1>1. Cardinality(Behind(s)) <= Cardinality(Behind(s)')
  BY DetoursGrow DEF Behind
<1>2. Completions(s) \in Nat /\ resumes \in Nat /\ Cardinality(Behind(s)) \in Nat
  BY BudgetTypes
<1>3. Cardinality(Behind(s)') \in Nat
  BY DetoursType DEF Behind
<1>4. m \in Nat /\ n \in Nat /\ m <= n
  BY <1>1, <1>2, <1>3
<1>5. Completions(s) <= Allowance(m)
  BY DEF WithinAllowance
<1> HIDE DEF m, n
<1>6. Allowance(m) \in Nat /\ Allowance(n) \in Nat /\ Allowance(m) <= Allowance(n)
  BY <1>4, AllowanceGrows
<1>7. Completions(s)' <= Allowance(n)
  BY <1>2, <1>5, <1>6
<1> QED BY <1>7 DEF n

(* The call is over.                                                       *)
LEMMA SettledBudget ==
  ASSUME BudgetInv, VisitedInv', pc' \in {"down", "ended"},
         \A s \in Stage : Completions(s)' = Completions(s),
         Recon'.visited = Recon.visited \/ (Running /\ Recon'.visited = Recon.visited \cup {at}),
         resumes' = resumes \/ resumes' = resumes + 1
  PROVE  BudgetInv'
<1>1. ~Running' /\ Recon.visited \subseteq Recon'.visited
  BY DEF Running
<1>2. NoShortcut'
  BY <1>1, ShortcutKept DEF BudgetInv
<1>3. WithinAllowance'
  BY <1>1, AllowanceKept DEF BudgetInv, WithinAllowance
<1>4. CompletedAreVisited'
  BY <1>1 DEF BudgetInv, CompletedAreVisited
<1> QED BY <1>1, <1>2, <1>3, <1>4 DEF BudgetInv, JumpsAreFew, GuardSeesAll, FreshIsFresh,
           UnitsAreTagged, WithinJumps

(* The call goes on in the same stage.                                     *)
LEMMA SameStageBudget ==
  ASSUME BudgetInv, VisitedInv', UnitsAreTagged',
         UNCHANGED <<lines, at, visited, jumps, resumes>>,
         \/ UNCHANGED pc
         \/ /\ pc \in {"enter", "session", "pull"} /\ pc' \in {"session", "pull"}
         \/ /\ pc = "pull" /\ pc' = "route"
  PROVE  BudgetInv'
<1>1. /\ Recon' = Recon /\ at \in Stage
      /\ \A s \in Stage : Completions(s)' = Completions(s)
  BY BudgetTypes DEF BudgetInv, Recon, Completions
<1>2. Running' <=> Running
  BY DEF Running
<1>3. NoShortcut' /\ JumpsAreFew' /\ GuardSeesAll' /\ FreshIsFresh' /\ CompletedAreVisited'
  BY <1>1, <1>2, ShortcutKept DEF BudgetInv, JumpsAreFew, GuardSeesAll, FreshIsFresh,
     CompletedAreVisited
<1>4. WithinAllowance'
  BY <1>1, AllowanceKept DEF BudgetInv, WithinAllowance
<1>5. ASSUME NEW s \in Stage, Running, Reaches(at, s)
      PROVE  Completions(s)' + (IF Due(s)' THEN 1 ELSE 0)
               <= Allowance(resumes' + Cardinality(Taken(s)')) + jumps' + 1
  <2>1. Taken(s)' = Taken(s)
    BY <1>1 DEF Taken
  <2>2. Due(s)' => Due(s)
    <3>1. \A next \in Edge[at].targets \ {Stop} : next \in Stage
      BY <1>1, TargetType
    <3> QED BY <1>1, <3>1, FixedReachesNext DEF Due
  <2>3. Completions(s) + (IF Due(s) THEN 1 ELSE 0)
          <= Allowance(resumes + Cardinality(Taken(s))) + jumps + 1
    BY <1>5 DEF BudgetInv, WithinJumps
  <2>4. Completions(s) \in Nat /\ jumps \in Nat
        /\ Allowance(resumes + Cardinality(Taken(s))) \in Nat
    BY BudgetTypes DEF BudgetInv
  <2> QED BY <1>1, <2>1, <2>2, <2>3, <2>4
<1>6. WithinJumps'
  BY <1>2, <1>5 DEF WithinJumps
<1> QED BY <1>3, <1>4, <1>6 DEF BudgetInv

(* The edge leads to another stage.                                        *)
LEMMA RouteBudget ==
  ASSUME BudgetInv, VisitedInv', Recon' = Recon, pc = "route", pc' \in {"enter", "guard"},
         pc' = "enter" => ~Edge[at].decision, pc' = "guard" => Edge[at].decision,
         NEW next \in Edge[at].targets \ {Stop}, at' = next, visited' = visited \cup {at},
         UNCHANGED <<jumps, resumes>>,
         \A s \in Stage : Completions(s)' = Completions(s)
  PROVE  BudgetInv'
<1>1. /\ at \in Recon.visited /\ at \in Stage /\ next \in Stage
      /\ Recon.visited \subseteq visited \cup {at} /\ Running /\ Running'
  BY BudgetTypes, TargetType DEF BudgetInv, VisitedInv, HasRow, VisitedAgrees, Running
<1>2. NoShortcut'
  <2>1. at' \in Edge[at].targets \ {Stop}
    OBVIOUS
  <2> QED BY <1>1, <2>1, ShortcutKept DEF BudgetInv
<1>3. GuardSeesAll'
  BY <1>1 DEF GuardSeesAll, Chosen
<1>4. UnitsAreTagged' /\ JumpsAreFew' /\ FreshIsFresh' /\ CompletedAreVisited'
  BY <1>1 DEF BudgetInv, UnitsAreTagged, JumpsAreFew, FreshIsFresh, CompletedAreVisited
<1>5. WithinAllowance'
  BY AllowanceKept DEF BudgetInv, WithinAllowance
<1>6. ASSUME NEW s \in Stage, Reaches(next, s)
      PROVE  Completions(s)' + (IF Due(s)' THEN 1 ELSE 0)
               <= Allowance(resumes' + Cardinality(Taken(s)')) + jumps' + 1
  <2> DEFINE m == resumes + Cardinality(Taken(s))
             n == resumes + Cardinality(Taken(s)')
  <2>1. Cardinality(Taken(s)) <= Cardinality(Taken(s)')
    BY <1>1, DetoursGrow DEF Taken
  <2>2. Due(s)' => Due(s)
    BY <1>1 DEF Due
  <2>3. Completions(s) + (IF Due(s) THEN 1 ELSE 0) <= Allowance(m) + jumps + 1
    <3>1. Reaches(at, s)
      BY <1>1, <1>6, ReachesNext
    <3> QED BY <1>1, <3>1 DEF BudgetInv, WithinJumps
  <2>4. Completions(s) \in Nat /\ jumps \in Nat /\ m \in Nat /\ n \in Nat /\ m <= n
    <3>1. Cardinality(Taken(s)') \in Nat
      BY <1>1, DetoursType DEF Taken
    <3> QED BY <2>1, <3>1, BudgetTypes DEF BudgetInv
  <2> HIDE DEF m, n
  <2>5. Allowance(m) \in Nat /\ Allowance(n) \in Nat /\ Allowance(m) <= Allowance(n)
    BY <2>4, AllowanceGrows
  <2>6. Completions(s)' + (IF Due(s)' THEN 1 ELSE 0) <= Allowance(n) + jumps' + 1
    BY <2>2, <2>3, <2>4, <2>5
  <2> QED BY <2>6 DEF n
<1>7. WithinJumps'
  BY <1>6 DEF WithinJumps
<1> QED BY <1>2, <1>3, <1>4, <1>5, <1>7 DEF BudgetInv

(* A stage is entered that was never visited: the detour pays for it, or s *)
(* has not completed, for this is the only way to it.                      *)
LEMMA EscapeBudget ==
  ASSUME BudgetInv, VisitedInv', EscapeLoop
  PROVE  BudgetInv'
<1>1. /\ pc = "guard" /\ pc' = "enter" /\ jumps' = 0 /\ at \notin visited
      /\ UNCHANGED <<lines, at, visited, resumes>>
  BY DEF EscapeLoop, trailVars, boundVars
<1>2. /\ at \in Stage /\ at \in Chosen /\ at \notin Recon.visited /\ Recon' = Recon
      /\ Running /\ Running' /\ \A s \in Stage : Completions(s)' = Completions(s)
  BY <1>1, BudgetTypes DEF BudgetInv, GuardSeesAll, Recon, Running, Completions
<1>3. NoShortcut'
  BY <1>1, <1>2, ShortcutKept DEF BudgetInv
<1>4. GuardSeesAll' /\ UnitsAreTagged' /\ JumpsAreFew' /\ FreshIsFresh' /\ CompletedAreVisited'
  BY <1>1, <1>2, BoundAssumption DEF BudgetInv, GuardSeesAll, UnitsAreTagged, JumpsAreFew,
     FreshIsFresh, CompletedAreVisited
<1>5. WithinAllowance'
  BY <1>1, <1>2, AllowanceKept DEF BudgetInv, WithinAllowance
<1>6. ASSUME NEW s \in Stage, Reaches(at, s)
      PROVE  Completions(s)' + (IF Due(s)' THEN 1 ELSE 0)
               <= Allowance(resumes' + Cardinality(Taken(s)')) + jumps' + 1
  <2> DEFINE m == resumes + 1 + Cardinality(Behind(s))
             n == resumes + Cardinality(Taken(s)')
  <2>1. Completions(s) \in Nat /\ Completions(s) <= Allowance(m) /\ m \in Nat
    BY BudgetTypes DEF BudgetInv, WithinAllowance
  <2>2. Taken(s)' = Detours[s] \cap (Recon.visited \cup {at})
    BY <1>1, <1>2 DEF Taken
  <2>3. n \in Nat
    <3>1. Cardinality(Taken(s)') \in Nat
      BY <2>2, DetoursType
    <3> QED BY <1>1, <3>1, BudgetTypes DEF BudgetInv
  <2>4. CASE at \in Detours[s]
    <3>1. Cardinality(Taken(s)') = Cardinality(Behind(s)) + 1
      BY <1>2, <2>2, <2>4, DetourAdded DEF Behind
    <3>2. m = n
      BY <3>1, BudgetTypes DEF BudgetInv
    <3> HIDE DEF m, n
    <3>3. Completions(s)' + (IF Due(s)' THEN 1 ELSE 0) <= Allowance(n) + jumps' + 1
      BY <1>1, <1>2, <2>1, <2>3, <3>2, AllowanceGrows
    <3> QED BY <1>1, <3>3 DEF n
  <2>5. CASE at \notin Detours[s]
    <3>1. s \notin Recon.visited
      <4>1. CASE at = s
        BY <1>2, <4>1
      <4>2. CASE ~Bypasses(at, s)
        <5>1. PICK region \in SUBSET Stage :
                Closed(region, at) /\ (Start = at \/ Start \in region) /\ s \notin region
          BY <4>2 DEF Bypasses
        <5> QED BY <1>2, <5>1 DEF BudgetInv, NoShortcut
      <4> QED BY <1>2, <1>6, <2>5, <4>1, <4>2 DEF Detours
    <3>2. Completions(s) = 0
      BY <3>1 DEF BudgetInv, CompletedAreVisited
    <3> HIDE DEF m, n
    <3>3. Completions(s)' + (IF Due(s)' THEN 1 ELSE 0) <= Allowance(n) + jumps' + 1
      BY <1>1, <1>2, <2>3, <3>2, AllowanceGrows
    <3> QED BY <1>1, <3>3 DEF n
  <2> QED BY <2>4, <2>5
<1>7. WithinJumps'
  BY <1>1, <1>6 DEF WithinJumps
<1> QED BY <1>3, <1>4, <1>5, <1>7 DEF BudgetInv

(* One jump more, and one completion more.                                 *)
LEMMA JumpBudget ==
  ASSUME BudgetInv, VisitedInv', pc = "guard", pc' = "enter",
         jumps + 1 <= MaxBackwardJumps, jumps' = jumps + 1,
         UNCHANGED <<lines, at, visited, resumes>>
  PROVE  BudgetInv'
<1>2. /\ at \in Stage /\ Recon' = Recon /\ Running /\ Running'
      /\ \A s \in Stage : Completions(s)' = Completions(s)
  BY BudgetTypes DEF BudgetInv, Recon, Running, Completions
<1>3. NoShortcut'
  BY <1>2, ShortcutKept DEF BudgetInv
<1>4. GuardSeesAll' /\ UnitsAreTagged' /\ JumpsAreFew' /\ FreshIsFresh' /\ CompletedAreVisited'
  BY <1>2 DEF BudgetInv, GuardSeesAll, UnitsAreTagged, JumpsAreFew,
     FreshIsFresh, CompletedAreVisited
<1>5. WithinAllowance'
  BY <1>2, AllowanceKept DEF BudgetInv, WithinAllowance
<1>6. ASSUME NEW s \in Stage, Reaches(at, s)
      PROVE  Completions(s)' + (IF Due(s)' THEN 1 ELSE 0)
               <= Allowance(resumes' + Cardinality(Taken(s)')) + jumps' + 1
  <2> DEFINE m == resumes + Cardinality(Taken(s))
             n == resumes + Cardinality(Taken(s)')
  <2>1. Completions(s) + (IF Due(s) THEN 1 ELSE 0) <= Allowance(m) + jumps + 1
    BY <1>2, <1>6 DEF BudgetInv, WithinJumps
  <2>2. Cardinality(Taken(s)) <= Cardinality(Taken(s)')
    BY <1>2, DetoursGrow DEF Taken
  <2>3. Cardinality(Taken(s)') \in Nat
    BY BudgetTypes, DetoursType DEF Taken
  <2>4. Completions(s) \in Nat /\ jumps \in Nat /\ m \in Nat /\ n \in Nat /\ m <= n
    BY <2>2, <2>3, BudgetTypes DEF BudgetInv
  <2> HIDE DEF m, n
  <2>5. Allowance(m) \in Nat /\ Allowance(n) \in Nat /\ Allowance(m) <= Allowance(n)
    BY <2>4, AllowanceGrows
  <2>6. Completions(s)' + (IF Due(s)' THEN 1 ELSE 0) <= Allowance(n) + jumps' + 1
    BY <1>2, <2>1, <2>4, <2>5
  <2> QED BY <2>6 DEF n
<1>7. WithinJumps'
  BY <1>6 DEF WithinJumps
<1> QED BY <1>3, <1>4, <1>5, <1>7 DEF BudgetInv

(* A row lands.                                                            *)
LEMMA SessionBudget ==
  ASSUME ~MayTear, LoopsAreGuarded, BudgetInv, VisitedInv', SessionCompletes
  PROVE  BudgetInv'
<1>1. /\ TrailType /\ RunType /\ Recon \in View /\ at \in Stage /\ ~open /\ pc = "session"
      /\ UNCHANGED <<at, visited, jumps, resumes>> /\ Running
  BY BudgetTypes DEF BudgetInv, VisitedInv, StateInv, SessionCompletes, boundVars, Running
<1>2. PICK out \in OutputsOf(at, unit.tag) :
        /\ Landed(StageRow(NextNumber, at, unit.tag, "completed", out))
        /\ AdvanceUnit(NextNumber)
  BY DEF SessionCompletes
<1> DEFINE row == StageRow(NextNumber, at, unit.tag, "completed", out)
<1>3. /\ row \in StageRows /\ row \in Line /\ row.stage = at /\ row.unit = unit.tag
      /\ \A s : Completed(row, s) <=> at = s /\ unit.tag = NoUnit
  BY <1>1, CompletedRowType DEF Line, StageRow, Completed, IsStageRow, IsDecorated
<1>4. lines' = Append(lines, row)
  BY <1>1, <1>2 DEF Landed
<1> HIDE DEF row
<1>5. Recon'.visited = Recon.visited \cup {at}
  BY <1>1, <1>3, <1>4, ReconNext, FoldLineEffect
<1>6. \A s : Completions(s)' = IF at = s /\ unit.tag = NoUnit THEN Completions(s) + 1
                               ELSE Completions(s)
  BY <1>1, <1>3, <1>4, CompletionsAppend
<1>7. /\ pc' \in {"session", "pull", "route"} /\ Running'
      /\ unit.tag = NoUnit => pc' = "route"
  BY <1>1, <1>2 DEF AdvanceUnit, BudgetInv, UnitsAreTagged, InIterateUnit, Running
<1>8. UnitsAreTagged'
  <2> SUFFICES ASSUME pc' = "session" PROVE unit'.tag \in Tag
    BY StageAssumption DEF UnitsAreTagged
  <2>1. /\ unit.todo \in Seq(Tag) /\ unit.done + 1 < Len(unit.todo) /\ unit.done \in Nat
        /\ unit' = [unit EXCEPT !.done = unit.done + 1, !.tag = unit.todo[unit.done + 2]]
    BY <1>1, <1>2, UnitTagType DEF AdvanceUnit
  <2>2. unit'.tag = unit.todo[unit.done + 2] /\ unit.done + 2 \in 1..Len(unit.todo)
    BY <1>1, <2>1 DEF RunType, Activation
  <2> QED BY <2>1, <2>2
<1>9. NoShortcut'
  BY <1>1, <1>5, ShortcutKept DEF BudgetInv
<1>10. /\ JumpsAreFew' /\ GuardSeesAll' /\ FreshIsFresh'
  BY <1>1, <1>7 DEF BudgetInv, JumpsAreFew, GuardSeesAll, FreshIsFresh
<1>11. CompletedAreVisited'
  BY <1>5, <1>6 DEF BudgetInv, CompletedAreVisited
<1>12. ASSUME NEW s \in Stage, Reaches(at, s)
       PROVE  /\ Completions(s)' + (IF Due(s)' THEN 1 ELSE 0)
                    <= Allowance(resumes' + Cardinality(Taken(s)')) + jumps' + 1
              /\ Taken(s)' = Taken(s)
  <2>1. Taken(s)' = Taken(s)
    BY <1>1, <1>5, <1>7 DEF Taken
  <2>2. Completions(s) + (IF Due(s) THEN 1 ELSE 0)
          <= Allowance(resumes + Cardinality(Taken(s))) + jumps + 1
    BY <1>1, <1>12 DEF BudgetInv, WithinJumps
  <2>3. Completions(s) \in Nat /\ jumps \in Nat
        /\ Allowance(resumes + Cardinality(Taken(s))) \in Nat
    BY BudgetTypes DEF BudgetInv
  <2>4. CASE at = s /\ unit.tag = NoUnit
    <3>1. Due(s)
      BY <1>1, <2>4 DEF Due, ReachesByFixed
    <3>2. ~Due(s)'
      BY <1>1, <1>7, <2>4 DEF LoopsAreGuarded, Due
    <3> QED BY <1>1, <1>6, <2>1, <2>2, <2>3, <2>4, <3>1, <3>2
  <2>5. CASE ~(at = s /\ unit.tag = NoUnit)
    <3>1. Due(s)' => Due(s)
      <4>1. \A next \in Edge[at].targets \ {Stop} : next \in Stage
        BY <1>1, TargetType
      <4> QED BY <1>1, <1>7, <4>1, FixedReachesNext DEF Due
    <3> QED BY <1>1, <1>6, <2>1, <2>2, <2>3, <2>5, <3>1
  <2> QED BY <2>1, <2>4, <2>5
<1>13. WithinJumps'
  BY <1>1, <1>12 DEF WithinJumps
<1>14. ASSUME NEW s \in Stage
       PROVE  Completions(s)' <= Allowance(resumes' + 1 + Cardinality(Behind(s)'))
  <2>1. CASE Completions(s)' = Completions(s)
    BY <1>1, <1>5, <2>1, AllowanceKept DEF BudgetInv
  <2>2. CASE Completions(s)' # Completions(s)
    <3>1. at = s
      BY <1>6, <2>2
    <3>2. Reaches(at, s)
      BY <3>1 DEF Reaches
    <3> DEFINE n == resumes + Cardinality(Taken(s))
    <3>3. Taken(s)' = Taken(s) /\ Completions(s)' + (IF Due(s)' THEN 1 ELSE 0)
                                   <= Allowance(n) + jumps + 1
      BY <1>1, <1>12, <3>2
    <3>4. Behind(s)' = Taken(s)
      BY <1>1, <1>5 DEF Behind, Taken
    <3>5. /\ n \in Nat /\ jumps \in Nat /\ jumps <= MaxBackwardJumps
          /\ Completions(s)' \in Nat
      BY <1>1, <1>6, BudgetTypes DEF BudgetInv, JumpsAreFew
    <3>6. resumes' + 1 + Cardinality(Behind(s)') = n + 1
      BY <1>1, <3>4, BudgetTypes DEF BudgetInv
    <3> HIDE DEF n
    <3>7. Allowance(n) \in Nat /\ Allowance(n + 1) = Allowance(n) + MaxBackwardJumps + 1
      BY <3>5, AllowanceGrows
    <3>8. Completions(s)' <= Allowance(n) + jumps + 1
      BY <3>3, <3>5, <3>7
    <3>9. Completions(s)' <= Allowance(n + 1)
      BY <3>5, <3>7, <3>8, BoundAssumption
    <3> QED BY <3>6, <3>9
  <2> QED BY <2>1, <2>2
<1>15. WithinAllowance'
  BY <1>14 DEF WithinAllowance
<1> QED BY <1>8, <1>9, <1>10, <1>11, <1>13, <1>15 DEF BudgetInv

(* A resume: a new budget.                                                 *)
LEMMA ReenterBudget ==
  ASSUME BudgetInv, VisitedInv', Recon.last # NoRow, NEW phase, NEW activation,
         Reenter(Recon, phase, activation), phase \in {"enter", "session", "pull", "route"},
         phase = "session" => activation.tag # NoUnit, resumes' = resumes + 1
  PROVE  BudgetInv'
<1>1. /\ Recon' = Recon /\ at' = Recon.last.stage /\ pc' = phase /\ unit' = activation
      /\ jumps' = 0 /\ \A s \in Stage : Completions(s)' = Completions(s)
      /\ Running' /\ at' \in Recon'.visited
  BY DEF Reenter, trailVars, Recon, Completions, Running, BudgetInv, VisitedInv, LastIsVisited
<1>2. NoShortcut'
  BY <1>1, ShortcutKept DEF BudgetInv
<1>3. /\ GuardSeesAll' /\ UnitsAreTagged' /\ JumpsAreFew' /\ FreshIsFresh'
      /\ CompletedAreVisited'
  BY <1>1, BoundAssumption DEF BudgetInv, GuardSeesAll, UnitsAreTagged, JumpsAreFew,
     FreshIsFresh, CompletedAreVisited
<1>4. WithinAllowance'
  BY <1>1, AllowanceKept DEF BudgetInv, WithinAllowance
<1>5. ASSUME NEW s \in Stage
      PROVE  Completions(s)' + (IF Due(s)' THEN 1 ELSE 0)
               <= Allowance(resumes' + Cardinality(Taken(s)')) + jumps' + 1
  <2> DEFINE n == resumes + 1 + Cardinality(Behind(s))
  <2>1. Taken(s)' = Behind(s)
    BY <1>1 DEF Taken, Behind
  <2>2. Completions(s) <= Allowance(n) /\ Completions(s) \in Nat /\ n \in Nat
    BY BudgetTypes DEF BudgetInv, WithinAllowance
  <2>3. resumes' + Cardinality(Taken(s)') = n
    BY <2>1
  <2> HIDE DEF n
  <2>4. Completions(s)' + (IF Due(s)' THEN 1 ELSE 0) <= Allowance(n) + jumps' + 1
    BY <1>1, <2>2, AllowanceGrows
  <2> QED BY <2>3, <2>4
<1>6. WithinJumps'
  BY <1>5 DEF WithinJumps
<1> QED BY <1>2, <1>3, <1>4, <1>6 DEF BudgetInv

-----------------------------------------------------------------------------
(* The actions *)

LEMMA HaltBudget ==
  ASSUME ~MayTear, BudgetInv, VisitedInv', NEW n \in Nat \ {0}, NEW s \in Stage,
         NEW u \in Tag \cup {NoUnit}, Halt(n, s, u), (Running /\ s = at) \/ s \in Recon.visited,
         resumes' = resumes \/ resumes' = resumes + 1
  PROVE  BudgetInv'
<1> DEFINE row == StageRow(n, s, u, "failed", "none")
<1>1. row \in StageRows /\ row \in Line /\ row.stage = s /\ \A t : ~Completed(row, t)
  BY StageRowType DEF Status, OutputShape, Line, StageRow, Completed
<1>2. UNCHANGED lines \/ lines' = Append(lines, row)
  BY WholeLines DEF Halt, BudgetInv, VisitedInv, StateInv
<1> HIDE DEF row
<1>3. TrailType /\ Recon \in View
  BY BudgetTypes DEF BudgetInv
<1>4. Recon'.visited = Recon.visited \/ Recon'.visited = Recon.visited \cup {s}
  BY <1>1, <1>2, <1>3, ReconNext, FoldLineEffect
<1>5. \A t \in Stage : Completions(t)' = Completions(t)
  <2>1. CASE UNCHANGED lines
    BY <2>1 DEF Completions
  <2>2. CASE lines' = Append(lines, row)
    BY <1>1, <1>3, <2>2, CompletionsAppend
  <2> QED BY <1>2, <2>1, <2>2
<1>6. pc' = "ended"
  BY DEF Halt, Settle
<1>7. Recon'.visited = Recon.visited \/ (Running /\ Recon'.visited = Recon.visited \cup {at})
  BY <1>4
<1> QED BY <1>5, <1>6, <1>7, SettledBudget

LEMMA LaunchBudget ==
  ASSUME ~MayTear, BudgetInv, VisitedInv', Launch
  PROVE  BudgetInv'
<1>1. /\ pc' = "enter" /\ UNCHANGED <<at, visited, jumps, resumes>> /\ Running'
      /\ at = Start /\ jumps = 0 /\ Recon.visited = {} /\ TrailType
      /\ resumes \in Nat
  BY BudgetTypes DEF Launch, boundVars, BudgetInv, FreshIsFresh, Running
<1>2. Header \in Line /\ ~IsStageRow(Header) /\ \A s : ~Completed(Header, s)
  BY DEF Line, Header, IsStageRow, Completed
<1>3. UNCHANGED lines \/ lines' = Append(lines, Header)
  BY WholeLines DEF Launch, BudgetInv, VisitedInv, StateInv
<1>4. Recon' = Recon
  BY <1>1, <1>2, <1>3, ReconNext DEF FoldLine
<1>5. \A s \in Stage : Completions(s)' = Completions(s) /\ Completions(s) = 0
  <2> SUFFICES ASSUME NEW s \in Stage
               PROVE  Completions(s)' = Completions(s) /\ Completions(s) = 0
    OBVIOUS
  <2>1. Completions(s) = 0
    BY <1>1 DEF BudgetInv, CompletedAreVisited
  <2>2. CASE UNCHANGED lines
    BY <2>1, <2>2 DEF Completions
  <2>3. CASE lines' = Append(lines, Header)
    BY <1>1, <1>2, <2>1, <2>3, CompletionsAppend
  <2> QED BY <1>3, <2>2, <2>3
<1>6. NoShortcut'
  BY <1>1, <1>4, ShortcutKept DEF BudgetInv
<1>7. /\ GuardSeesAll' /\ UnitsAreTagged' /\ JumpsAreFew' /\ FreshIsFresh'
      /\ CompletedAreVisited'
  BY <1>1, <1>4, <1>5, BoundAssumption DEF BudgetInv, GuardSeesAll, UnitsAreTagged,
     JumpsAreFew, FreshIsFresh, CompletedAreVisited
<1>8. WithinAllowance'
  BY <1>1, <1>4, <1>5, AllowanceKept DEF BudgetInv, WithinAllowance
<1>9. ASSUME NEW s \in Stage
      PROVE  Completions(s)' + (IF Due(s)' THEN 1 ELSE 0)
               <= Allowance(resumes' + Cardinality(Taken(s)')) + jumps' + 1
  <2> DEFINE n == resumes' + Cardinality(Taken(s)')
  <2>1. n \in Nat
    <3>1. Cardinality(Taken(s)') \in Nat
      BY DetoursType DEF Taken
    <3> QED BY <1>1, <3>1
  <2> HIDE DEF n
  <2>2. Allowance(n) \in Nat
    BY <2>1, AllowanceGrows
  <2>3. Completions(s)' + (IF Due(s)' THEN 1 ELSE 0) <= Allowance(n) + jumps' + 1
    BY <1>1, <1>5, <2>2
  <2> QED BY <2>3 DEF n
<1>10. WithinJumps'
  BY <1>9 DEF WithinJumps
<1> QED BY <1>6, <1>7, <1>8, <1>10 DEF BudgetInv

LEMMA ResumeBudget ==
  ASSUME ~MayTear, BudgetInv, VisitedInv', Resume
  PROVE  BudgetInv'
<1>1. /\ Recon \in View /\ Recon.last # NoRow /\ Recon.last.stage \in Stage
      /\ Recon.last.stage \in Recon.visited /\ resumes' = resumes + 1
      /\ Recon.st.allocated + 1 \in Nat \ {0} /\ Recon.gen.units \in Seq(Tag)
  BY BudgetTypes, LastRowType DEF BudgetInv, VisitedInv, LastIsVisited, Resume
<1>2. CASE RefuseDrift(Recon)
  BY <1>1, <1>2, HaltBudget DEF RefuseDrift
<1>3. CASE UNCHANGED trailVars /\ Settle("thrown")
  <2>1. /\ pc' = "ended" /\ Recon' = Recon
        /\ \A s \in Stage : Completions(s)' = Completions(s)
    BY <1>3 DEF Settle, Recon, trailVars, Completions
  <2> QED BY <1>1, <2>1, SettledBudget
<1>4. CASE ResumeFanout(Recon)
  <2> DEFINE units == FanoutFn(Recon.last.stage, Recon.st.primary, epoch)
             done == Len(Recon.gen.units)
             stage == [Single EXCEPT !.todo = units, !.done = done, !.caught = FALSE]
  <2>1. CASE Reenter(Recon, "route", stage)
    BY <1>1, <2>1, ReenterBudget
  <2>2. CASE /\ units \in Seq(Tag) /\ done < Len(units)
             /\ Reenter(Recon, "session", [stage EXCEPT !.tag = units[done + 1]])
    <3>1. units[done + 1] \in Tag
      BY <1>1, <2>2
    <3> DEFINE next == [stage EXCEPT !.tag = units[done + 1]]
    <3>2. next.tag = units[done + 1] /\ Reenter(Recon, "session", next)
      BY <2>2 DEF Single
    <3> HIDE DEF next
    <3>3. next.tag # NoUnit
      BY <3>1, <3>2, StageAssumption
    <3> QED BY <1>1, <3>2, <3>3, ReenterBudget
  <2> QED BY <1>2, <1>4, <2>1, <2>2 DEF ResumeFanout
<1>5. CASE ResumeIterate(Recon)
  BY <1>1, <1>2, <1>5, ReenterBudget DEF ResumeIterate
<1>6. CASE ResumeSingle(Recon)
  BY <1>1, <1>6, ReenterBudget DEF ResumeSingle
<1> QED BY <1>3, <1>4, <1>5, <1>6 DEF Resume, ResumeUnitStage

LEMMA StepBudget ==
  ASSUME ~MayTear, IteratesStart, LoopsAreGuarded, BudgetInv, [Next]_vars
  PROVE  BudgetInv'
<1>1. VisitedInv'
  BY StepVisited DEF BudgetInv
<1>2. /\ TrailType /\ RunType /\ at \in Stage /\ ~open
  BY BudgetTypes DEF BudgetInv, VisitedInv, StateInv
<1>3. CASE Launch
  BY <1>1, <1>3, LaunchBudget
<1>4. CASE \E u \in Tag \cup {NoUnit} : Running /\ resumes' = resumes /\ Halt(NextNumber, at, u)
  BY <1>1, <1>2, <1>4, NextNumberType, HaltBudget
<1>5. CASE /\ Running /\ resumes' = resumes /\ UNCHANGED lines /\ pc' \in {"down", "ended"}
  <2>1. Recon' = Recon /\ \A s \in Stage : Completions(s)' = Completions(s)
    BY <1>5 DEF Recon, Completions
  <2> QED BY <1>1, <1>5, <2>1, SettledBudget
<1>6. CASE HaltAtSeam \/ SessionHalts \/ SessionThrows \/ RouteError
  <2>1. unit.tag \in Tag \cup {NoUnit} /\ NoUnit \in Tag \cup {NoUnit}
    BY <1>2, UnitTagType
  <2> QED BY <1>4, <1>5, <1>6, <2>1 DEF HaltAtSeam, SessionHalts, SessionThrows, RouteError,
             Settle, trailVars, boundVars, Running
<1>7. CASE RouteStop \/ Crash
  BY <1>5, <1>7 DEF RouteStop, Crash, Settle, trailVars, boundVars, Running
<1>8. CASE SessionAuditFails
  <2>1. PICK out \in OutputsOf(at, unit.tag) :
          AppendFails(StageRow(NextNumber, at, unit.tag, "completed", out))
    BY <1>8 DEF SessionAuditFails
  <2>2. UNCHANGED lines
    BY <2>1 DEF AppendFails, Torn
  <2> QED BY <1>5, <1>8, <2>2 DEF SessionAuditFails, Settle, boundVars, Running
<1>9. CASE SessionCompletes
  BY <1>1, <1>9, SessionBudget
<1>10. CASE EnterSingle \/ EnterFanout \/ EnterIterate
  <2>1. UnitsAreTagged'
    <3>1. CASE EnterFanout
      <4> DEFINE units == FanoutFn(at, st.primary, epoch)
      <4>1. units \in Seq(Tag) /\ units # <<>> /\ unit' = [Single EXCEPT !.todo = units, !.tag = units[1]]
        BY <3>1 DEF EnterFanout
      <4>2. units[1] \in Tag
        BY <4>1
      <4> HIDE DEF units
      <4>3. unit'.tag = units[1]
        BY <4>1 DEF Single
      <4> QED BY <4>2, <4>3, StageAssumption DEF UnitsAreTagged
    <3>2. CASE EnterSingle \/ EnterIterate
      BY <3>2 DEF EnterSingle, EnterIterate, Single, UnitsAreTagged, InFanoutUnit
    <3> QED BY <1>10, <3>1, <3>2
  <2> QED BY <1>1, <1>10, <2>1, SameStageBudget DEF EnterSingle, EnterFanout, EnterIterate,
             trailVars, boundVars
<1>11. CASE PullUnit
  <2> DEFINE tag == IterateFn(at, unit.entry, unit.acc, epoch)
  <2>1. CASE Halt(NextNumber, at, NoUnit)
    BY <1>4, <1>11, <2>1 DEF PullUnit, boundVars, Running
  <2>2. CASE pc' = "route" /\ UNCHANGED <<trailVars, at, st, visited, jumps, unit, outcome>>
    BY <1>1, <1>11, <2>2, SameStageBudget DEF PullUnit, boundVars, trailVars, UnitsAreTagged
  <2>3. CASE /\ tag \in Tag /\ pc' = "session" /\ unit' = [unit EXCEPT !.tag = tag]
             /\ UNCHANGED <<trailVars, at, st, visited, jumps, outcome>>
    <3>1. unit'.tag = tag
      BY <1>2, <2>3 DEF RunType, Activation
    <3>2. UnitsAreTagged'
      BY <2>3, <3>1, StageAssumption DEF UnitsAreTagged
    <3> QED BY <1>1, <1>11, <2>3, <3>2, SameStageBudget DEF PullUnit, boundVars, trailVars
  <2> QED BY <1>11, <2>1, <2>2, <2>3 DEF PullUnit
<1>12. CASE RouteNext
  <2>1. PICK next \in Edge[at].targets \ {Stop} : LeaveFor(next)
    BY <1>12 DEF RouteNext
  <2>2. Recon' = Recon /\ \A s \in Stage : Completions(s)' = Completions(s)
    BY <1>12 DEF RouteNext, Recon, trailVars, Completions
  <2> QED BY <1>1, <1>12, <2>1, <2>2, RouteBudget DEF RouteNext, LeaveFor, boundVars
<1>13. CASE RouteDecision
  <2>1. PICK next \in Edge[at].targets \ {Stop} :
          BestEffort(RoutingRow(at, next)) /\ LeaveFor(next)
    BY <1>13 DEF RouteDecision
  <2> DEFINE row == RoutingRow(at, next)
  <2>2. row \in Line /\ ~IsStageRow(row)
    BY <1>2, TargetType DEF RoutingRow, RoutingRows, Line, IsStageRow
  <2> HIDE DEF row
  <2>3. UNCHANGED lines \/ lines' = Append(lines, row)
    BY <1>2, <2>1, WholeLines DEF row
  <2>4. Recon' = Recon
    BY <1>2, <2>2, <2>3, ReconNext DEF FoldLine
  <2>5. ASSUME NEW s \in Stage PROVE Completions(s)' = Completions(s)
    <3>1. CASE UNCHANGED lines
      BY <3>1 DEF Completions
    <3>2. CASE lines' = Append(lines, row)
      BY <1>2, <2>2, <3>2, CompletionsAppend DEF Completed
    <3> QED BY <2>3, <3>1, <3>2
  <2> QED BY <1>1, <1>13, <2>1, <2>4, <2>5, RouteBudget DEF RouteDecision, LeaveFor, boundVars
<1>14. CASE EscapeLoop
  BY <1>1, <1>14, EscapeBudget
<1>15. CASE JumpBack
  <2>1. CASE Halt(NextNumber, at, NoUnit)
    BY <1>4, <1>15, <2>1 DEF JumpBack, boundVars, Running
  <2>2. CASE jumps + 1 <= MaxBackwardJumps /\ jumps' = jumps + 1 /\ pc' = "enter"
             /\ UNCHANGED <<trailVars, at, st, visited, unit, outcome>>
    BY <1>1, <1>15, <2>2, JumpBudget DEF JumpBack, trailVars, boundVars
  <2> QED BY <1>15, <2>1, <2>2 DEF JumpBack
<1>16. CASE Resume
  BY <1>1, <1>16, ResumeBudget
<1>17. CASE Drift \/ UNCHANGED vars
  <2>1. UNCHANGED <<lines, at, visited, jumps, resumes, pc, unit>>
    BY <1>17 DEF Drift, vars, trailVars, runVars, boundVars
  <2> QED BY <1>1, <2>1, SameStageBudget DEF UnitsAreTagged, InFanoutUnit, BudgetInv
<1> QED BY <1>3, <1>6, <1>7, <1>8, <1>9, <1>10, <1>11, <1>12, <1>13, <1>14, <1>15, <1>16, <1>17
        DEF Next, Work

LEMMA InitBudget ==
  ASSUME Init
  PROVE  BudgetInv
<1>1. VisitedInv
  BY InitVisited
<1>2. /\ Recon.visited = {} /\ lines = <<>> /\ pc = "fresh" /\ ~Running
      /\ at = Start /\ jumps = 0 /\ resumes = 0
  BY ReconstructEmpty DEF Init, Recon, EmptyView, Running
<1>3. ASSUME NEW s \in Stage
      PROVE  Completions(s) = 0 /\ 0 <= Allowance(resumes + 1 + Cardinality(Behind(s)))
  <2> DEFINE n == resumes + 1 + Cardinality(Behind(s))
  <2>1. {i \in 1..Len(lines) : Completed(lines[i], s)} = {}
    BY <1>2
  <2>2. Completions(s) = 0
    BY <2>1, FS_EmptySet DEF Completions
  <2>3. n \in Nat
    BY <1>1, BudgetTypes
  <2> HIDE DEF n
  <2>4. Allowance(n) \in Nat
    BY <2>3, AllowanceGrows
  <2>5. 0 <= Allowance(n)
    BY <2>4
  <2> QED BY <2>2, <2>5 DEF n
<1>4. WithinAllowance /\ CompletedAreVisited
  BY <1>3 DEF WithinAllowance, CompletedAreVisited
<1> QED BY <1>1, <1>2, <1>4 DEF BudgetInv, UnitsAreTagged, JumpsAreFew, GuardSeesAll,
           FreshIsFresh, NoShortcut, WithinJumps

LEMMA BudgetSuffices ==
  ASSUME BudgetInv
  PROVE  RetriesBounded
<1> SUFFICES ASSUME NEW s \in Stage
             PROVE  Completions(s) <= Allowance(resumes + 1 + Cardinality(Detours[s]))
  BY DEF RetriesBounded, Allowance
<1> DEFINE m == resumes + 1 + Cardinality(Behind(s))
           n == resumes + 1 + Cardinality(Detours[s])
<1>1. Cardinality(Detours[s]) \in Nat
  <2>1. Detours[s] \cap Detours[s] = Detours[s]
    OBVIOUS
  <2> QED BY <2>1, DetoursType
<1>2. m \in Nat /\ n \in Nat /\ m <= n /\ Completions(s) \in Nat /\ Completions(s) <= Allowance(m)
  BY <1>1, BudgetTypes DEF BudgetInv, WithinAllowance
<1> HIDE DEF m, n
<1>3. Allowance(m) \in Nat /\ Allowance(n) \in Nat /\ Allowance(m) <= Allowance(n)
  BY <1>2, AllowanceGrows
<1>4. Completions(s) <= Allowance(n)
  BY <1>2, <1>3
<1> QED BY <1>4 DEF n

(* However often a run is killed and resumed, a stage completes no more    *)
(* often than the budgets of its calls and of the detours around it allow: *)
(* no path leads around the backward-jump guard, in any workflow whose     *)
(* loops all pass a decision.                                              *)
THEOREM RetriesAreBounded ==
  ASSUME ~MayTear, IteratesStart, LoopsAreGuarded
  PROVE  Spec => []RetriesBounded
<1>1. Init => BudgetInv
  BY InitBudget
<1>2. BudgetInv /\ [Next]_vars => BudgetInv'
  BY StepBudget
<1>3. BudgetInv => RetriesBounded
  BY BudgetSuffices
<1> QED BY <1>1, <1>2, <1>3, PTL DEF Spec

-----------------------------------------------------------------------------
(* Why a call ends: the variant falls.  It takes no more of the file than  *)
(* that it is typed, so appends may tear here.                             *)

(* A session in an iterate was granted by the cap, and a generator that is *)
(* about to be asked has no unit list.                                     *)
UnderCap ==
  /\ pc = "session" /\ InIterateUnit => Len(unit.acc) < MaxIterations
  /\ pc = "pull" => unit.todo = <<>>

VariantInv == TypeOK /\ jumps <= MaxBackwardJumps /\ UnderCap

LEMMA SettledVariant ==
  ASSUME TypeOK', NEW result, Release(result), pc' \notin {"session", "pull"}
  PROVE  VariantInv'
BY BoundAssumption DEF Release, VariantInv, UnderCap

LEMMA ReenterVariant ==
  ASSUME TypeOK', NEW phase, NEW activation, Reenter(Recon, phase, activation),
         phase = "session" => activation.todo # <<>>,
         phase = "pull" => activation.todo = <<>>
  PROVE  VariantInv'
BY BoundAssumption DEF Reenter, VariantInv, UnderCap, InIterateUnit

LEMMA StepVariant ==
  ASSUME VariantInv, [Next]_vars
  PROVE  VariantInv'
<1>1. TypeOK' /\ TrailType /\ RunType /\ jumps <= MaxBackwardJumps
  BY StepType DEF VariantInv, TypeOK, TrailType, RunType
<1>2. CASE \/ HaltAtSeam \/ SessionHalts \/ SessionAuditFails \/ SessionThrows
           \/ RouteError \/ RouteStop
  BY <1>1, <1>2, SettledVariant DEF HaltAtSeam, SessionHalts, SessionAuditFails,
     SessionThrows, RouteError, RouteStop, Halt, Settle
<1>3. CASE Crash
  BY <1>1, <1>3, SettledVariant DEF Crash
<1>4. CASE Launch \/ EnterIterate \/ RouteNext \/ RouteDecision \/ EscapeLoop
  BY <1>1, <1>4, BoundAssumption DEF Launch, EnterIterate, RouteNext, RouteDecision,
     EscapeLoop, VariantInv, UnderCap, Single
<1>5. CASE EnterSingle
  BY <1>1, <1>5 DEF EnterSingle, VariantInv, UnderCap, Single, InIterateUnit
<1>6. CASE EnterFanout
  <2> DEFINE units == FanoutFn(at, st.primary, epoch)
  <2>1. /\ units # <<>> /\ unit' = [Single EXCEPT !.todo = units, !.tag = units[1]]
        /\ jumps' = jumps /\ pc' = "session"
    BY <1>6 DEF EnterFanout
  <2> HIDE DEF units
  <2>2. unit'.todo # <<>>
    BY <2>1 DEF Single
  <2> QED BY <1>1, <2>1, <2>2 DEF VariantInv, UnderCap, InIterateUnit
<1>7. CASE PullUnit
  <2>1. CASE Halt(NextNumber, at, NoUnit)
    BY <1>1, <2>1, SettledVariant DEF Halt, Settle
  <2>2. CASE pc' = "route" /\ jumps' = jumps
    BY <1>1, <2>2 DEF VariantInv, UnderCap
  <2>3. CASE /\ Len(unit.acc) < MaxIterations /\ jumps' = jumps /\ pc' = "session"
             /\ unit' = [unit EXCEPT !.tag = IterateFn(at, unit.entry, unit.acc, epoch)]
    <3>1. unit'.acc = unit.acc
      BY <1>1, <2>3 DEF RunType, Activation
    <3> QED BY <1>1, <2>3, <3>1 DEF VariantInv, UnderCap
  <2> QED BY <1>7, <2>1, <2>2, <2>3 DEF PullUnit
<1>8. CASE SessionCompletes
  <2>1. jumps' = jumps /\ AdvanceUnit(NextNumber)
    BY <1>8 DEF SessionCompletes
  <2>2. CASE pc' = "session"
    <3>1. InFanoutUnit /\ unit' = [unit EXCEPT !.done = unit.done + 1, !.tag = unit.todo[unit.done + 2]]
      BY <2>1, <2>2 DEF AdvanceUnit
    <3>2. unit'.todo = unit.todo
      BY <1>1, <3>1 DEF RunType, Activation
    <3> QED BY <1>1, <2>1, <2>2, <3>1, <3>2 DEF VariantInv, UnderCap, InFanoutUnit, InIterateUnit
  <2>3. CASE pc' = "pull"
    <3>1. InIterateUnit /\ unit' = [unit EXCEPT !.acc = Append(@, NextNumber), !.tag = NoUnit]
      BY <2>1, <2>3 DEF AdvanceUnit
    <3>2. unit'.todo = <<>>
      BY <1>1, <3>1 DEF RunType, Activation, InIterateUnit
    <3> QED BY <1>1, <2>1, <2>3, <3>2 DEF VariantInv, UnderCap
  <2> QED BY <1>1, <2>1, <2>2, <2>3 DEF VariantInv, UnderCap
<1>9. CASE JumpBack
  <2>1. CASE Halt(NextNumber, at, NoUnit)
    BY <1>1, <2>1, SettledVariant DEF Halt, Settle
  <2>2. CASE jumps + 1 <= MaxBackwardJumps /\ jumps' = jumps + 1 /\ pc' = "enter"
    BY <1>1, <2>2 DEF VariantInv, UnderCap
  <2> QED BY <1>9, <2>1, <2>2 DEF JumpBack
<1>10. CASE Resume
  <2>1. CASE RefuseDrift(Recon)
    BY <1>1, <2>1, SettledVariant DEF RefuseDrift, Halt, Settle
  <2>2. CASE Settle("thrown")
    BY <1>1, <2>2, SettledVariant DEF Settle
  <2>3. CASE ResumeFanout(Recon)
    <3> DEFINE units == FanoutFn(Recon.last.stage, Recon.st.primary, epoch)
               done == Len(Recon.gen.units)
               stage == [Single EXCEPT !.todo = units, !.done = done, !.caught = FALSE]
    <3>1. CASE Reenter(Recon, "route", stage)
      BY <1>1, <3>1, ReenterVariant
    <3>2. CASE /\ units \in Seq(Tag) /\ done < Len(units)
               /\ Reenter(Recon, "session", [stage EXCEPT !.tag = units[done + 1]])
      <4>1. Recon.gen.units \in Seq(Tag)
        BY <1>1, ReconType DEF View, Generation
      <4>2. units # <<>>
        BY <3>2, <4>1
      <4> DEFINE next == [stage EXCEPT !.tag = units[done + 1]]
      <4>3. next.todo = units /\ Reenter(Recon, "session", next)
        BY <3>2 DEF Single
      <4> HIDE DEF next
      <4> QED BY <1>1, <4>2, <4>3, ReenterVariant
    <3> QED BY <2>1, <2>3, <3>1, <3>2 DEF ResumeFanout
  <2>4. CASE ResumeIterate(Recon) \/ ResumeSingle(Recon)
    <3> DEFINE stage == [Single EXCEPT !.entry = Recon.gen.entry, !.acc = Recon.gen.acc,
                                       !.caught = FALSE]
    <3>1. stage.todo = <<>>
      BY DEF Single
    <3>2. CASE Reenter(Recon, "route", stage) \/ Reenter(Recon, "pull", stage)
      <4> HIDE DEF stage
      <4> QED BY <1>1, <3>1, <3>2, ReenterVariant
    <3>3. CASE \E phase \in {"route", "enter"} : Reenter(Recon, phase, Single)
      BY <1>1, <3>3, ReenterVariant
    <3> QED BY <2>1, <2>4, <3>2, <3>3 DEF ResumeIterate, ResumeSingle
  <2> QED BY <1>10, <2>2, <2>3, <2>4 DEF Resume, ResumeUnitStage
<1>11. CASE Drift \/ UNCHANGED vars
  <2>1. UNCHANGED <<pc, unit, jumps>>
    BY <1>11 DEF Drift, vars, runVars
  <2> QED BY <1>1, <2>1 DEF VariantInv, UnderCap, InIterateUnit
<1> QED BY <1>2, <1>3, <1>4, <1>5, <1>6, <1>7, <1>8, <1>9, <1>10, <1>11 DEF Next, Work

-----------------------------------------------------------------------------

(* The next stage on a fixed edge has fewer stages ahead.                  *)
LEMMA FixedAheadType ==
  ASSUME NEW x \in Stage
  PROVE  FixedAhead[x] \in Nat \ {0}
<1> DEFINE ahead == {s \in Stage : ReachesByFixed(x, s)}
<1>1. ahead \in SUBSET Stage /\ x \in ahead
  BY DEF ReachesByFixed
<1>2. IsFiniteSet(ahead) /\ Cardinality(ahead) \in Nat
  BY <1>1, StageAssumption, FS_Subset, FS_CardinalityType
<1>3. Cardinality(ahead) # 0
  BY <1>1, <1>2, FS_EmptySet
<1> QED BY <1>2, <1>3 DEF FixedAhead

LEMMA FixedAheadFalls ==
  ASSUME LoopsAreGuarded, NEW x \in Stage, ~Edge[x].decision,
         NEW y \in Edge[x].targets \ {Stop}
  PROVE  FixedAhead[y] < FixedAhead[x]
<1> DEFINE A(z) == {s \in Stage : ReachesByFixed(z, s)}
<1>1. y \in Stage
  BY TargetType
<1>2. A(y) \in SUBSET A(x)
  BY <1>1, FixedReachesNext
<1>3. x \in A(x) /\ x \notin A(y)
  BY DEF ReachesByFixed, LoopsAreGuarded
<1>4. IsFiniteSet(A(x))
  <2>1. A(x) \in SUBSET Stage
    OBVIOUS
  <2> QED BY <2>1, StageAssumption, FS_Subset
<1>5. FixedAhead[y] = Cardinality(A(y)) /\ FixedAhead[x] = Cardinality(A(x))
  BY <1>1 DEF FixedAhead
<1> HIDE DEF A
<1>6. Cardinality(A(y)) <= Cardinality(A(x)) /\ Cardinality(A(y)) # Cardinality(A(x))
  BY <1>2, <1>3, <1>4, FS_Subset
<1>7. FixedAhead[x] \in Nat /\ FixedAhead[y] \in Nat
  BY <1>1, FixedAheadType
<1> QED BY <1>5, <1>6, <1>7

(* Jumps left, of the stages reached and the jumps taken.                  *)
Left(reached, j) == Allowance(Cardinality(Stage \ reached)) + MaxBackwardJumps - j

LEMMA LeftType ==
  ASSUME NEW reached, NEW j \in Nat, j <= MaxBackwardJumps
  PROVE  Cardinality(Stage \ reached) \in Nat /\ Left(reached, j) \in Nat
<1>1. Stage \ reached \in SUBSET Stage
  OBVIOUS
<1>2. Cardinality(Stage \ reached) \in Nat
  BY <1>1, StageAssumption, FS_Subset, FS_CardinalityType
<1> DEFINE n == Cardinality(Stage \ reached)
<1> HIDE DEF n
<1>3. n \in Nat => Allowance(n) \in Nat
  BY AllowanceGrows
<1> QED BY <1>2, <1>3, BoundAssumption DEF Left, n

LEMMA LeftFalls ==
  ASSUME NEW reached, NEW more, reached \subseteq more, NEW j \in Nat, j <= MaxBackwardJumps
  PROVE  Left(more, j) <= Left(reached, j)
<1> DEFINE m == Cardinality(Stage \ more)
           n == Cardinality(Stage \ reached)
<1>1. Stage \ more \in SUBSET (Stage \ reached) /\ Stage \ reached \in SUBSET Stage
  OBVIOUS
<1>2. m \in Nat /\ n \in Nat /\ m <= n
  BY <1>1, LeftType, StageAssumption, FS_Subset
<1> HIDE DEF m, n
<1>3. Allowance(m) \in Nat /\ Allowance(n) \in Nat /\ Allowance(m) <= Allowance(n)
  BY <1>2, AllowanceGrows
<1> QED BY <1>3, BoundAssumption DEF Left, m, n

LEMMA LeftEscapes ==
  ASSUME NEW reached, NEW x \in Stage \ reached, NEW j \in Nat, j <= MaxBackwardJumps
  PROVE  Left(reached \cup {x}, 0) < Left(reached, j)
<1> DEFINE m == Cardinality(Stage \ (reached \cup {x}))
           n == Cardinality(Stage \ reached)
<1>1. Stage \ reached = (Stage \ (reached \cup {x})) \cup {x}
  OBVIOUS
<1>2. Stage \ (reached \cup {x}) \in SUBSET Stage
  OBVIOUS
<1>3. m \in Nat /\ n = m + 1
  BY <1>1, <1>2, LeftType, StageAssumption, FS_Subset, FS_AddElement
<1> HIDE DEF m, n
<1>4. Allowance(m) \in Nat /\ Allowance(n) = Allowance(m) + MaxBackwardJumps + 1
  BY <1>3, AllowanceGrows
<1> QED BY <1>4, BoundAssumption DEF Left, m, n

LEMMA JumpsLeftIs ==
  JumpsLeft = Left(Reached, jumps) /\ JumpsLeft' = Left(Reached', jumps')
BY DEF JumpsLeft, Left, Allowance

-----------------------------------------------------------------------------
(* What NearerTheEnd says of one step that leaves the call running.        *)
Nearer ==
  /\ JumpsLeft' \in Nat
  /\ \/ JumpsLeft' < JumpsLeft
     \/ JumpsLeft' = JumpsLeft /\ StagesLeft' < StagesLeft
     \/ /\ JumpsLeft' = JumpsLeft /\ StagesLeft' = StagesLeft
        /\ PhasesLeft' < PhasesLeft
     \/ /\ JumpsLeft' = JumpsLeft /\ StagesLeft' = StagesLeft
        /\ PhasesLeft' = PhasesLeft
        /\ UnitsLeft' \in Nat /\ UnitsLeft' < UnitsLeft

(* A step within a stage leaves the two outer counters alone.              *)
LEMMA WithinStage ==
  ASSUME VariantInv', pc # "guard", pc' # "guard", UNCHANGED <<at, visited, jumps>>
  PROVE  JumpsLeft' = JumpsLeft /\ StagesLeft' = StagesLeft /\ JumpsLeft' \in Nat
<1>1. Reached' = Reached
  BY DEF Reached
<1>2. JumpsLeft' = Left(Reached', jumps')
  BY JumpsLeftIs
<1>3. Left(Reached', jumps') = Left(Reached, jumps) /\ StagesLeft' = StagesLeft
  BY <1>1 DEF Left, StagesLeft, Allowance, FixedAhead, ReachesByFixed
<1>4. jumps \in Nat /\ jumps <= MaxBackwardJumps
  BY DEF VariantInv, TypeOK
<1> DEFINE reached == Reached
<1>5. Left(reached, jumps) \in Nat
  <2> HIDE DEF reached
  <2> QED BY <1>4, LeftType
<1> QED BY <1>2, <1>3, <1>5, JumpsLeftIs

LEMMA StepNearer ==
  ASSUME LoopsAreGuarded, VariantInv, VariantInv', Work, Running'
  PROVE  Nearer
<1>1. /\ at \in Stage /\ visited \in SUBSET Stage /\ unit \in Activation
      /\ jumps \in Nat /\ jumps <= MaxBackwardJumps
  BY DEF VariantInv, TypeOK
<1>2. /\ at' \in Stage /\ visited' \in SUBSET Stage /\ unit' \in Activation
      /\ jumps' \in Nat /\ jumps' <= MaxBackwardJumps
  BY DEF VariantInv, TypeOK
<1>3. ~Settle("error") /\ ~Settle("success") /\ ~Settle("thrown")
  BY DEF Settle, Running
<1>4. ~\E num, s, u : Halt(num, s, u)
  BY <1>3 DEF Halt
<1>5. CASE EnterSingle \/ EnterFanout \/ EnterIterate
  <2>1. /\ pc = "enter" /\ pc' \in {"session", "pull"}
        /\ UNCHANGED <<at, visited, jumps>>
    BY <1>5 DEF EnterSingle, EnterFanout, EnterIterate
  <2> QED BY <2>1, WithinStage DEF Nearer, PhasesLeft
<1>6. CASE PullUnit
  <2>1. /\ pc = "pull" /\ UNCHANGED <<at, visited, jumps>>
        /\ \/ pc' = "route"
           \/ /\ pc' = "session" /\ Len(unit.acc) < MaxIterations
              /\ unit' = [unit EXCEPT !.tag = IterateFn(at, unit.entry, unit.acc, epoch)]
    BY <1>4, <1>6 DEF PullUnit
  <2>2. CASE pc' = "route"
    BY <2>1, <2>2, WithinStage DEF Nearer, PhasesLeft
  <2>3. CASE /\ pc' = "session" /\ Len(unit.acc) < MaxIterations
             /\ unit' = [unit EXCEPT !.tag = IterateFn(at, unit.entry, unit.acc, epoch)]
    <3>1. unit'.todo = <<>> /\ unit'.acc = unit.acc
      BY <1>1, <2>1, <2>3 DEF Activation, VariantInv, UnderCap
    <3>2. /\ UnitsLeft = 2 * (MaxIterations - Len(unit.acc)) + 1
          /\ UnitsLeft' = 2 * (MaxIterations - Len(unit.acc))
      BY <2>1, <2>3, <3>1, BoundAssumption, <1>1 DEF UnitsLeft, InFanoutUnit, Activation
    <3> DEFINE n == Len(unit.acc)
    <3>3. n \in Nat /\ n < MaxIterations
      BY <1>1, <2>3 DEF Activation
    <3>4. UnitsLeft' \in Nat /\ UnitsLeft' < UnitsLeft
      <4> HIDE DEF n
      <4>1. UnitsLeft = 2 * (MaxIterations - n) + 1 /\ UnitsLeft' = 2 * (MaxIterations - n)
        BY <3>2 DEF n
      <4> QED BY <3>3, <4>1, BoundAssumption
    <3> QED BY <2>1, <2>3, <3>4, WithinStage DEF Nearer, PhasesLeft
  <2> QED BY <2>1, <2>2, <2>3
<1>7. CASE SessionCompletes
  <2>1. pc = "session" /\ UNCHANGED <<at, visited, jumps>> /\ AdvanceUnit(NextNumber)
    BY <1>7 DEF SessionCompletes
  <2>2. CASE pc' = "route"
    BY <2>1, <2>2, WithinStage DEF Nearer, PhasesLeft
  <2>3. CASE /\ InFanoutUnit /\ unit.done + 1 < Len(unit.todo) /\ pc' = "session"
             /\ unit' = [unit EXCEPT !.done = unit.done + 1, !.tag = unit.todo[unit.done + 2]]
    <3>1. unit'.todo = unit.todo /\ unit'.done = unit.done + 1
      BY <1>1, <2>3 DEF Activation
    <3>2. /\ UnitsLeft = Len(unit.todo) - unit.done
          /\ UnitsLeft' = Len(unit.todo) - (unit.done + 1)
      BY <2>1, <2>3, <3>1 DEF UnitsLeft, InFanoutUnit
    <3>3. Len(unit.todo) \in Nat /\ unit.done \in Nat
      BY <1>1 DEF Activation
    <3>4. UnitsLeft' \in Nat /\ UnitsLeft' < UnitsLeft
      BY <2>3, <3>2, <3>3
    <3> QED BY <2>1, <2>3, <3>4, WithinStage DEF Nearer, PhasesLeft
  <2>4. CASE /\ ~InFanoutUnit /\ InIterateUnit /\ pc' = "pull"
             /\ unit' = [unit EXCEPT !.acc = Append(unit.acc, NextNumber), !.tag = NoUnit]
    <3> DEFINE n == Len(unit.acc)
    <3>1. n \in Nat /\ n < MaxIterations /\ Len(unit'.acc) = n + 1
      BY <1>1, <2>1, <2>4 DEF Activation, VariantInv, UnderCap
    <3>2. UnitsLeft = 2 * (MaxIterations - n) /\ UnitsLeft' = 2 * (MaxIterations - Len(unit'.acc)) + 1
      BY <2>1, <2>4, <3>1, BoundAssumption DEF UnitsLeft
    <3>3. UnitsLeft' \in Nat /\ UnitsLeft' < UnitsLeft
      <4> HIDE DEF n
      <4> QED BY <3>1, <3>2, BoundAssumption
    <3> QED BY <2>1, <2>4, <3>3, WithinStage DEF Nearer, PhasesLeft
  <2> QED BY <2>1, <2>2, <2>3, <2>4 DEF AdvanceUnit
<1>8. CASE RouteNext
  <2>1. PICK next \in Edge[at].targets \ {Stop} :
          /\ pc = "route" /\ ~Edge[at].decision /\ pc' = "enter" /\ jumps' = jumps
          /\ visited' = visited \cup {at} /\ at' = next
    BY <1>8 DEF RouteNext, LeaveFor
  <2>2. FixedAhead[next] < FixedAhead[at]
    BY <1>1, <2>1, FixedAheadFalls
  <2>3. StagesLeft' < StagesLeft
    BY <2>1, <2>2 DEF StagesLeft, FixedAhead, ReachesByFixed
  <2> DEFINE here == visited \cup {at}
             next2 == visited \cup {at} \cup {next}
  <2>4. Reached = here /\ Reached' = next2 /\ here \subseteq next2
    BY <2>1 DEF Reached
  <2>5. JumpsLeft = Left(here, jumps) /\ JumpsLeft' = Left(next2, jumps)
    BY <2>1, <2>4, JumpsLeftIs
  <2> HIDE DEF here, next2
  <2>6. Left(next2, jumps) <= Left(here, jumps) /\ Left(next2, jumps) \in Nat
        /\ Left(here, jumps) \in Nat
    BY <1>1, <2>4, LeftFalls, LeftType
  <2> QED BY <2>3, <2>5, <2>6 DEF Nearer
<1>9. CASE RouteDecision
  <2>1. /\ pc = "route" /\ pc' = "guard" /\ jumps' = jumps /\ visited' = visited \cup {at}
    BY <1>9 DEF RouteDecision, LeaveFor
  <2> DEFINE here == visited \cup {at}
  <2>2. Reached = here /\ Reached' = here
    BY <2>1 DEF Reached
  <2>3. JumpsLeft = Left(here, jumps) /\ JumpsLeft' = Left(here, jumps)
    BY <2>1, <2>2, JumpsLeftIs
  <2> HIDE DEF here
  <2>4. Left(here, jumps) \in Nat
    BY <1>1, LeftType
  <2>5. StagesLeft' < StagesLeft
    BY <1>1, <2>1, FixedAheadType DEF StagesLeft
  <2> QED BY <2>3, <2>4, <2>5 DEF Nearer
<1>10. CASE EscapeLoop
  <2>1. /\ pc = "guard" /\ pc' = "enter" /\ at \notin visited
        /\ jumps' = 0 /\ UNCHANGED <<at, visited>>
    BY <1>10 DEF EscapeLoop
  <2>2. Reached = visited /\ Reached' = visited \cup {at}
    BY <2>1 DEF Reached
  <2>3. JumpsLeft = Left(visited, jumps) /\ JumpsLeft' = Left(visited \cup {at}, 0)
    BY <2>1, <2>2, JumpsLeftIs
  <2>4. Left(visited \cup {at}, 0) \in Nat
    <3> DEFINE here == visited \cup {at}
    <3> HIDE DEF here
    <3>1. 0 \in Nat /\ 0 <= MaxBackwardJumps
      BY BoundAssumption
    <3>2. Left(here, 0) \in Nat
      BY <3>1, LeftType
    <3> QED BY <3>2 DEF here
  <2>5. Left(visited \cup {at}, 0) < Left(visited, jumps)
    BY <1>1, <2>1, LeftEscapes
  <2> QED BY <2>3, <2>4, <2>5 DEF Nearer
<1>11. CASE JumpBack
  <2>1. /\ pc = "guard" /\ pc' = "enter" /\ at \in visited
        /\ jumps' = jumps + 1 /\ UNCHANGED <<at, visited>>
    BY <1>4, <1>11 DEF JumpBack
  <2>2. Reached = visited /\ Reached' = visited
    BY <2>1 DEF Reached
  <2>3. JumpsLeft = Left(visited, jumps) /\ JumpsLeft' = Left(visited, jumps')
    BY <2>1, <2>2, JumpsLeftIs
  <2> DEFINE n == Left(visited, 0)
  <2>4. n \in Nat /\ Left(visited, jumps) = n - jumps /\ Left(visited, jumps') = n - jumps'
    <3> DEFINE a == Allowance(Cardinality(Stage \ visited))
    <3>1. a \in Nat
      <4> DEFINE m == Cardinality(Stage \ visited)
      <4>1. m \in Nat
        BY BoundAssumption, LeftType
      <4> HIDE DEF m
      <4> QED BY <4>1, AllowanceGrows DEF m
    <3>2. n = a + MaxBackwardJumps - 0 /\ Left(visited, jumps) = a + MaxBackwardJumps - jumps
          /\ Left(visited, jumps') = a + MaxBackwardJumps - jumps'
      BY DEF Left
    <3> HIDE DEF a, n
    <3> QED BY <1>1, <1>2, <3>1, <3>2, BoundAssumption
  <2> HIDE DEF n
  <2>5. Left(visited, jumps') \in Nat
    BY <1>2, LeftType
  <2> QED BY <1>1, <2>1, <2>3, <2>4, <2>5 DEF Nearer
<1>12. ~(\/ HaltAtSeam \/ SessionAuditFails \/ SessionHalts \/ SessionThrows
         \/ RouteStop \/ RouteError)
  BY <1>3, <1>4 DEF HaltAtSeam, SessionAuditFails, SessionHalts, SessionThrows,
     RouteStop, RouteError
<1> QED BY <1>5, <1>6, <1>7, <1>8, <1>9, <1>10, <1>11, <1>12 DEF Work

(* However appends fail or tear, wherever the process is killed and the    *)
(* run resumed, each step of the runner settles the call or takes from     *)
(* what is left of it: by the budget of checkBackwardJumpGuard and the cap *)
(* of runIterate, with no bound on the workflow but that loops are guarded.*)
THEOREM EveryStepIsNearerTheEnd ==
  ASSUME LoopsAreGuarded
  PROVE  Spec => NearerTheEnd
<1>1. Init => VariantInv
  BY InitType, BoundAssumption DEF Init, VariantInv, UnderCap
<1>2. VariantInv /\ [Next]_vars => VariantInv'
  BY StepVariant
<1>3. VariantInv /\ VariantInv' /\ [Next]_vars =>
        [Work /\ Running' => Nearer]_vars
  BY StepNearer
<1> QED BY <1>1, <1>2, <1>3, PTL DEF Spec, NearerTheEnd, Nearer

=============================================================================
