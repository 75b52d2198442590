-------------------------- MODULE WorkflowRunProofs --------------------------
(***************************************************************************)
(* Theorems about a workflow run, for every workflow, every bound and      *)
(* every behaviour of the generators, appends cut short included: the fold *)
(* over a trail of any length, the types of the run, and the numbers that  *)
(* rows carry and resumes allocate.                                        *)
(***************************************************************************)
EXTENDS RunProperties, SequenceTheorems, TLAPS

-----------------------------------------------------------------------------
(* The fold.  ReconstructState is defined by recursion on the number of    *)
(* lines; these lemmas turn it into the two equations an invariant proof   *)
(* can use: what it answers for the empty file, and what one more line     *)
(* changes.                                                                *)

(* A view read off the lines ls is well-formed and goes on from a number   *)
(* that is no smaller than any number among them.                          *)
Sound(ls, v) ==
  v \in View /\ \A i \in 1..Len(ls) : IsStageRow(ls[i]) => ls[i].num <= v.st.allocated

Replay == INSTANCE SequenceFold WITH Base <- EmptyView, Step <- FoldLine, Holds <- Sound

LEMMA ReconstructIsFold ==
  ASSUME NEW ls
  PROVE  ReconstructState(ls) = Replay!Folded(ls)
BY DEF ReconstructState, Replay!Folded

(* The empty file.                                                         *)
LEMMA ReconstructEmpty == ReconstructState(<<>>) = EmptyView
BY ReconstructIsFold, Replay!FoldedEmpty

(* One more line.                                                          *)
LEMMA ReconstructAppend ==
  ASSUME NEW X, NEW ls \in Seq(X), NEW line \in X
  PROVE  ReconstructState(Append(ls, line)) = FoldLine(ReconstructState(ls), line)
BY ReconstructIsFold, Replay!FoldedAppend

-----------------------------------------------------------------------------
(* Types *)

LEMMA StageRowsType ==
  ASSUME NEW line \in Line, IsStageRow(line)
  PROVE  line \in StageRows
BY DEF Line, IsStageRow, RoutingRows, Header, Garbled

LEMMA FreshStateType == FreshState \in RunState
BY DEF FreshState, RunState

LEMMA EmptyViewType == EmptyView \in View
BY FreshStateType DEF EmptyView, View, NoGeneration, Generation

LEMMA ApplyCompletedStageType ==
  ASSUME NEW s \in RunState, NEW def \in StageDef, NEW num \in Nat, NEW out
  PROVE  ApplyCompletedStage(s, def, num, out) \in RunState
<1>1. s.named[def.publish] \in Seq(Nat)
  BY DEF RunState, StageDef
<1>2. Append(s.named[def.publish], num) \in Seq(Nat)
  BY <1>1
<1> QED BY <1>2 DEF ApplyCompletedStage, RunState, StageDef

LEMMA CountedType ==
  ASSUME NEW v \in View, NEW row \in StageRows
  PROVE  Counted(v, row) \in View
<1>1. CountedState(v.st, row) \in RunState
  <2>1. v.st \in RunState /\ row.num \in Nat
    BY DEF View, StageRows
  <2>2. /\ Larger(v.st.allocated, row.num) \in Nat
        /\ (IF row.status = "completed" THEN v.st.completed + 1 ELSE v.st.completed) \in Nat
    BY <2>1 DEF RunState, Larger
  <2> QED BY <2>1, <2>2 DEF CountedState, RunState
<1> QED BY <1>1 DEF Counted, View, StageRows

LEMMA ProducedType ==
  ASSUME NEW s \in RunState, NEW row \in StageRows
  PROVE  Produced(s, row) \in RunState
<1>1. [s EXCEPT !.output = row.num] \in RunState
  BY DEF RunState, StageRows
<1>2. Def[row.stage] \in StageDef /\ row.num \in Nat
  BY DefAssumption DEF StageRows
<1> QED BY <1>1, <1>2, ApplyCompletedStageType DEF Produced

LEMMA GenerationOfType ==
  ASSUME NEW v \in View, NEW row \in StageRows
  PROVE  GenerationOf(v, row) \in Generation
BY DEF GenerationOf, View, StageRows, Generation, RunState

LEMMA FoldKnownStageType ==
  ASSUME NEW v \in View, NEW row \in StageRows
  PROVE  FoldKnownStage(v, row) \in View
<1> DEFINE c == [Counted(v, row) EXCEPT !.gen = NoGeneration]
<1>1. c \in View
  <2>1. NoGeneration \in Generation
    BY DEF NoGeneration, Generation
  <2> QED BY <2>1, CountedType DEF View
<1>2. Produced(c.st, row) \in RunState
  BY <1>1, ProducedType DEF View
<1>3. [c EXCEPT !.st = Produced(@, row)] \in View
  BY <1>1, <1>2 DEF View
<1> QED BY <1>1, <1>3 DEF FoldKnownStage

LEMMA FoldFanoutUnitType ==
  ASSUME NEW v \in View, NEW row \in StageRows, row.unit \in Tag
  PROVE  FoldFanoutUnit(v, row) \in View
<1> DEFINE g == GenerationOf(v, row)
<1>1. g \in Generation
  BY GenerationOfType
<1>2. [g EXCEPT !.units = Append(@, row.unit)] \in Generation
  <2>1. Append(g.units, row.unit) \in Seq(Tag)
    BY <1>1 DEF Generation
  <2> QED BY <1>1, <2>1 DEF Generation
<1> QED BY <1>1, <1>2, CountedType DEF FoldFanoutUnit, View

LEMMA FoldIterateUnitType ==
  ASSUME NEW v \in View, NEW row \in StageRows
  PROVE  FoldIterateUnit(v, row) \in View
<1> DEFINE g == GenerationOf(v, row)
           c == [Counted(v, row) EXCEPT !.gen = g]
           d == [c EXCEPT !.st = Produced(@, row), !.gen.acc = Append(@, row.num)]
<1>1. g \in Generation
  BY GenerationOfType
<1>2. c \in View /\ c.gen = g
  BY <1>1, CountedType DEF View
<1>3. Produced(c.st, row) \in RunState
  BY <1>2, ProducedType DEF View
<1>4. Append(g.acc, row.num) \in Seq(Nat)
  BY <1>1 DEF Generation, StageRows
<1>5. d \in View
  <2> HIDE DEF c, g
  <2>1. [c.gen EXCEPT !.acc = Append(@, row.num)] \in Generation
    BY <1>1, <1>2, <1>4 DEF Generation
  <2> QED BY <1>2, <1>3, <2>1 DEF View
<1> QED BY <1>2, <1>5 DEF FoldIterateUnit

LEMMA FoldLineType ==
  ASSUME NEW v \in View, NEW line \in Line
  PROVE  FoldLine(v, line) \in View
<1>1. CASE ~IsStageRow(line)
  BY <1>1 DEF FoldLine
<1>2. CASE IsStageRow(line)
  <2>1. line \in StageRows
    BY <1>2, StageRowsType
  <2>2. IsDecorated(line) => line.unit \in Tag
    BY <2>1 DEF IsDecorated, StageRows
  <2> QED BY <1>2, <2>1, <2>2, FoldKnownStageType, FoldFanoutUnitType,
             FoldIterateUnitType DEF FoldLine
<1> QED BY <1>1, <1>2

-----------------------------------------------------------------------------
(* What one row does to the counters, in every arm of the fold             *)

LEMMA ProducedKeeps ==
  ASSUME NEW s \in RunState, NEW row \in StageRows
  PROVE  /\ Produced(s, row).allocated = s.allocated
         /\ Produced(s, row).completed = s.completed
BY DEF Produced, ApplyCompletedStage, RunState

LEMMA CountedEffect ==
  ASSUME NEW v \in View, NEW row \in StageRows
  PROVE  LET c == Counted(v, row)
         IN  /\ c.visited = v.visited \cup {row.stage}
             /\ c.last = row
             /\ c.gen = v.gen
             /\ c.st \in RunState
             /\ c.st.allocated = Larger(v.st.allocated, row.num)
             /\ c.st.completed = IF row.status = "completed" THEN v.st.completed + 1
                                ELSE v.st.completed
             /\ c.st = CountedState(v.st, row)
<1>1. v.st \in RunState
  BY DEF View
<1>2. Counted(v, row).st = CountedState(v.st, row)
  BY DEF Counted, View
<1>3. /\ CountedState(v.st, row).allocated = Larger(v.st.allocated, row.num)
      /\ CountedState(v.st, row).completed =
           IF row.status = "completed" THEN v.st.completed + 1 ELSE v.st.completed
  BY <1>1 DEF CountedState, RunState
<1>4. Counted(v, row).st \in RunState
  BY CountedType DEF View
<1> QED BY <1>2, <1>3, <1>4 DEF Counted, View

LEMMA FoldLineEffect ==
  ASSUME NEW v \in View, NEW line \in StageRows
  PROVE  LET w == FoldLine(v, line)
         IN  /\ w.visited = v.visited \cup {line.stage}
             /\ w.last = line
             /\ w.st.allocated = Larger(v.st.allocated, line.num)
             /\ w.st.completed = IF line.status = "completed" THEN v.st.completed + 1
                                ELSE v.st.completed
<1> DEFINE c == Counted(v, line)
<1>1. /\ c \in View /\ c.st \in RunState
      /\ c.visited = v.visited \cup {line.stage} /\ c.last = line
      /\ c.st.allocated = Larger(v.st.allocated, line.num)
      /\ c.st.completed = IF line.status = "completed" THEN v.st.completed + 1
                         ELSE v.st.completed
  BY CountedEffect, CountedType
<1>2. /\ Produced(c.st, line).allocated = c.st.allocated
      /\ Produced(c.st, line).completed = c.st.completed
  BY <1>1, ProducedKeeps
<1>3. IsStageRow(line)
  BY DEF IsStageRow, StageRows
<1> HIDE DEF c
<1>4. CASE ~IsDecorated(line)
  <2>1. FoldLine(v, line) = FoldKnownStage(v, line)
    BY <1>3, <1>4 DEF FoldLine
  <2>2. FoldKnownStage(v, line) =
          IF line.status = "completed" /\ line.out # "none"
          THEN [[c EXCEPT !.gen = NoGeneration] EXCEPT !.st = Produced(@, line)]
          ELSE [c EXCEPT !.gen = NoGeneration]
    BY DEF FoldKnownStage, c
  <2> QED BY <1>1, <1>2, <2>1, <2>2 DEF View
<1>5. CASE IsDecorated(line) /\ Def[line.stage].shape = "fanout"
  <2>1. FoldLine(v, line) = FoldFanoutUnit(v, line)
    BY <1>3, <1>5 DEF FoldLine
  <2> QED BY <1>1, <2>1 DEF View, FoldFanoutUnit, c
<1>6. CASE IsDecorated(line) /\ Def[line.stage].shape # "fanout"
  <2> DEFINE d == [c EXCEPT !.gen = GenerationOf(v, line)]
  <2>1. FoldLine(v, line) = FoldIterateUnit(v, line)
    BY <1>3, <1>6 DEF FoldLine
  <2>2. FoldIterateUnit(v, line) =
          IF line.status = "completed" /\ line.out # "none"
          THEN [d EXCEPT !.st = Produced(@, line), !.gen.acc = Append(@, line.num)]
          ELSE d
    BY DEF FoldIterateUnit, c
  <2>3. d.st = c.st /\ d.visited = c.visited /\ d.last = c.last
    BY <1>1 DEF View
  <2>4. /\ [d EXCEPT !.st = Produced(@, line), !.gen.acc = Append(@, line.num)].st
             = Produced(d.st, line)
        /\ [d EXCEPT !.st = Produced(@, line), !.gen.acc = Append(@, line.num)].visited
             = d.visited
        /\ [d EXCEPT !.st = Produced(@, line), !.gen.acc = Append(@, line.num)].last
             = d.last
    BY <1>1 DEF View
  <2> HIDE DEF d
  <2> QED BY <1>1, <1>2, <2>1, <2>2, <2>3, <2>4
<1> QED BY <1>4, <1>5, <1>6

-----------------------------------------------------------------------------
(* One more line keeps the view sound.                                     *)
LEMMA SoundStep ==
  ASSUME NEW ls \in Seq(Line), NEW line \in Line, NEW v, Sound(ls, v)
  PROVE  Sound(Append(ls, line), FoldLine(v, line))
<1> DEFINE w == FoldLine(v, line)
<1>1. v \in View /\ w \in View
  BY FoldLineType DEF Sound
<1>2. v.st.allocated \in Nat /\ w.st.allocated \in Nat
  BY <1>1 DEF View, RunState
<1>3. v.st.allocated <= w.st.allocated /\ (IsStageRow(line) => line.num <= w.st.allocated)
  <2>1. CASE IsStageRow(line)
    <3>1. line \in StageRows /\ line.num \in Nat
      BY <2>1, StageRowsType DEF StageRows
    <3>2. w.st.allocated = Larger(v.st.allocated, line.num)
      BY <1>1, <3>1, FoldLineEffect
    <3> HIDE DEF w
    <3> QED BY <1>2, <3>1, <3>2 DEF Larger
  <2>2. CASE ~IsStageRow(line)
    BY <1>2, <2>2 DEF FoldLine
  <2> QED BY <2>1, <2>2
<1> HIDE DEF w
<1>4. ASSUME NEW i \in 1..Len(Append(ls, line)), IsStageRow(Append(ls, line)[i])
      PROVE  Append(ls, line)[i].num <= w.st.allocated
  <2>1. CASE i = Len(ls) + 1
    BY <1>3, <1>4, <2>1
  <2>2. CASE i # Len(ls) + 1
    <3>1. i \in 1..Len(ls) /\ Append(ls, line)[i] = ls[i] /\ ls[i] \in Line
      BY <2>2
    <3>2. ls[i].num \in Nat /\ ls[i].num <= v.st.allocated
      BY <1>4, <3>1, StageRowsType DEF Sound, StageRows
    <3> QED BY <1>2, <1>3, <3>1, <3>2
  <2> QED BY <2>1, <2>2
<1>5. Sound(Append(ls, line), w)
  BY <1>1, <1>4 DEF Sound
<1> QED BY <1>5 DEF w

(* The fold yields a well-formed view of any file, and the number it goes  *)
(* on from is no smaller than any number in the file.                      *)
LEMMA ReconstructType ==
  ASSUME NEW ls \in Seq(Line)
  PROVE  /\ ReconstructState(ls) \in View
         /\ \A i \in 1..Len(ls) :
              IsStageRow(ls[i]) => ls[i].num <= ReconstructState(ls).st.allocated
<1>1. Sound(<<>>, EmptyView)
  BY EmptyViewType DEF Sound
<1>2. \A rs \in Seq(Line), line \in Line :
        Sound(rs, Replay!Folded(rs)) =>
          Sound(Append(rs, line), FoldLine(Replay!Folded(rs), line))
  BY SoundStep
<1>3. \A rs \in Seq(Line) : Sound(rs, Replay!Folded(rs))
  BY <1>1, <1>2, Replay!FoldedInduction
<1> QED BY <1>3, ReconstructIsFold DEF Sound

-----------------------------------------------------------------------------
(* The run *)

TrailType == lines \in Seq(Line) /\ open \in BOOLEAN /\ faults \in Nat

RunType ==
  /\ pc \in Phase /\ at \in Stage /\ st \in RunState
  /\ visited \in SUBSET Stage /\ jumps \in Nat /\ unit \in Activation
  /\ outcome \in {"none", "success", "error", "thrown"}

LEMMA SingleType == Single \in Activation
BY StageAssumption DEF Single, Activation

LEMMA ReconType ==
  ASSUME TrailType
  PROVE  Recon \in View
BY ReconstructType DEF TrailType, Recon

-----------------------------------------------------------------------------
(* The file *)

LEMMA StageRowType ==
  ASSUME NEW num \in Nat \ {0}, NEW s \in Stage, NEW u \in Tag \cup {NoUnit},
         NEW status \in Status, NEW out \in OutputShape
  PROVE  StageRow(num, s, u, status, out) \in StageRows
BY DEF StageRow, StageRows

LEMMA GluedType ==
  ASSUME TrailType
  PROVE  /\ Glued \in Seq(Line) /\ Len(Glued) = Len(lines)
         /\ \A i \in 1..Len(lines) :
              Glued[i] = IF i = Len(lines) THEN Garbled ELSE lines[i]
<1>1. Garbled \in Line
  BY DEF Line
<1>2. lines \in Seq(Line) /\ Len(lines) \in Nat
  BY DEF TrailType
<1>3. CASE Len(lines) # 0
  BY <1>1, <1>2, <1>3, ExceptSeq DEF Glued
<1>4. CASE Len(lines) = 0
  <2>1. lines = <<>>
    BY <1>2, <1>4
  <2>2. Glued = <<>>
    BY <2>1 DEF Glued
  <2> QED BY <2>1, <2>2
<1> QED BY <1>3, <1>4

LEMMA LandedType ==
  ASSUME TrailType, NEW line \in Line, Landed(line)
  PROVE  TrailType'
<1>1. Append(lines, line) \in Seq(Line) /\ Glued \in Seq(Line)
  BY GluedType DEF TrailType
<1> QED BY <1>1 DEF TrailType, Landed

LEMMA TornType ==
  ASSUME TrailType, NEW line \in Line, Torn(line)
  PROVE  lines' \in Seq(Line) /\ open' \in BOOLEAN
<1>1. Glued \in Seq(Line)
  BY GluedType
<1>2. ASSUME NEW l \in {line, Garbled} PROVE Append(lines, l) \in Seq(Line)
  <2>1. l \in Line
    BY DEF Line
  <2> QED BY <2>1 DEF TrailType
<1>3. lines' \in Seq(Line)
  <2>1. CASE open
    BY <1>1, <2>1 DEF Torn
  <2>2. CASE ~open
    <3>1. PICK l \in {line, Garbled} : lines' = Append(lines, l)
      BY <2>2 DEF Torn
    <3> QED BY <1>2, <3>1
  <2> QED BY <2>1, <2>2
<1> QED BY <1>3 DEF Torn

LEMMA BestEffortType ==
  ASSUME TrailType, NEW line \in Line, BestEffort(line)
  PROVE  TrailType'
<1>1. CASE Landed(line)
  BY <1>1, LandedType
<1>2. CASE AppendFails(line)
  <2>1. faults' \in Nat
    BY <1>2 DEF AppendFails, TrailType
  <2>2. CASE UNCHANGED <<lines, open>>
    BY <2>1, <2>2 DEF TrailType
  <2>3. CASE Torn(line)
    BY <2>1, <2>3, TornType DEF TrailType
  <2> QED BY <1>2, <2>2, <2>3 DEF AppendFails
<1> QED BY <1>1, <1>2 DEF BestEffort

-----------------------------------------------------------------------------
(* Settling *)

LEMMA ReleaseType ==
  ASSUME NEW result \in {"none", "success", "error", "thrown"},
         Release(result), pc' \in Phase
  PROVE  RunType'
BY SingleType, FreshStateType, StageAssumption DEF Release, RunType

LEMMA SettleType ==
  ASSUME NEW result \in {"success", "error", "thrown"}, Settle(result)
  PROVE  RunType'
BY ReleaseType DEF Settle, Phase

LEMMA HaltType ==
  ASSUME TrailType, NEW num \in Nat \ {0}, NEW s \in Stage,
         NEW u \in Tag \cup {NoUnit}, Halt(num, s, u)
  PROVE  TrailType' /\ RunType'
<1>1. StageRow(num, s, u, "failed", "none") \in Line
  BY StageRowType DEF Status, OutputShape, Line
<1> QED BY <1>1, BestEffortType, SettleType DEF Halt

LEMMA NextNumberType ==
  ASSUME RunType
  PROVE  NextNumber \in Nat \ {0}
BY DEF RunType, NextNumber, RunState

LEMMA UnitTagType ==
  ASSUME RunType
  PROVE  /\ unit.tag \in Tag \cup {NoUnit} /\ NoUnit \in Tag \cup {NoUnit}
         /\ unit.todo \in Seq(Tag) /\ unit.done \in Nat /\ unit.acc \in Seq(Nat)
BY DEF RunType, Activation

LEMMA OutputsOfType ==
  ASSUME NEW s, NEW u, NEW out \in OutputsOf(s, u)
  PROVE  out \in OutputShape
BY DEF OutputsOf, OutputShape

LEMMA CompletedRowType ==
  ASSUME RunType, NEW out \in OutputsOf(at, unit.tag)
  PROVE  StageRow(NextNumber, at, unit.tag, "completed", out) \in StageRows
BY NextNumberType, UnitTagType, OutputsOfType, StageRowType DEF RunType, Status

LEMMA TargetType ==
  ASSUME NEW s \in Stage, NEW t \in Edge[s].targets \ {Stop}
  PROVE  t \in Stage
BY EdgeAssumption DEF EdgeDef

LEMMA CommittedType ==
  ASSUME RunType, NEW num \in Nat, NEW out
  PROVE  Committed(num, out) \in RunState
<1> DEFINE c == [st EXCEPT !.allocated = num, !.completed = @ + 1]
           d == [c EXCEPT !.output = num]
<1>1. c \in RunState /\ d \in RunState
  <2>1. st \in RunState /\ st.completed + 1 \in Nat
    BY DEF RunType, RunState
  <2>2. c \in RunState
    BY <2>1 DEF RunState
  <2> HIDE DEF c
  <2> QED BY <2>2 DEF RunState
<1>2. Def[at] \in StageDef
  BY DefAssumption DEF RunType
<1>3. Committed(num, out) = IF out = "none" THEN c
                            ELSE ApplyCompletedStage(d, Def[at], num, out)
  BY DEF Committed
<1> HIDE DEF c, d
<1> QED BY <1>1, <1>2, <1>3, ApplyCompletedStageType

LEMMA CommittedCounts ==
  ASSUME RunType, NEW num \in Nat, NEW out
  PROVE  /\ Committed(num, out).allocated = num
         /\ Committed(num, out).completed = st.completed + 1
BY DEF Committed, ApplyCompletedStage, RunType, RunState

LEMMA AdvanceUnitType ==
  ASSUME RunType, NEW num \in Nat, AdvanceUnit(num)
  PROVE  unit' \in Activation /\ pc' \in Phase
<1>1. unit \in Activation /\ unit.todo \in Seq(Tag) /\ unit.done + 1 \in Nat
      /\ Append(unit.acc, num) \in Seq(Nat) /\ Len(unit.todo) \in Nat
  <2>1. unit.todo \in Seq(Tag) /\ unit.done \in Nat /\ unit.acc \in Seq(Nat)
    BY DEF RunType, Activation
  <2> QED BY <2>1 DEF RunType
<1>2. ASSUME NEW n \in Nat, NEW tag \in Tag \cup {NoUnit}
      PROVE  [unit EXCEPT !.done = n, !.tag = tag] \in Activation
  BY <1>1 DEF Activation
<1>3. ASSUME NEW acc \in Seq(Nat)
      PROVE  [unit EXCEPT !.acc = acc, !.tag = NoUnit] \in Activation
  BY <1>1 DEF Activation
<1>4. CASE InFanoutUnit /\ unit.done + 1 < Len(unit.todo)
  <2>1. unit.done + 2 \in 1..Len(unit.todo)
    BY <1>1, <1>4, UnitTagType
  <2>2. unit.todo[unit.done + 2] \in Tag
    BY <1>1, <2>1
  <2>3. /\ pc' = "session"
        /\ unit' = [unit EXCEPT !.done = unit.done + 1, !.tag = unit.todo[unit.done + 2]]
    BY <1>4 DEF AdvanceUnit
  <2> QED BY <1>1, <1>2, <2>2, <2>3 DEF Phase
<1>5. CASE InFanoutUnit /\ ~(unit.done + 1 < Len(unit.todo))
  <2>1. pc' = "route" /\ unit' = [unit EXCEPT !.done = unit.done + 1, !.tag = NoUnit]
    BY <1>5 DEF AdvanceUnit
  <2> QED BY <1>1, <1>2, <2>1 DEF Phase
<1>6. CASE ~InFanoutUnit /\ InIterateUnit
  <2>1. pc' = "pull" /\ unit' = [unit EXCEPT !.acc = Append(unit.acc, num), !.tag = NoUnit]
    BY <1>6 DEF AdvanceUnit
  <2> QED BY <1>1, <1>3, <2>1 DEF Phase
<1>7. CASE ~InFanoutUnit /\ ~InIterateUnit
  BY <1>1, <1>7 DEF AdvanceUnit, Phase
<1> QED BY <1>4, <1>5, <1>6, <1>7

-----------------------------------------------------------------------------
(* Resuming *)

(* The last row of a well-formed view, when there is one.                  *)
LEMMA LastRowType ==
  ASSUME NEW v \in View, v.last # NoRow
  PROVE  /\ v.last \in StageRows /\ v.last.stage \in Stage
         /\ v.st \in RunState /\ v.visited \in SUBSET Stage
         /\ v.st.allocated + 1 \in Nat \ {0}
         /\ v.gen.units \in Seq(Tag) /\ v.gen.entry \in Nat /\ v.gen.acc \in Seq(Nat)
BY DEF View, StageRows, RunState, Generation

LEMMA ReenterType ==
  ASSUME TrailType, NEW v \in View, v.last # NoRow, NEW phase \in Phase,
         NEW activation \in Activation, Reenter(v, phase, activation)
  PROVE  TrailType' /\ RunType'
BY LastRowType DEF Reenter, TrailType, RunType, trailVars

LEMMA ResumeFanoutType ==
  ASSUME TrailType, NEW v \in View, v.last # NoRow, ResumeFanout(v)
  PROVE  TrailType' /\ RunType'
<1> DEFINE units == FanoutFn(v.last.stage, v.st.primary, epoch)
           done == Len(v.gen.units)
           stage == [Single EXCEPT !.todo = units, !.done = done, !.caught = FALSE]
<1>1. done \in Nat /\ units \in Seq(Tag)
  BY LastRowType DEF ResumeFanout
<1>2. stage \in Activation
  BY <1>1, SingleType DEF Activation
<1>3. CASE RefuseDrift(v)
  BY <1>3, LastRowType, HaltType DEF RefuseDrift
<1>4. CASE Reenter(v, "route", stage)
  BY <1>2, <1>4, ReenterType DEF Phase
<1>5. CASE done < Len(units)
           /\ Reenter(v, "session", [stage EXCEPT !.tag = units[done + 1]])
  <2>1. units[done + 1] \in Tag
    BY <1>1, <1>5
  <2>2. [stage EXCEPT !.tag = units[done + 1]] \in Activation
    BY <1>2, <2>1 DEF Activation
  <2> QED BY <1>5, <2>2, ReenterType DEF Phase
<1> QED BY <1>3, <1>4, <1>5 DEF ResumeFanout

LEMMA ResumeIterateType ==
  ASSUME TrailType, NEW v \in View, v.last # NoRow, ResumeIterate(v)
  PROVE  TrailType' /\ RunType'
<1> DEFINE stage == [Single EXCEPT !.entry = v.gen.entry, !.acc = v.gen.acc,
                                   !.caught = FALSE]
<1>1. stage \in Activation
  BY LastRowType, SingleType DEF Activation
<1>2. CASE RefuseDrift(v)
  BY <1>2, LastRowType, HaltType DEF RefuseDrift
<1>3. CASE Reenter(v, "route", stage)
  BY <1>1, <1>3, ReenterType DEF Phase
<1>4. CASE Reenter(v, "pull", stage)
  BY <1>1, <1>4, ReenterType DEF Phase
<1> QED BY <1>2, <1>3, <1>4 DEF ResumeIterate

LEMMA ResumeType ==
  ASSUME TrailType, Resume
  PROVE  TrailType' /\ RunType'
<1>1. Recon \in View /\ Recon.last # NoRow
  BY ReconType DEF Resume
<1>2. CASE ResumeFanout(Recon)
  BY <1>1, <1>2, ResumeFanoutType
<1>3. CASE ResumeIterate(Recon)
  BY <1>1, <1>3, ResumeIterateType
<1>4. CASE UNCHANGED trailVars /\ Settle("thrown")
  BY <1>4, SettleType DEF TrailType, trailVars
<1>5. CASE ResumeSingle(Recon)
  BY <1>1, <1>5, ReenterType, SingleType DEF ResumeSingle, Phase
<1> QED BY <1>2, <1>3, <1>4, <1>5 DEF Resume, ResumeUnitStage

-----------------------------------------------------------------------------
(* Type correctness: the record of a run is well-formed on disk and in     *)
(* memory whatever is torn, dropped, killed or resumed.                    *)

LEMMA InitType == Init => TypeOK
<1> SUFFICES ASSUME Init PROVE TypeOK
  OBVIOUS
<1>1. TrailType
  <2>1. <<>> \in Seq(Line)
    OBVIOUS
  <2> QED BY <2>1 DEF Init, TrailType
<1>2. st \in RunState /\ unit \in Activation /\ at \in Stage
  BY SingleType, FreshStateType, StageAssumption DEF Init
<1>3. pc \in Phase /\ visited \in SUBSET Stage /\ jumps \in Nat /\ outcome = "none"
      /\ epoch \in Epoch /\ resumes \in Nat /\ drifts \in Nat
  BY DEF Init, Phase
<1> QED BY <1>1, <1>2, <1>3 DEF TypeOK, TrailType

(* One step of the runner, per action.                                     *)

LEMMA PullUnitType ==
  ASSUME TypeOK, PullUnit
  PROVE  TrailType' /\ RunType'
<1> DEFINE next == IterateFn(at, unit.entry, unit.acc, epoch)
<1>1. TrailType /\ RunType
  BY DEF TypeOK, TrailType, RunType
<1>2. CASE next = NoUnit /\ pc' = "route" /\ UNCHANGED <<trailVars, at, st, visited, jumps, unit, outcome>>
  BY <1>1, <1>2 DEF TrailType, RunType, trailVars, Phase
<1>3. CASE /\ next \in Tag /\ pc' = "session" /\ unit' = [unit EXCEPT !.tag = next]
           /\ UNCHANGED <<trailVars, at, st, visited, jumps, outcome>>
  <2>1. [unit EXCEPT !.tag = next] \in Activation
    BY <1>1, <1>3 DEF RunType, Activation
  <2> QED BY <1>1, <1>3, <2>1 DEF TrailType, RunType, trailVars, Phase
<1>4. CASE Halt(NextNumber, at, NoUnit)
  BY <1>1, <1>4, HaltType, NextNumberType DEF RunType
<1> QED BY <1>2, <1>3, <1>4 DEF PullUnit

LEMMA EnterType ==
  ASSUME TypeOK, EnterSingle \/ EnterFanout \/ EnterIterate
  PROVE  TrailType' /\ RunType'
<1>1. TrailType /\ RunType
  BY DEF TypeOK, TrailType, RunType
<1>2. pc' \in Phase /\ UNCHANGED <<trailVars, at, st, visited, jumps, outcome>>
  BY DEF EnterSingle, EnterFanout, EnterIterate, Phase
<1>4. CASE EnterFanout
  <2> DEFINE units == FanoutFn(at, st.primary, epoch)
  <2>1. units \in Seq(Tag) /\ units # <<>> /\ unit' = [Single EXCEPT !.todo = units, !.tag = units[1]]
    BY <1>4 DEF EnterFanout
  <2>2. units[1] \in Tag
    BY <2>1
  <2> HIDE DEF units
  <2>3. [Single EXCEPT !.todo = units, !.tag = units[1]] \in Activation
    BY <2>1, <2>2, SingleType DEF Activation
  <2> QED BY <1>1, <1>2, <2>1, <2>3 DEF TrailType, RunType, trailVars
<1>5. CASE EnterIterate
  <2>1. st.primary \in Nat
    BY <1>1 DEF RunType, RunState
  <2>2. [Single EXCEPT !.entry = st.primary] \in Activation
    BY <2>1, SingleType DEF Activation
  <2> QED BY <1>1, <1>2, <1>5, <2>2 DEF EnterIterate, TrailType, RunType, trailVars
<1>6. CASE EnterSingle
  BY <1>1, <1>2, <1>6, SingleType DEF EnterSingle, TrailType, RunType, trailVars
<1> QED BY <1>4, <1>5, <1>6

LEMMA SessionType ==
  ASSUME TypeOK,
         SessionCompletes \/ SessionAuditFails \/ SessionHalts \/ SessionThrows
  PROVE  TrailType' /\ RunType'
<1>1. TrailType /\ RunType
  BY DEF TypeOK, TrailType, RunType
<1>2. CASE SessionCompletes
  <2>1. PICK out \in OutputsOf(at, unit.tag) :
          /\ Landed(StageRow(NextNumber, at, unit.tag, "completed", out))
          /\ st' = Committed(NextNumber, out)
          /\ AdvanceUnit(NextNumber)
    BY <1>2 DEF SessionCompletes
  <2>2. StageRow(NextNumber, at, unit.tag, "completed", out) \in Line
    BY <1>1, CompletedRowType DEF Line
  <2>3. TrailType'
    BY <1>1, <2>1, <2>2, LandedType
  <2>4. st' \in RunState /\ unit' \in Activation /\ pc' \in Phase
    BY <1>1, <2>1, NextNumberType, CommittedType, AdvanceUnitType
  <2> QED BY <1>1, <1>2, <2>3, <2>4 DEF SessionCompletes, RunType
<1>3. CASE SessionAuditFails
  <2>1. PICK out \in OutputsOf(at, unit.tag) :
          AppendFails(StageRow(NextNumber, at, unit.tag, "completed", out))
    BY <1>3 DEF SessionAuditFails
  <2>2. StageRow(NextNumber, at, unit.tag, "completed", out) \in Line
    BY <1>1, CompletedRowType DEF Line
  <2>3. TrailType'
    BY <1>1, <2>1, <2>2, BestEffortType DEF BestEffort
  <2> QED BY <1>3, <2>3, SettleType DEF SessionAuditFails
<1>4. CASE SessionHalts
  BY <1>1, <1>4, HaltType, NextNumberType, UnitTagType DEF SessionHalts, RunType
<1>5. CASE SessionThrows
  <2>1. CASE Halt(NextNumber, at, NoUnit)
    BY <1>1, <2>1, HaltType, NextNumberType DEF RunType
  <2>2. CASE UNCHANGED trailVars /\ Settle("thrown")
    BY <1>1, <2>2, SettleType DEF TrailType, trailVars
  <2> QED BY <1>5, <2>1, <2>2 DEF SessionThrows
<1> QED BY <1>2, <1>3, <1>4, <1>5

LEMMA RouteType ==
  ASSUME TypeOK,
         RouteStop \/ RouteNext \/ RouteDecision \/ RouteError \/ EscapeLoop \/ JumpBack
  PROVE  TrailType' /\ RunType'
<1>1. TrailType /\ RunType
  BY DEF TypeOK, TrailType, RunType
<1>2. CASE RouteStop
  BY <1>1, <1>2, SettleType DEF RouteStop, TrailType, trailVars
<1>3. CASE RouteNext
  <2>1. at' \in Stage /\ visited' \in SUBSET Stage
    BY <1>1, <1>3, TargetType DEF RouteNext, LeaveFor, RunType
  <2> QED BY <1>1, <1>3, <2>1 DEF RouteNext, RunType, TrailType, trailVars, Phase
<1>4. CASE RouteDecision
  <2>1. PICK next \in Edge[at].targets \ {Stop} :
          BestEffort(RoutingRow(at, next)) /\ LeaveFor(next)
    BY <1>4 DEF RouteDecision
  <2>2. next \in Stage /\ at \in Stage
    BY <1>1, TargetType DEF RunType
  <2>3. RoutingRow(at, next) \in Line
    BY <2>2 DEF RoutingRow, RoutingRows, Line
  <2>4. TrailType'
    BY <1>1, <2>1, <2>3, BestEffortType
  <2> QED BY <1>1, <1>4, <2>1, <2>2, <2>4 DEF RouteDecision, LeaveFor, RunType, Phase
<1>5. CASE RouteError
  BY <1>1, <1>5, HaltType, NextNumberType DEF RouteError, RunType
<1>6. CASE EscapeLoop
  BY <1>1, <1>6 DEF EscapeLoop, RunType, TrailType, trailVars, Phase
<1>7. CASE JumpBack
  <2>1. CASE Halt(NextNumber, at, NoUnit)
    BY <1>1, <2>1, HaltType, NextNumberType DEF RunType
  <2>2. CASE /\ jumps' = jumps + 1 /\ pc' = "enter"
             /\ UNCHANGED <<trailVars, at, st, visited, unit, outcome>>
    BY <1>1, <2>2 DEF RunType, TrailType, trailVars, Phase
  <2> QED BY <1>7, <2>1, <2>2 DEF JumpBack
<1> QED BY <1>2, <1>3, <1>4, <1>5, <1>6, <1>7

LEMMA StepType ==
  ASSUME TypeOK, [Next]_vars
  PROVE  TypeOK'
<1>1. TrailType /\ RunType /\ epoch \in Epoch /\ resumes \in Nat /\ drifts \in Nat
  BY DEF TypeOK, TrailType, RunType
<1>2. SUFFICES /\ TrailType' /\ RunType'
               /\ epoch' \in Epoch /\ resumes' \in Nat /\ drifts' \in Nat
  BY DEF TypeOK, TrailType, RunType
<1>3. CASE Launch
  <2>1. Header \in Line
    BY DEF Line
  <2> QED BY <1>1, <1>3, <2>1, BestEffortType DEF Launch, RunType, Phase, boundVars
<1>4. CASE Work
  <2>1. UNCHANGED boundVars
    BY <1>4 DEF Work, HaltAtSeam, EnterSingle, EnterFanout, EnterIterate, PullUnit,
         SessionCompletes, SessionAuditFails, SessionHalts, SessionThrows, RouteStop,
         RouteNext, RouteDecision, RouteError, EscapeLoop, JumpBack
  <2>2. CASE HaltAtSeam
    <3>1. Halt(NextNumber, at, NoUnit)
      BY <2>2 DEF HaltAtSeam
    <3>2. at \in Stage /\ NextNumber \in Nat \ {0}
      BY <1>1, NextNumberType DEF RunType
    <3> QED BY <1>1, <2>1, <3>1, <3>2, HaltType DEF boundVars
  <2>3. TrailType' /\ RunType'
    BY <1>4, <2>2, EnterType, PullUnitType, SessionType, RouteType DEF Work
  <2> QED BY <1>1, <2>1, <2>3 DEF boundVars
<1>5. CASE Crash
  <2>1. CASE UNCHANGED trailVars
    BY <1>1, <1>5, <2>1, ReleaseType DEF Crash, TrailType, trailVars, boundVars, Phase
  <2>2. CASE \E out \in OutputsOf(at, unit.tag) :
               UNCHANGED faults /\ Torn(StageRow(NextNumber, at, unit.tag, "completed", out))
    <3>1. PICK out \in OutputsOf(at, unit.tag) :
            UNCHANGED faults /\ Torn(StageRow(NextNumber, at, unit.tag, "completed", out))
      BY <2>2
    <3>2. StageRow(NextNumber, at, unit.tag, "completed", out) \in Line
      BY <1>1, CompletedRowType DEF Line
    <3>3. TrailType'
      BY <1>1, <3>1, <3>2, TornType DEF TrailType
    <3> QED BY <1>1, <1>5, <3>3, ReleaseType DEF Crash, boundVars, Phase
  <2> QED BY <1>5, <2>1, <2>2 DEF Crash
<1>6. CASE Resume
  BY <1>1, <1>6, ResumeType DEF Resume
<1>7. CASE Drift
  BY <1>1, <1>7 DEF Drift, TrailType, RunType, trailVars, runVars
<1>8. CASE UNCHANGED vars
  BY <1>1, <1>8 DEF vars, trailVars, runVars, boundVars, TrailType, RunType
<1> QED BY <1>3, <1>4, <1>5, <1>6, <1>7, <1>8 DEF Next

(* The lines of the file stay rows the readers know, and the live run      *)
(* stays well-formed: whatever sequence of completions, halts, kills, torn *)
(* appends and resumes, a stage the runner enters is one of the workflow,  *)
(* a unit it runs is one of the generator's, an artifact is a row number.  *)
THEOREM TypeCorrect == Spec => []TypeOK
<1>1. Init => TypeOK
  BY InitType
<1>2. TypeOK /\ [Next]_vars => TypeOK'
  BY StepType
<1> QED BY <1>1, <1>2, PTL DEF Spec

-----------------------------------------------------------------------------
(* Stage numbers increase along the file of a run, whatever is lost.       *)
(* NumbersIncrease alone is not inductive: nothing in it stops the runner  *)
(* from allocating a number that is in the file already.  The missing part *)
(* is AllocatorAhead, and it survives a resume because the fold takes the  *)
(* maximum over all rows (ReconstructType).                                *)

(* No stage row of the file carries a number above n.                      *)
NoneAbove(ls, n) == \A i \in 1..Len(ls) : IsStageRow(ls[i]) => ls[i].num <= n

AllocatorAhead == pc \notin {"down", "ended"} => NoneAbove(lines, st.allocated)

NumberingInv == TypeOK /\ NumbersIncrease /\ AllocatorAhead

-----------------------------------------------------------------------------
(* Any write leaves every stage row where it was or destroys it; the only  *)
(* one it can add is the line being written, at the end.                   *)

Kept(i) == i \in 1..Len(lines) /\ lines'[i] = lines[i]

WriteAdds(line) ==
  \A i \in 1..Len(lines') :
    IsStageRow(lines'[i]) => Kept(i) \/ (i = Len(lines) + 1 /\ lines'[i] = line)

LEMMA AppendAdds ==
  ASSUME TrailType, NEW line \in Line, NEW l \in {line, Garbled},
         lines' = Append(lines, l)
  PROVE  WriteAdds(line)
<1>1. lines \in Seq(Line)
  BY DEF TrailType
<1>2. ASSUME NEW i \in 1..Len(lines'), IsStageRow(lines'[i])
      PROVE  Kept(i) \/ (i = Len(lines) + 1 /\ lines'[i] = line)
  <2>1. i \in 1..(Len(lines) + 1)
    BY <1>1
  <2>2. CASE i \in 1..Len(lines)
    BY <1>1, <2>2 DEF Kept
  <2>3. CASE i = Len(lines) + 1
    BY <1>1, <1>2, <2>3 DEF IsStageRow, Garbled
  <2> QED BY <1>1, <2>1, <2>2, <2>3
<1> QED BY <1>2 DEF WriteAdds

LEMMA GluedAdds ==
  ASSUME TrailType, NEW line \in Line, lines' = Glued
  PROVE  WriteAdds(line)
BY GluedType DEF WriteAdds, Kept, IsStageRow, Garbled

LEMMA TornAdds ==
  ASSUME TrailType, NEW line \in Line, Torn(line)
  PROVE  WriteAdds(line)
<1>1. CASE lines' = Glued
  BY <1>1, GluedAdds
<1>2. CASE \E l \in {line, Garbled} : lines' = Append(lines, l)
  BY <1>2, AppendAdds
<1> QED BY <1>1, <1>2 DEF Torn

LEMMA WriteEffect ==
  ASSUME TrailType, NEW line \in Line, BestEffort(line)
  PROVE  WriteAdds(line)
<1>1. CASE lines' = Glued \/ lines' = Append(lines, line)
  BY <1>1, GluedAdds, AppendAdds
<1>2. CASE UNCHANGED lines
  BY <1>2 DEF WriteAdds, Kept
<1>3. CASE Torn(line)
  BY <1>3, TornAdds
<1> QED BY <1>1, <1>2, <1>3 DEF BestEffort, Landed, AppendFails

(* A row numbered above all the others keeps the numbers increasing.       *)
LEMMA NumbersKept ==
  ASSUME TrailType, TrailType', NumbersIncrease, NEW line \in Line, WriteAdds(line),
         NEW n \in Nat, NoneAbove(lines, n), IsStageRow(line) => line.num > n
  PROVE  NumbersIncrease'
<1>1. lines \in Seq(Line) /\ lines' \in Seq(Line) /\ Len(lines) \in Nat /\ Len(lines') \in Nat
  BY DEF TrailType
<1>2. ASSUME NEW i \in 1..Len(lines'), NEW j \in 1..Len(lines'), i < j,
             IsStageRow(lines'[i]), IsStageRow(lines'[j])
      PROVE  lines'[i].num < lines'[j].num
  <2>1. Kept(i)
    BY <1>1, <1>2 DEF WriteAdds, Kept
  <2>2. lines[i].num <= n
    BY <1>2, <2>1 DEF Kept, NoneAbove
  <2>3. CASE Kept(j)
    BY <1>2, <2>1, <2>3 DEF Kept, NumbersIncrease
  <2>4. CASE lines'[j] = line
    <3>1. lines[i] \in StageRows /\ line \in StageRows
      BY <1>1, <1>2, <2>1, <2>4, StageRowsType DEF Kept
    <3>2. lines[i].num \in Nat /\ line.num \in Nat
      BY <3>1 DEF StageRows
    <3> QED BY <1>2, <2>1, <2>2, <2>4, <3>2 DEF Kept
  <2> QED BY <1>2, <2>3, <2>4 DEF WriteAdds
<1> QED BY <1>2 DEF NumbersIncrease

(* What is not above n before a write is not above it after the write of a *)
(* line that is not above it either.                                       *)
LEMMA NoneAboveKept ==
  ASSUME NEW line, WriteAdds(line), NEW n,
         NoneAbove(lines, n), IsStageRow(line) => line.num <= n
  PROVE  NoneAbove(lines', n)
BY DEF NoneAbove, WriteAdds, Kept

LEMMA NoneAboveNext ==
  ASSUME TrailType, NEW n \in Nat, NoneAbove(lines, n)
  PROVE  NoneAbove(lines, n + 1)
<1>1. ASSUME NEW i \in 1..Len(lines), IsStageRow(lines[i]) PROVE lines[i].num <= n + 1
  <2>1. lines[i] \in StageRows
    BY <1>1, StageRowsType DEF TrailType
  <2>2. lines[i].num \in Nat /\ lines[i].num <= n
    BY <1>1, <2>1 DEF StageRows, NoneAbove
  <2> QED BY <2>2
<1> QED BY <1>1 DEF NoneAbove

(* A halt writes one row above all the others, and settles.                *)
LEMMA HaltNumbers ==
  ASSUME TrailType, NumbersIncrease, NEW n \in Nat, NoneAbove(lines, n),
         NEW s \in Stage, NEW u \in Tag \cup {NoUnit}, Halt(n + 1, s, u)
  PROVE  NumbersIncrease' /\ AllocatorAhead'
<1> DEFINE row == StageRow(n + 1, s, u, "failed", "none")
<1>1. row \in Line /\ row.num = n + 1
  <2>1. n + 1 \in Nat \ {0} /\ "failed" \in Status /\ "none" \in OutputShape
    BY DEF Status, OutputShape
  <2>2. row \in StageRows
    BY <2>1, StageRowType
  <2> QED BY <2>2 DEF Line, StageRow
<1>2. BestEffort(row) /\ pc' = "ended"
  BY DEF Halt, Settle
<1> HIDE DEF row
<1>3. TrailType' /\ WriteAdds(row)
  BY <1>1, <1>2, BestEffortType, WriteEffect
<1>4. NumbersIncrease'
  BY <1>1, <1>3, NumbersKept
<1> QED BY <1>2, <1>4 DEF AllocatorAhead

-----------------------------------------------------------------------------
(* The actions *)

LEMMA SessionNumbers ==
  ASSUME NumberingInv, SessionCompletes \/ SessionAuditFails
  PROVE  NumbersIncrease' /\ AllocatorAhead'
<1>1. TrailType /\ RunType
  BY DEF NumberingInv, TypeOK, TrailType, RunType
<1>2. PICK out \in OutputsOf(at, unit.tag) :
        LET row == StageRow(NextNumber, at, unit.tag, "completed", out)
        IN  /\ BestEffort(row)
            /\ \/ st' = Committed(NextNumber, out)
               \/ pc' = "ended"
  BY DEF SessionCompletes, SessionAuditFails, BestEffort, Settle
<1> DEFINE row == StageRow(NextNumber, at, unit.tag, "completed", out)
<1>3. row \in Line /\ row.num = NextNumber
  BY <1>1, CompletedRowType DEF Line, StageRow
<1>4. BestEffort(row)
  BY <1>2
<1> HIDE DEF row
<1>5. TrailType' /\ WriteAdds(row)
  BY <1>1, <1>3, <1>4, BestEffortType, WriteEffect
<1>6. st.allocated \in Nat /\ NextNumber = st.allocated + 1
  BY <1>1 DEF RunType, RunState, NextNumber
<1>7. NoneAbove(lines, st.allocated)
  BY DEF NumberingInv, AllocatorAhead, SessionCompletes, SessionAuditFails
<1>8. NumbersIncrease'
  BY <1>1, <1>3, <1>5, <1>6, <1>7, NumbersKept DEF NumberingInv
<1>9. NoneAbove(lines', NextNumber)
  <2>1. NoneAbove(lines, NextNumber) /\ row.num <= NextNumber
    BY <1>1, <1>3, <1>6, <1>7, NoneAboveNext
  <2> QED BY <1>5, <2>1, NoneAboveKept
<1>10. CASE st' = Committed(NextNumber, out)
  <2>1. st'.allocated = NextNumber
    BY <1>1, <1>6, <1>10, CommittedCounts
  <2> QED BY <1>8, <1>9, <2>1 DEF AllocatorAhead
<1>11. CASE pc' = "ended"
  BY <1>8, <1>11 DEF AllocatorAhead
<1> QED BY <1>2, <1>10, <1>11

LEMMA ResumeNumbers ==
  ASSUME NumberingInv, Resume
  PROVE  NumbersIncrease' /\ AllocatorAhead'
<1>1. TrailType /\ RunType /\ lines \in Seq(Line)
  BY DEF NumberingInv, TypeOK, TrailType, RunType
<1>2. Recon \in View /\ NoneAbove(lines, Recon.st.allocated)
  BY <1>1, ReconstructType DEF Recon, NoneAbove
<1>3. Recon.st.allocated \in Nat /\ NoUnit \in Tag \cup {NoUnit}
      /\ Recon.last.stage \in Stage
  BY <1>2, LastRowType DEF View, RunState, Resume
<1>4. CASE RefuseDrift(Recon)
  BY <1>1, <1>2, <1>3, <1>4, HaltNumbers DEF RefuseDrift, NumberingInv
<1>5. CASE UNCHANGED trailVars /\ st' = Recon.st
  BY <1>2, <1>5 DEF trailVars, NumberingInv, NumbersIncrease, AllocatorAhead
<1>6. CASE UNCHANGED trailVars /\ pc' = "ended"
  BY <1>6 DEF trailVars, NumberingInv, NumbersIncrease, AllocatorAhead
<1> QED BY <1>4, <1>5, <1>6 DEF Resume, ResumeUnitStage, ResumeSingle, ResumeFanout,
           ResumeIterate, Reenter, Settle

LEMMA WorkNumbers ==
  ASSUME NumberingInv, Work
  PROVE  NumbersIncrease' /\ AllocatorAhead'
<1>1. TrailType /\ RunType /\ st.allocated \in Nat
  BY DEF NumberingInv, TypeOK, TrailType, RunType, RunState
<1>2. NoneAbove(lines, st.allocated) \/ pc \in {"down", "ended"}
  BY DEF NumberingInv, AllocatorAhead
<1>3. ASSUME NEW s \in Stage, NEW u \in Tag \cup {NoUnit}, Halt(NextNumber, s, u),
             pc \notin {"down", "ended"}
      PROVE  NumbersIncrease' /\ AllocatorAhead'
  BY <1>1, <1>2, <1>3, HaltNumbers DEF NumberingInv, NextNumber
<1>4. CASE pc \notin {"down", "ended"} /\ \E u \in Tag \cup {NoUnit} : Halt(NextNumber, at, u)
  BY <1>1, <1>3, <1>4 DEF RunType
<1>5. CASE UNCHANGED lines /\ UNCHANGED st /\ pc \notin {"down", "ended"}
  BY <1>5 DEF NumberingInv, NumbersIncrease, AllocatorAhead
<1>6. CASE UNCHANGED lines /\ pc' = "ended"
  BY <1>6 DEF NumberingInv, NumbersIncrease, AllocatorAhead
<1>7. CASE RouteDecision
  <2>1. PICK next \in Edge[at].targets \ {Stop} : BestEffort(RoutingRow(at, next))
    BY <1>7 DEF RouteDecision
  <2>2. RoutingRow(at, next) \in Line /\ ~IsStageRow(RoutingRow(at, next))
    BY <1>1, TargetType DEF RoutingRow, RoutingRows, Line, RunType, IsStageRow
  <2>3. TrailType' /\ WriteAdds(RoutingRow(at, next))
    BY <1>1, <2>1, <2>2, BestEffortType, WriteEffect
  <2>4. NoneAbove(lines, st.allocated)
    BY <1>2, <1>7 DEF RouteDecision
  <2>5. NumbersIncrease'
    BY <1>1, <2>2, <2>3, <2>4, NumbersKept DEF NumberingInv
  <2>6. NoneAbove(lines', st.allocated) /\ UNCHANGED st
    BY <1>7, <2>2, <2>3, <2>4, NoneAboveKept DEF RouteDecision
  <2> QED BY <2>5, <2>6 DEF AllocatorAhead
<1>8. CASE SessionCompletes \/ SessionAuditFails
  BY <1>8, SessionNumbers
<1>9. CASE HaltAtSeam \/ PullUnit \/ SessionHalts \/ SessionThrows \/ RouteError \/ JumpBack
  <2>1. unit.tag \in Tag \cup {NoUnit} /\ NoUnit \in Tag \cup {NoUnit}
    BY <1>1, UnitTagType
  <2> QED BY <1>4, <1>5, <1>6, <1>9, <2>1 DEF HaltAtSeam, PullUnit, SessionHalts,
             SessionThrows, RouteError, JumpBack, Settle, trailVars
<1>10. CASE EnterSingle \/ EnterFanout \/ EnterIterate \/ RouteStop \/ RouteNext \/ EscapeLoop
  BY <1>5, <1>6, <1>10 DEF EnterSingle, EnterFanout, EnterIterate, RouteStop, RouteNext,
     EscapeLoop, Settle, trailVars
<1> QED BY <1>7, <1>8, <1>9, <1>10 DEF Work

LEMMA StepNumbers ==
  ASSUME NumberingInv, [Next]_vars
  PROVE  NumberingInv'
<1>1. TypeOK'
  BY StepType DEF NumberingInv
<1>2. TrailType /\ RunType
  BY DEF NumberingInv, TypeOK, TrailType, RunType
<1>3. CASE Launch
  <2>1. Header \in Line /\ ~IsStageRow(Header) /\ st.allocated \in Nat
    BY <1>2 DEF Line, Header, IsStageRow, RunType, RunState
  <2>2. NoneAbove(lines, st.allocated) /\ UNCHANGED st
    BY <1>3 DEF Launch, NumberingInv, AllocatorAhead
  <2>3. TrailType' /\ WriteAdds(Header)
    BY <1>2, <1>3, <2>1, BestEffortType, WriteEffect DEF Launch
  <2>4. NumbersIncrease'
    BY <1>2, <2>1, <2>2, <2>3, NumbersKept DEF NumberingInv
  <2>5. NoneAbove(lines', st.allocated)
    BY <2>1, <2>2, <2>3, NoneAboveKept
  <2> QED BY <1>1, <2>2, <2>4, <2>5 DEF NumberingInv, AllocatorAhead
<1>4. CASE Work
  BY <1>1, <1>4, WorkNumbers DEF NumberingInv
<1>5. CASE Resume
  BY <1>1, <1>5, ResumeNumbers DEF NumberingInv
<1>6. CASE Crash
  <2>1. pc' = "down" /\ pc \notin {"down", "ended"} /\ NoneAbove(lines, st.allocated)
    BY <1>6 DEF Crash, Running, NumberingInv, AllocatorAhead
  <2>2. CASE UNCHANGED trailVars
    BY <1>1, <2>1, <2>2 DEF NumberingInv, NumbersIncrease, AllocatorAhead, trailVars
  <2>3. CASE \E out \in OutputsOf(at, unit.tag) :
               Torn(StageRow(NextNumber, at, unit.tag, "completed", out))
    <3>1. PICK out \in OutputsOf(at, unit.tag) :
            Torn(StageRow(NextNumber, at, unit.tag, "completed", out))
      BY <2>3
    <3> DEFINE row == StageRow(NextNumber, at, unit.tag, "completed", out)
    <3>2. row \in Line /\ row.num = st.allocated + 1 /\ st.allocated \in Nat
      BY <1>2, CompletedRowType DEF Line, StageRow, NextNumber, RunType, RunState
    <3>3. Torn(row)
      BY <3>1
    <3> HIDE DEF row
    <3>4. TrailType' /\ WriteAdds(row)
      BY <1>1, <1>2, <3>2, <3>3, TornAdds DEF TypeOK, TrailType
    <3>5. NumbersIncrease'
      BY <1>2, <2>1, <3>2, <3>4, NumbersKept DEF NumberingInv
    <3> QED BY <1>1, <2>1, <3>5 DEF NumberingInv, AllocatorAhead
  <2> QED BY <1>6, <2>2, <2>3 DEF Crash
<1>7. CASE Drift \/ UNCHANGED vars
  <2>1. UNCHANGED <<lines, pc, st>>
    BY <1>7 DEF Drift, vars, trailVars, runVars
  <2> QED BY <1>1, <2>1 DEF NumberingInv, NumbersIncrease, AllocatorAhead
<1> QED BY <1>3, <1>4, <1>5, <1>6, <1>7 DEF Next

(* In any behaviour, with any number of dropped or torn rows, kills and    *)
(* resumes, the numbers of the readable stage rows increase along the      *)
(* file: an output is identified by the number of its row for good.        *)
THEOREM NumbersAlwaysIncrease == Spec => []NumbersIncrease
<1>1. Init => NumberingInv
  <2>1. Init => Len(lines) = 0
    BY DEF Init
  <2> QED BY <2>1, InitType DEF NumberingInv, NumbersIncrease, AllocatorAhead, NoneAbove
<1>2. NumberingInv /\ [Next]_vars => NumberingInv'
  BY StepNumbers
<1>3. NumberingInv => NumbersIncrease
  BY DEF NumberingInv
<1> QED BY <1>1, <1>2, <1>3, PTL DEF Spec

-----------------------------------------------------------------------------
(* The file never claims more than the live run has done.  A write may add *)
(* its row or destroy the row before it; the fold only grows with a row,   *)
(* so destroying one leaves a fold of a prefix, which claims less.         *)

Claims(v, completed, allocated, stages) ==
  v.st.completed <= completed /\ v.st.allocated <= allocated /\ v.visited \subseteq stages

(* View v claims no more than view w.                                      *)
Below(v, w) == Claims(v, w.st.completed, w.st.allocated, w.visited)

TrailBehind ==
  pc \notin {"down", "ended"} =>
    Claims(Recon, st.completed, st.allocated, visited \cup {at})

BehindInv == TypeOK /\ TrailBehind

LEMMA BelowSelf ==
  ASSUME NEW v \in View
  PROVE  Below(v, v)
BY DEF Below, Claims, View, RunState

LEMMA BelowTransitive ==
  ASSUME NEW u \in View, NEW v \in View, NEW w \in View, Below(u, v), Below(v, w)
  PROVE  Below(u, w)
<1>1. /\ u.st.completed \in Nat /\ v.st.completed \in Nat /\ w.st.completed \in Nat
      /\ u.st.allocated \in Nat /\ v.st.allocated \in Nat /\ w.st.allocated \in Nat
  BY DEF View, RunState
<1> QED BY <1>1 DEF Below, Claims

LEMMA FoldGrows ==
  ASSUME NEW v \in View, NEW line \in Line
  PROVE  Below(v, FoldLine(v, line))
<1>1. v.st.completed \in Nat /\ v.st.allocated \in Nat
  BY DEF View, RunState
<1>2. CASE IsStageRow(line)
  <2>1. line \in StageRows /\ line.num \in Nat
    BY <1>2, StageRowsType DEF StageRows
  <2> DEFINE w == FoldLine(v, line)
  <2>2. /\ w.visited = v.visited \cup {line.stage}
        /\ w.st.allocated = Larger(v.st.allocated, line.num)
        /\ w.st.completed = IF line.status = "completed" THEN v.st.completed + 1
                           ELSE v.st.completed
    BY <2>1, FoldLineEffect
  <2> HIDE DEF w
  <2>3. v.st.allocated <= w.st.allocated /\ v.st.completed <= w.st.completed
    BY <1>1, <2>1, <2>2 DEF Larger
  <2>4. Below(v, w)
    BY <2>2, <2>3 DEF Below, Claims
  <2> QED BY <2>4 DEF w
<1>3. CASE ~IsStageRow(line)
  BY <1>3, BelowSelf DEF FoldLine
<1> QED BY <1>2, <1>3

(* A line that cannot be parsed any more takes its own row and no other.   *)
LEMMA GluedBelow ==
  ASSUME TrailType
  PROVE  Below(ReconstructState(Glued), Recon)
<1>1. lines \in Seq(Line) /\ Garbled \in Line /\ ~IsStageRow(Garbled)
  BY DEF TrailType, Line, Garbled, IsStageRow
<1>2. CASE lines = <<>>
  <2>1. Glued = <<>>
    BY <1>2 DEF Glued
  <2> QED BY <1>2, <2>1, ReconType, BelowSelf DEF Recon
<1>3. CASE lines # <<>>
  <2>1. PICK front \in Seq(Line), last \in Line : lines = Append(front, last)
    BY <1>1, <1>3, SequenceEmptyOrAppend
  <2>2. Glued = Append(front, Garbled)
    <3>1. Glued \in Seq(Line) /\ Len(Glued) = Len(front) + 1 /\ Len(front) \in Nat
      BY <2>1, GluedType
    <3>2. Append(front, Garbled) \in Seq(Line) /\ Len(Append(front, Garbled)) = Len(front) + 1
      BY <1>1, <2>1
    <3>3. ASSUME NEW i \in 1..Len(Glued) PROVE Glued[i] = Append(front, Garbled)[i]
      BY <2>1, <3>1, GluedType
    <3> QED BY <3>1, <3>2, <3>3, SeqEqual
  <2>3. ReconstructState(front) \in View
    BY ReconstructType
  <2>4. ReconstructState(Glued) = ReconstructState(front)
    BY <1>1, <2>2, ReconstructAppend DEF FoldLine
  <2>5. Recon = FoldLine(ReconstructState(front), last)
    BY <2>1, ReconstructAppend DEF Recon
  <2> QED BY <2>3, <2>4, <2>5, FoldGrows
<1> QED BY <1>2, <1>3

(* Whatever becomes of a write, the file claims at most its line more.     *)
LEMMA WriteBelow ==
  ASSUME TrailType, NEW line \in Line, BestEffort(line) \/ Torn(line)
  PROVE  Below(Recon', FoldLine(Recon, line))
<1>1. lines \in Seq(Line) /\ Recon \in View /\ FoldLine(Recon, line) \in View
      /\ Garbled \in Line /\ ~IsStageRow(Garbled)
  BY ReconType, FoldLineType DEF TrailType, Line, Garbled, IsStageRow
<1>2. Below(Recon, FoldLine(Recon, line))
  BY <1>1, FoldGrows
<1>3. CASE lines' = lines
  BY <1>2, <1>3 DEF Recon
<1>4. CASE lines' = Append(lines, line)
  <2>1. Recon' = FoldLine(Recon, line)
    BY <1>1, <1>4, ReconstructAppend DEF Recon
  <2> QED BY <1>1, <2>1, BelowSelf
<1>5. CASE lines' = Append(lines, Garbled)
  <2>1. Recon' = Recon
    BY <1>1, <1>5, ReconstructAppend DEF Recon, FoldLine
  <2> QED BY <1>2, <2>1
<1>6. CASE lines' = Glued
  <2>1. Recon' = ReconstructState(Glued) /\ Recon' \in View
    BY <1>6, GluedType, ReconstructType DEF Recon
  <2>2. Below(Recon', Recon)
    BY <2>1, GluedBelow
  <2> QED BY <1>1, <1>2, <2>1, <2>2, BelowTransitive
<1> QED BY <1>3, <1>4, <1>5, <1>6 DEF BestEffort, Landed, AppendFails, Torn

LEMMA SessionBehind ==
  ASSUME BehindInv, SessionCompletes
  PROVE  TrailBehind'
<1>1. TrailType /\ RunType /\ Recon \in View /\ pc = "session" /\ UNCHANGED <<at, visited>>
  BY ReconType DEF BehindInv, TypeOK, TrailType, RunType, SessionCompletes
<1>2. PICK out \in OutputsOf(at, unit.tag) :
        /\ BestEffort(StageRow(NextNumber, at, unit.tag, "completed", out))
        /\ st' = Committed(NextNumber, out)
  BY DEF SessionCompletes, BestEffort
<1> DEFINE row == StageRow(NextNumber, at, unit.tag, "completed", out)
<1>3. /\ row \in StageRows /\ row \in Line /\ row.stage = at
      /\ row.num = NextNumber /\ row.status = "completed"
  BY <1>1, CompletedRowType DEF Line, StageRow
<1>4. BestEffort(row)
  BY <1>2
<1> HIDE DEF row
<1> DEFINE w == FoldLine(Recon, row)
<1>5. /\ w.visited = Recon.visited \cup {at}
      /\ w.st.allocated = Larger(Recon.st.allocated, NextNumber)
      /\ w.st.completed = Recon.st.completed + 1
  BY <1>1, <1>3, FoldLineEffect
<1>6. Below(Recon', w) /\ w \in View /\ Recon' \in View
  <2>1. TrailType'
    BY <1>1, <1>3, <1>4, BestEffortType
  <2>2. lines' \in Seq(Line)
    BY <2>1 DEF TrailType
  <2> QED BY <1>1, <1>3, <1>4, <2>2, WriteBelow, FoldLineType, ReconstructType DEF Recon
<1> HIDE DEF w
<1>7. Claims(Recon, st.completed, st.allocated, visited \cup {at})
  BY <1>1 DEF BehindInv, TrailBehind
<1>8. st'.allocated = st.allocated + 1 /\ st'.completed = st.completed + 1
  BY <1>1, <1>2, NextNumberType, CommittedCounts DEF NextNumber
<1>9. /\ Recon.st.completed \in Nat /\ Recon.st.allocated \in Nat
      /\ w.st.completed \in Nat /\ w.st.allocated \in Nat
      /\ Recon'.st.completed \in Nat /\ Recon'.st.allocated \in Nat
      /\ st.completed \in Nat /\ st.allocated \in Nat
  BY <1>1, <1>6 DEF View, RunState, RunType
<1>10. w.st.allocated <= st'.allocated /\ w.st.completed <= st'.completed
       /\ w.visited \subseteq visited \cup {at}
  BY <1>5, <1>7, <1>8, <1>9 DEF Claims, Larger, NextNumber
<1>11. Claims(Recon', st'.completed, st'.allocated, visited' \cup {at'})
  BY <1>1, <1>6, <1>8, <1>9, <1>10 DEF Below, Claims
<1> QED BY <1>11 DEF TrailBehind

(* A line that is not a stage row claims nothing.                          *)
LEMMA OtherLineBehind ==
  ASSUME BehindInv, pc \notin {"down", "ended"}, NEW line \in Line, ~IsStageRow(line),
         BestEffort(line), UNCHANGED st, visited \cup {at} \subseteq visited' \cup {at'}
  PROVE  TrailBehind'
<1>1. TrailType /\ Recon \in View /\ st \in RunState
  BY ReconType DEF BehindInv, TypeOK, TrailType
<1>2. Below(Recon', Recon)
  BY <1>1, WriteBelow DEF FoldLine
<1>3. Recon' \in View
  <2>1. lines' \in Seq(Line)
    BY <1>1, BestEffortType DEF TrailType
  <2> QED BY <2>1, ReconstructType DEF Recon
<1>4. /\ Recon.st.completed \in Nat /\ Recon.st.allocated \in Nat
      /\ Recon'.st.completed \in Nat /\ Recon'.st.allocated \in Nat
      /\ st.completed \in Nat /\ st.allocated \in Nat
  BY <1>1, <1>3 DEF View, RunState
<1> QED BY <1>2, <1>4 DEF BehindInv, TrailBehind, Below, Claims

LEMMA StepBehind ==
  ASSUME BehindInv, [Next]_vars
  PROVE  BehindInv'
<1>1. TypeOK' /\ TrailType /\ RunType
  BY StepType DEF BehindInv, TypeOK, TrailType, RunType
<1>2. SUFFICES TrailBehind'
  BY <1>1 DEF BehindInv
<1>3. CASE Launch
  <2>1. Header \in Line /\ ~IsStageRow(Header)
    BY DEF Line, Header, IsStageRow
  <2> QED BY <1>3, <2>1, OtherLineBehind DEF Launch
<1>4. CASE RouteDecision
  <2>1. PICK next \in Edge[at].targets \ {Stop} :
          BestEffort(RoutingRow(at, next)) /\ LeaveFor(next)
    BY <1>4 DEF RouteDecision
  <2>2. RoutingRow(at, next) \in Line /\ ~IsStageRow(RoutingRow(at, next))
    BY <1>1, TargetType DEF RoutingRow, RoutingRows, Line, RunType, IsStageRow
  <2> QED BY <1>4, <2>1, <2>2, OtherLineBehind DEF RouteDecision, LeaveFor
<1>5. CASE SessionCompletes
  BY <1>5, SessionBehind DEF BehindInv
<1>6. CASE pc' \in {"down", "ended"}
  BY <1>6 DEF TrailBehind
<1>7. CASE UNCHANGED <<lines, st>> /\ pc \notin {"down", "ended"}
           /\ visited \cup {at} \subseteq visited' \cup {at'}
  BY <1>7 DEF BehindInv, TrailBehind, Claims, Recon
<1>8. CASE HaltAtSeam \/ PullUnit \/ SessionHalts \/ SessionThrows \/ RouteError \/ JumpBack
           \/ SessionAuditFails \/ RouteStop \/ Crash
  BY <1>6, <1>7, <1>8 DEF HaltAtSeam, PullUnit, SessionHalts, SessionThrows, RouteError,
     JumpBack, SessionAuditFails, RouteStop, Crash, Halt, Settle, trailVars
<1>9. CASE EnterSingle \/ EnterFanout \/ EnterIterate \/ RouteNext \/ EscapeLoop
  BY <1>7, <1>9 DEF EnterSingle, EnterFanout, EnterIterate, RouteNext, EscapeLoop,
     LeaveFor, trailVars
<1>10. CASE Resume
  <2>1. Recon \in View
    BY <1>1, ReconType
  <2>2. CASE UNCHANGED trailVars /\ st' = Recon.st /\ visited' = Recon.visited
    <3>1. Below(Recon, Recon)
      BY <2>1, BelowSelf
    <3> QED BY <2>2, <3>1 DEF TrailBehind, Below, Claims, Recon, trailVars
  <2> QED BY <1>6, <1>10, <2>2 DEF Resume, ResumeUnitStage, ResumeSingle, ResumeFanout,
             ResumeIterate, Reenter, RefuseDrift, Halt, Settle
<1>11. CASE Drift \/ UNCHANGED vars
  <2>1. UNCHANGED <<lines, pc, st, visited, at>>
    BY <1>11 DEF Drift, vars, trailVars, runVars
  <2> QED BY <2>1 DEF BehindInv, TrailBehind, Claims, Recon
<1> QED BY <1>3, <1>4, <1>5, <1>8, <1>9, <1>10, <1>11 DEF Next, Work

(* Also when lines are cut short or glued together, in any number, and     *)
(* across kills and resumes: a resume may repeat work, it never skips any, *)
(* because the file claims no completion, number or stage that the live    *)
(* run does not have.                                                      *)
THEOREM TrailIsNeverAhead == Spec => []NeverAhead
<1>1. Init => BehindInv
  <2>1. Init => Recon = EmptyView
    BY ReconstructEmpty DEF Init, Recon
  <2> QED BY <2>1, InitType DEF BehindInv, TrailBehind, Claims, EmptyView, FreshState, Init
<1>2. BehindInv /\ [Next]_vars => BehindInv'
  BY StepBehind
<1>3. BehindInv => NeverAhead
  BY DEF BehindInv, TrailBehind, Claims, NeverAhead, Running
<1> QED BY <1>1, <1>2, <1>3, PTL DEF Spec
=============================================================================
