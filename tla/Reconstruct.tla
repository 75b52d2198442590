---------------------------- MODULE Reconstruct ----------------------------
(***************************************************************************)
(* The rows of a run's audit trail and the fold that rebuilds the run from *)
(* them (runner/resume.ts).  No state: WorkflowRun replays its own file    *)
(* through these operators and Story judges every new row by them.         *)
(*                                                                         *)
(* An Output is identified by the stageNumber of the row that carries it,  *)
(* its first artifact likewise; 0 stands for `undefined'.  A row whose     *)
(* status is failed, aborted or skipped folds the same way: "failed".      *)
(***************************************************************************)
EXTENDS Workflow

-----------------------------------------------------------------------------
(* Rows *)

Status == {"completed", "failed"}

(* "none": the row has no output field; "empty": an output without         *)
(* artifacts; "full": an output with at least one artifact.                *)
OutputShape == {"none", "empty", "full"}

StageRow(num, s, u, status, out) ==
  [type |-> "stage", num |-> num, stage |-> s, unit |-> u,
   status |-> status, out |-> out]

Header == [type |-> "header"]
Garbled == [type |-> "garbled"]    \* a line JSON.parse rejects
RoutingRow(s, t) == [type |-> "routing", from |-> s, to |-> t]

StageRows == [type : {"stage"}, num : Nat \ {0}, stage : Stage,
              unit : Tag \cup {NoUnit}, status : Status, out : OutputShape]
RoutingRows == [type : {"routing"}, from : Stage, to : Stage]
Line == StageRows \cup RoutingRows \cup {Header, Garbled}

(* What a completed row may carry: a fanout unit's row has no output, a    *)
(* session that produces has at least one artifact (the completion         *)
(* contract), a script that produces may return none.                      *)
OutputsOf(s, u) ==
  IF u # NoUnit /\ Def[s].shape = "fanout" THEN {"none"}
  ELSE IF Def[s].kind = "side-effect" THEN {"empty"}
  ELSE IF Def[s].shape = "script" THEN {"empty", "full"}
  ELSE {"full"}

IsStageRow(line) == line.type = "stage"
IsDecorated(row) == row.unit # NoUnit

-----------------------------------------------------------------------------
(* RunState, and what a completed stage does to it.                        *)

RunState == [primary : Nat, output : Nat, named : [Slot -> Seq(Nat)],
             completed : Nat, allocated : Nat]

FreshState == [primary |-> 0, output |-> 0, named |-> [n \in Slot |-> <<>>],
               completed |-> 0, allocated |-> 0]

ApplyCompletedStage(s, def, num, out) ==
  IF def.kind = "produces"
  THEN [s EXCEPT !.primary = IF out = "full" THEN num ELSE @,
                 !.named[def.publish] = Append(@, num)]
  ELSE IF def.terminal THEN [s EXCEPT !.primary = 0] ELSE s

-----------------------------------------------------------------------------
(* reconstructState: the fold, one row at a time.                          *)

(* The trailing unit generation (lastFoldedUnitParent, with the entry of   *)
(* fanoutProgress or iterateProgress for that parent): a resume consults   *)
(* the progress of the last row's parent only.                             *)
Generation == [parent : Stage \cup {NoStage}, units : Seq(Tag),
               entry : Nat, acc : Seq(Nat)]

NoGeneration == [parent |-> NoStage, units |-> <<>>, entry |-> 0, acc |-> <<>>]

NoRow == [type |-> "none"]

View == [st : RunState, visited : SUBSET Stage, gen : Generation,
         last : StageRows \cup {NoRow}]

EmptyView == [st |-> FreshState, visited |-> {}, gen |-> NoGeneration,
              last |-> NoRow]

Larger(a, b) == IF a > b THEN a ELSE b

(* What every arm of the fold does with a row.                             *)
CountedState(s, row) ==
  [s EXCEPT !.allocated = Larger(@, row.num),
            !.completed = IF row.status = "completed" THEN @ + 1 ELSE @]

(* Mutant: only the row of a whole stage marks it visited.                 *)
CountedWholeStages(v, row) ==
  [v EXCEPT !.visited = IF IsDecorated(row) THEN @ ELSE @ \cup {row.stage},
            !.st = CountedState(@, row),
            !.last = row]

Counted(v, row) ==
  [v EXCEPT !.visited = @ \cup {row.stage},
            !.st = CountedState(@, row),
            !.last = row]

(* Mutant: a row without artifacts seeds nothing.                          *)
ProducedByProducers(s, row) ==
  IF Def[row.stage].kind = "produces"
  THEN ApplyCompletedStage([s EXCEPT !.output = row.num],
                           Def[row.stage], row.num, row.out)
  ELSE s

(* A completed row that carries an output seeds the artifact state.        *)
Produced(s, row) ==
  ApplyCompletedStage([s EXCEPT !.output = row.num],
                      Def[row.stage], row.num, row.out)

FoldKnownStage(v, row) ==
  LET c == [Counted(v, row) EXCEPT !.gen = NoGeneration]
  IN  IF row.status = "completed" /\ row.out # "none"
      THEN [c EXCEPT !.st = Produced(@, row)]
      ELSE c

(* Mutant: the entry artifact is read when the first unit has produced.    *)
GenerationAfterRow(v, row) ==
  IF v.gen.parent = row.stage THEN v.gen
  ELSE [parent |-> row.stage, units |-> <<>>,
        entry |-> IF Def[row.stage].shape = "iterate" THEN row.num ELSE 0,
        acc |-> <<>>]

(* The generation a unit row belongs to: the open one, or a new one.       *)
GenerationOf(v, row) ==
  IF v.gen.parent = row.stage THEN v.gen
  ELSE [parent |-> row.stage, units |-> <<>>,
        entry |-> IF Def[row.stage].shape = "iterate" THEN v.st.primary ELSE 0,
        acc |-> <<>>]

FoldFanoutUnit(v, row) ==
  LET g == GenerationOf(v, row)
  IN  [Counted(v, row) EXCEPT
         !.gen = IF row.status = "completed"
                 THEN [g EXCEPT !.units = Append(@, row.unit)] ELSE g]

(* Mutant: a unit is progress of its stage and nothing else.               *)
FoldIterateProgress(v, row) ==
  LET c == [Counted(v, row) EXCEPT !.gen = GenerationOf(v, row)]
  IN  IF row.status = "completed" /\ row.out # "none"
      THEN [c EXCEPT !.gen.acc = Append(@, row.num)] ELSE c

FoldIterateUnit(v, row) ==
  LET c == [Counted(v, row) EXCEPT !.gen = GenerationOf(v, row)]
  IN  IF row.status = "completed" /\ row.out # "none"
      THEN [c EXCEPT !.st = Produced(@, row),
                     !.gen.acc = Append(@, row.num)]
      ELSE c

(* Lines that are not stage rows are filtered out before the fold.         *)
FoldLine(v, line) ==
  IF ~IsStageRow(line) THEN v
  ELSE IF ~IsDecorated(line) THEN FoldKnownStage(v, line)
  ELSE IF Def[line.stage].shape = "fanout" THEN FoldFanoutUnit(v, line)
  ELSE FoldIterateUnit(v, line)

ReconstructState(ls) ==
  LET fold[n \in 0..Len(ls)] ==
        IF n = 0 THEN EmptyView ELSE FoldLine(fold[n - 1], ls[n])
  IN  fold[Len(ls)]
=============================================================================
