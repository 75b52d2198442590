------------------------------ MODULE StageSession ------------------------------
(***************************************************************************)
(* The inside of what WorkflowRun takes as one step: one stage, from the   *)
(* opening of its session to its row.  The agent works in turns; what a    *)
(* turn leaves is collected, parsed and validated, and an output the       *)
(* schema refuses sends the agent back to work.  The agent, the schema and *)
(* a script answer in their own time or never; timers bound some of the    *)
(* waits.  Versions of the artifact are the positions of the turns (or of  *)
(* the script's calls) that wrote them.                                    *)
(***************************************************************************)
EXTENDS Integers, Sequences

CONSTANT MaxTurns  \* bound: turns of a session, an earlier stage's included

StopReason == {"stop", "aborted", "other", "noResponse"}
NotSet == -1       \* an optional number that the author left out

(* made: an artifact was written.  valid: the schema would accept it.      *)
Turn == [stop : StopReason, made : BOOLEAN, valid : BOOLEAN]

(* StageDef, with an embedder's values that skipped the load validation.   *)
SessionDef == [run : BOOLEAN, policy : {"fresh", "continue"}, kind : {"produces", "side-effect"},
               schema : BOOLEAN, maxRetries : {NotSet, 0, 1, 9}, onInvalid : {"retry", "halt"}]

VARIABLES
  def,      \* the stage
  turns,    \* the branch of the session
  offset,   \* branchOffset: where this stage's part of the branch starts
  step,     \* where the stage stands
  working,  \* the agent is in a turn
  attempts, \* retries asked for
  output,   \* the output in hand: the version of its artifact, 0 for none
  result    \* how the stage was recorded

sessionVars == <<def, turns, offset, step, working, attempts, output, result>>

(* A continue stage finds what the stage before it left.  Scripts have no  *)
(* session, and the factories give side effects no schema.                 *)
SessionInit ==
  /\ def \in {d \in SessionDef : /\ d.run => d.policy = "fresh"
                                 /\ d.kind = "side-effect" => ~d.schema /\ d.maxRetries = NotSet}
  /\ turns \in {<<>>} \cup {<<t>> : t \in {u \in Turn : u.stop = "stop" /\ u.made}}
  /\ def.policy = "fresh" => turns = <<>>
  /\ offset = Len(turns)
  /\ step = "spawn" /\ working = FALSE /\ attempts = 0 /\ output = 0 /\ result = "none"

-----------------------------------------------------------------------------
Records(r) == step' = "settled" /\ result' = r

Clamp(n) == IF n < 1 THEN 1 ELSE IF n > 3 THEN 3 ELSE n

(* Sessions clamp what the author asked for, scripts take it as it is.     *)
maxRetries ==
  LET asked == IF def.maxRetries = NotSet THEN 1 ELSE def.maxRetries
  IN  IF def.run THEN asked ELSE Clamp(asked)

(* FRESH_HANDLER.spawn and CONTINUE_HANDLER.spawn: the prompt is sent.     *)
spawn ==
  /\ step = "spawn" /\ ~def.run
  /\ step' = "turn" /\ working' = TRUE
  /\ UNCHANGED <<def, turns, offset, attempts, output, result>>

(* newSession answers that the user cancelled it.                          *)
recordCancellation ==
  /\ step = "spawn" /\ ~def.run /\ def.policy = "fresh"
  /\ Records("skipped")
  /\ UNCHANGED <<def, turns, offset, working, attempts, output>>

(* The agent's turn ends, on its own or because the user aborts it; after  *)
(* a timeout nobody waits for it any more.                                 *)
TurnEnds ==
  /\ working /\ Len(turns) < MaxTurns
  /\ \E t \in Turn : turns' = Append(turns, t)
  /\ working' = FALSE
  /\ step' = CASE step = "turn" -> "classify"
               [] step = "ask" -> "collect"
               [] OTHER -> step
  /\ UNCHANGED <<def, offset, attempts, output, result>>

(* The transport refuses the message.                                      *)
SendFails ==
  /\ step \in {"turn", "ask"} /\ working
  /\ working' = FALSE
  /\ IF step = "ask" THEN Records("failed")
     ELSE step' = "settled" /\ result' = "thrown"
  /\ UNCHANGED <<def, turns, offset, attempts, output>>

classifyStop ==
  IF Len(turns) = offset THEN "noResponse" ELSE turns[Len(turns)].stop

(* readSessionOutcome, and haltStage unless the turn stopped by itself.    *)
readSessionOutcome ==
  /\ step = "classify"
  /\ CASE classifyStop = "stop" -> step' = "collect" /\ UNCHANGED result
       [] classifyStop = "aborted" -> Records("aborted")
       [] OTHER -> Records("failed")
  /\ UNCHANGED <<def, turns, offset, working, attempts, output>>

Versions(from) == {i \in from..Len(turns) : turns[i].made}
Latest(from) == IF Versions(from) = {} THEN 0
                ELSE CHOOSE i \in Versions(from) : \A j \in Versions(from) : j <= i

(* Mutant: the collector is not told where this stage starts.              *)
collectWholeBranch == IF def.kind = "side-effect" THEN 0 ELSE Latest(1)

(* OutputSpec.collector, the transcript collectors of the package: the     *)
(* last artifact this stage's part of the branch names.  (A parser that    *)
(* yields no data at all skips the validation; left out.)                  *)
collect == IF def.kind = "side-effect" THEN 0 ELSE Latest(offset + 1)

shouldValidateOutput == def.schema

(* runOutcome and enforceCompletionContract.  A collector or a parser may  *)
(* give up, too.                                                           *)
runOutcome ==
  /\ step = "collect"
  /\ \/ /\ collect # 0 \/ def.kind = "side-effect"
        /\ output' = collect
        /\ step' = IF shouldValidateOutput THEN "validate" ELSE "record"
        /\ UNCHANGED result
     \/ UNCHANGED output /\ Records("failed")
  /\ UNCHANGED <<def, turns, offset, working, attempts>>

Accepted == output # 0 /\ turns[output].valid

RetryIsLeft == attempts < maxRetries /\ def.onInvalid # "halt"

(* validateOrFatal, and askAgentToFix while retries are left.              *)
SchemaAnswers ==
  /\ step = "validate"
  /\ \/ Accepted /\ step' = "record" /\ UNCHANGED <<working, attempts, result>>
     \/ /\ ~Accepted /\ RetryIsLeft
        /\ step' = (IF def.run THEN "run" ELSE "ask")
        /\ working' = ~def.run /\ attempts' = attempts + 1
        /\ UNCHANGED result
     \/ ~Accepted /\ ~RetryIsLeft /\ Records("failed") /\ UNCHANGED <<working, attempts>>
  /\ UNCHANGED <<def, turns, offset, output>>

SchemaThrows ==
  /\ step = "validate"
  /\ Records(IF def.run THEN "thrown" ELSE "failed")
  /\ UNCHANGED <<def, turns, offset, working, attempts, output>>

(* Mutant: only the schema is under the timer.                             *)
TimedSchema == {"validate"}

(* withTimeout: what is awaited there.  Not the first turn, not a script.  *)
Timed == IF def.run THEN {} ELSE {"ask", "validate"}

TimerFires ==
  /\ step \in Timed
  /\ Records("failed")
  /\ UNCHANGED <<def, turns, offset, working, attempts, output>>

-----------------------------------------------------------------------------
(* invokeRun: the function returns what it made, or throws.                *)
scriptStarts ==
  /\ step = "spawn" /\ def.run /\ step' = "run"
  /\ UNCHANGED <<def, turns, offset, working, attempts, output, result>>

scriptReturns ==
  /\ step = "run" /\ Len(turns) < MaxTurns
  /\ \/ \E v \in BOOLEAN :
          /\ turns' = Append(turns, [stop |-> "stop", made |-> TRUE, valid |-> v])
          /\ output' = IF def.kind = "produces" THEN Len(turns) + 1 ELSE 0
          /\ step' = IF shouldValidateOutput THEN "validate" ELSE "record"
          /\ UNCHANGED result
     \/ UNCHANGED <<turns, output>> /\ Records("failed")
  /\ UNCHANGED <<def, offset, working, attempts>>

(* tryRecordStage: the row decides whether the stage is committed.         *)
recordStageSuccess ==
  /\ step = "record"
  /\ Records("completed") \/ Records("unwritten")
  /\ UNCHANGED <<def, turns, offset, working, attempts, output>>

SessionNext ==
  \/ spawn \/ recordCancellation \/ TurnEnds \/ SendFails \/ readSessionOutcome
  \/ runOutcome \/ SchemaAnswers \/ SchemaThrows \/ TimerFires
  \/ scriptStarts \/ scriptReturns \/ recordStageSuccess

SessionSpec == SessionInit /\ [][SessionNext]_sessionVars

(* The event loop runs what is ready, timers fire, and the first turn ends *)
(* (the user can abort it).  Nothing is assumed of the turns of retries,   *)
(* of schemas and of scripts.                                              *)
FirstTurnEnds == step = "turn" /\ TurnEnds

SessionFairness ==
  /\ WF_sessionVars(spawn \/ readSessionOutcome \/ runOutcome \/ recordStageSuccess)
  /\ WF_sessionVars(FirstTurnEnds) /\ WF_sessionVars(TimerFires)

-----------------------------------------------------------------------------
(* What a completed stage commits is its own work and its latest: never an *)
(* artifact of the stage before it in a shared session, never one that a   *)
(* retry replaced, and one the schema accepts if there is a schema.        *)
CommitsLatestValid ==
  result = "completed" /\ def.kind = "produces"
    => /\ output = Latest(offset + 1) /\ output > offset
       /\ def.schema => turns[output].valid

(* A stage with a session settles even if the agent never answers a retry  *)
(* and an asynchronous schema never resolves.                              *)
SessionSettles == ~def.run ~> step = "settled"

(* A turn the user aborted does not complete a stage, be it the first one  *)
(* or a retry.                                                             *)
AbortsAreHonoured ==
  result = "completed" /\ ~def.run => turns[Len(turns)].stop # "aborted"
=============================================================================
