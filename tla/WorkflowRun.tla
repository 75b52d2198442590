---------------------------- MODULE WorkflowRun ----------------------------
(***************************************************************************)
(* The runner of rpiv-workflow: runWorkflow and resumeWorkflow drive one   *)
(* run through its stages, append a row per settled stage or unit, and     *)
(* choose the next stage, while the process may be killed between any two  *)
(* steps and any append may fail.  One JavaScript thread executes a run,   *)
(* so a step of the model is what happens between two awaits.              *)
(***************************************************************************)
EXTENDS AuditTrail

CONSTANTS MaxResumes, \* bound on resumeWorkflow calls
          MaxDrifts   \* bound on changes of the world the generators read

VARIABLES
  pc,      \* where the runner stands, see Phase
  at,      \* the stage it is entering, running or leaving
  st,      \* RunState
  visited, \* RunContext.visited
  jumps,   \* state.telemetry.backwardJumps
  unit,    \* the activation of stage `at', see Activation
  outcome, \* how the last call settled
  epoch,   \* version of the outside world
  resumes, drifts

runVars == <<pc, at, st, visited, jumps, unit, outcome>>
boundVars == <<epoch, resumes, drifts>>
vars == <<trailVars, runVars, boundVars>>

ASSUME RunAssumption == MaxResumes \in Nat /\ MaxDrifts \in Nat

(* fresh: not launched.  down: the process was killed.  enter: about to    *)
(* run stage `at'.  session: a session or script is running.  pull: the    *)
(* iterate generator is about to be asked.  route: stage `at' is done.     *)
(* guard: a decision picked `at'.  ended: the call has settled.            *)
Phase == {"fresh", "down", "enter", "session", "pull", "route", "guard", "ended"}
Running == pc \in {"enter", "session", "pull", "route", "guard"}

(* todo: the fanout's unit list.  done: how many of them are complete.     *)
(* entry, acc: the arguments of runIterate.  tag: the unit in session.     *)
(* caught: runStageOrRecordFailure is on the stack of this activation.     *)
Activation == [todo : Seq(Tag), done : Nat, entry : Nat, acc : Seq(Nat),
               tag : Tag \cup {NoUnit}, caught : BOOLEAN]

Single == [todo |-> <<>>, done |-> 0, entry |-> 0, acc |-> <<>>,
           tag |-> NoUnit, caught |-> TRUE]

TypeOK ==
  /\ lines \in Seq(Line) /\ open \in BOOLEAN /\ faults \in Nat
  /\ pc \in Phase /\ at \in Stage /\ st \in RunState
  /\ visited \in SUBSET Stage /\ jumps \in Nat /\ unit \in Activation
  /\ outcome \in {"none", "success", "error", "thrown"}
  /\ epoch \in Epoch /\ resumes \in Nat /\ drifts \in Nat

Init ==
  /\ lines = <<>> /\ open = FALSE /\ faults = 0
  /\ pc = "fresh" /\ at = Start /\ st = FreshState
  /\ visited = {} /\ jumps = 0 /\ unit = Single /\ outcome = "none"
  /\ epoch \in Epoch /\ resumes = 0 /\ drifts = 0

-----------------------------------------------------------------------------
(* recordStage: allocate the next number, whatever becomes of the row.     *)

(* Mutant: the first row gets number 0, which is no row.                   *)
NumberFromZero == st.allocated

(* Mutant: rows are numbered by the stages that completed.                 *)
NumberAfterCompleted == st.completed + 1

NextNumber == st.allocated + 1

(* The RunContext dies with the call, and with the process.                *)
Release(result) ==
  /\ outcome' = result
  /\ at' = Start /\ st' = FreshState /\ visited' = {}
  /\ jumps' = 0 /\ unit' = Single

(* executeRun returns the envelope of a success or of an error, or the     *)
(* promise of the call rejects: no row, no envelope, no onWorkflowEnd.     *)
Settle(result) == pc' = "ended" /\ Release(result)

(* recordTerminalFailure and recordCancellation: one row, the result of    *)
(* its append ignored, and the call settles with an error.                 *)
(* Mutant: the envelope is set and the row forgotten.                      *)
HaltWithoutRow(num, s, u) ==
  /\ UNCHANGED trailVars
  /\ Settle("error")

Halt(num, s, u) ==
  /\ BestEffort(StageRow(num, s, u, "failed", "none"))
  /\ Settle("error")

-----------------------------------------------------------------------------
(* runWorkflow                                                             *)

Launch ==
  /\ pc = "fresh"
  /\ BestEffort(Header)
  /\ pc' = "enter"
  /\ UNCHANGED <<at, st, visited, jumps, unit, outcome, boundVars>>

-----------------------------------------------------------------------------
(* runStageOrRecordFailure and runStage                                    *)

(* ensureUpstreamArtifact and ensureNamedReads, which script stages skip.  *)
HasInput(s) ==
  LET def == Def[s]
  IN  \/ def.shape = "script"
      \/ /\ s = Start \/ def.terminal \/ def.reads # {} \/ def.prompt \/ st.primary # 0
         /\ \A n \in def.reads : st.named[n] # <<>>

(* The signal is aborted, a preflight check fails, or something throws on  *)
(* the way in: one bare row for the stage.                                 *)
HaltAtSeam ==
  /\ pc = "enter"
  /\ Halt(NextNumber, at, NoUnit)
  /\ UNCHANGED boundVars

(* A stage of one session; a fanout whose list is empty runs as one.       *)
EnterSingle ==
  /\ pc = "enter"
  /\ \/ Def[at].shape \in {"session", "script"}
     \/ Def[at].shape = "fanout" /\ FanoutFn(at, st.primary, epoch) = <<>>
  /\ HasInput(at)
  /\ pc' = "session" /\ unit' = Single
  /\ UNCHANGED <<trailVars, at, st, visited, jumps, outcome, boundVars>>

EnterFanout ==
  /\ pc = "enter" /\ Def[at].shape = "fanout"
  /\ LET units == FanoutFn(at, st.primary, epoch)
     IN  /\ units \in Seq(Tag) /\ units # <<>>
         /\ unit' = [Single EXCEPT !.todo = units, !.tag = units[1]]
  /\ pc' = "session"
  /\ UNCHANGED <<trailVars, at, st, visited, jumps, outcome, boundVars>>

(* tryIterate freezes the primary artifact the generator keeps seeing.     *)
EnterIterate ==
  /\ pc = "enter" /\ Def[at].shape = "iterate"
  /\ pc' = "pull" /\ unit' = [Single EXCEPT !.entry = st.primary]
  /\ UNCHANGED <<trailVars, at, st, visited, jumps, outcome, boundVars>>

(* runIterate asks for the unit at index Len(acc).                         *)
PullUnit ==
  /\ pc = "pull"
  /\ LET tag == IterateFn(at, unit.entry, unit.acc, epoch)
     IN  \/ /\ tag = NoUnit
            /\ pc' = "route"
            /\ UNCHANGED <<trailVars, at, st, visited, jumps, unit, outcome>>
         \/ /\ tag \in Tag /\ Len(unit.acc) < MaxIterations
            /\ pc' = "session" /\ unit' = [unit EXCEPT !.tag = tag]
            /\ UNCHANGED <<trailVars, at, st, visited, jumps, outcome>>
         \/ /\ tag \in Tag /\ Len(unit.acc) >= MaxIterations
            /\ Halt(NextNumber, at, NoUnit)
  /\ UNCHANGED boundVars

-----------------------------------------------------------------------------
(* The session of a stage or of a unit settles.                            *)

InFanoutUnit == unit.todo # <<>>
InIterateUnit == unit.todo = <<>> /\ unit.tag # NoUnit

(* Mutant: the number the row was given is not kept.                       *)
CommittedWithoutNumber(num, out) ==
  LET counted == [st EXCEPT !.completed = @ + 1]
  IN  IF out = "none" THEN counted
      ELSE ApplyCompletedStage([counted EXCEPT !.output = num], Def[at], num, out)

(* recordStageSuccess, recordFanoutSuccess and recordScriptSuccess, once   *)
(* the row numbered num has landed.                                        *)
Committed(num, out) ==
  LET counted == [st EXCEPT !.allocated = num, !.completed = @ + 1]
  IN  IF out = "none" THEN counted
      ELSE ApplyCompletedStage([counted EXCEPT !.output = num], Def[at], num, out)

(* onSuccess: the next fanout unit, the generator, or the outgoing edge.   *)
AdvanceUnit(num) ==
  IF InFanoutUnit
  THEN IF unit.done + 1 < Len(unit.todo)
       THEN /\ pc' = "session"
            /\ unit' = [unit EXCEPT !.done = @ + 1, !.tag = unit.todo[unit.done + 2]]
       ELSE /\ pc' = "route"
            /\ unit' = [unit EXCEPT !.done = @ + 1, !.tag = NoUnit]
  ELSE IF InIterateUnit
  THEN /\ pc' = "pull"
       /\ unit' = [unit EXCEPT !.acc = Append(@, num), !.tag = NoUnit]
  ELSE /\ pc' = "route" /\ UNCHANGED unit

SessionCompletes ==
  /\ pc = "session"
  /\ \E out \in OutputsOf(at, unit.tag) :
       /\ Landed(StageRow(NextNumber, at, unit.tag, "completed", out))
       /\ st' = Committed(NextNumber, out)
       /\ AdvanceUnit(NextNumber)
  /\ UNCHANGED <<at, visited, jumps, outcome, boundVars>>

(* The session completed and its row was not written: the chain stops.     *)
SessionAuditFails ==
  /\ pc = "session"
  /\ \E out \in OutputsOf(at, unit.tag) :
       AppendFails(StageRow(NextNumber, at, unit.tag, "completed", out))
  /\ Settle("error")
  /\ UNCHANGED boundVars

(* The agent stopped early, its output is missing or stays invalid after   *)
(* the retries, a script threw, or the user cancelled: a row under the     *)
(* session's own label.                                                    *)
SessionHalts ==
  /\ pc = "session"
  /\ Halt(NextNumber, at, unit.tag)
  /\ UNCHANGED boundVars

(* Mutant: no frame records what a session throws.                         *)
SessionThrowsUncaught ==
  /\ pc \in {"session", "pull"}
  /\ UNCHANGED trailVars /\ Settle("thrown")
  /\ UNCHANGED boundVars

(* The session machinery or the generator throws.  On a live activation    *)
(* runStageOrRecordFailure writes a bare row; a unit that a resume entered *)
(* directly has no such frame above it.                                    *)
SessionThrows ==
  /\ pc \in {"session", "pull"}
  /\ \/ unit.caught /\ Halt(NextNumber, at, NoUnit)
     \/ ~unit.caught /\ UNCHANGED trailVars /\ Settle("thrown")
  /\ UNCHANGED boundVars

-----------------------------------------------------------------------------
(* advanceChain                                                            *)

(* Mutant: a stage is visited as soon as it is chosen.                     *)
LeaveForVisited(next) ==
  /\ visited' = visited \cup {at, next}
  /\ at' = next

(* Mutant: the stage that is left is not marked.                           *)
LeaveForUnmarked(next) ==
  /\ visited' = visited
  /\ at' = next

LeaveFor(next) ==
  /\ visited' = visited \cup {at}
  /\ at' = next

RouteStop ==
  /\ pc = "route" /\ Stop \in Edge[at].targets
  /\ Settle("success")
  /\ UNCHANGED <<trailVars, boundVars>>

RouteNext ==
  /\ pc = "route" /\ ~Edge[at].decision
  /\ \E next \in Edge[at].targets \ {Stop} : LeaveFor(next)
  /\ pc' = "enter"
  /\ UNCHANGED <<trailVars, st, jumps, unit, outcome, boundVars>>

(* auditRoutingDecision: a dropped routing row does not stop the chain.    *)
RouteDecision ==
  /\ pc = "route" /\ Edge[at].decision
  /\ \E next \in Edge[at].targets \ {Stop} :
       /\ BestEffort(RoutingRow(at, next))
       /\ LeaveFor(next)
  /\ pc' = "guard"
  /\ UNCHANGED <<st, jumps, unit, outcome, boundVars>>

(* The edge function threw, or answered a stage that is not declared: the  *)
(* row is attributed to the stage that had just completed.                 *)
RouteError ==
  /\ pc = "route" /\ Edge[at].decision
  /\ Halt(NextNumber, at, NoUnit)
  /\ UNCHANGED boundVars

(* checkBackwardJumpGuard, with `at' the stage the decision picked.        *)
EscapeLoop ==
  /\ pc = "guard" /\ at \notin visited
  /\ jumps' = 0 /\ pc' = "enter"
  /\ UNCHANGED <<trailVars, at, st, visited, unit, outcome, boundVars>>

(* Mutant: one jump beyond the budget.                                     *)
JumpBackOnceMore ==
  /\ pc = "guard" /\ at \in visited
  /\ \/ /\ jumps <= MaxBackwardJumps
        /\ jumps' = jumps + 1 /\ pc' = "enter"
        /\ UNCHANGED <<trailVars, at, st, visited, unit, outcome>>
     \/ /\ jumps > MaxBackwardJumps
        /\ Halt(NextNumber, at, NoUnit)
  /\ UNCHANGED boundVars

(* Mutant: the exhausted budget stops the loop and reports to nobody.      *)
JumpBackWithoutHalt ==
  /\ pc = "guard" /\ at \in visited
  /\ jumps + 1 <= MaxBackwardJumps
  /\ jumps' = jumps + 1 /\ pc' = "enter"
  /\ UNCHANGED <<trailVars, at, st, visited, unit, outcome, boundVars>>

JumpBack ==
  /\ pc = "guard" /\ at \in visited
  /\ \/ /\ jumps + 1 <= MaxBackwardJumps
        /\ jumps' = jumps + 1 /\ pc' = "enter"
        /\ UNCHANGED <<trailVars, at, st, visited, unit, outcome>>
     \/ /\ jumps + 1 > MaxBackwardJumps
        /\ Halt(NextNumber, at, NoUnit)
  /\ UNCHANGED boundVars

-----------------------------------------------------------------------------
(* resumeWorkflow: rebuild the run from its trail and enter at the seam    *)
(* its last row asks for.                                                  *)

Recon == ReconstructState(lines)

(* Mutant: the lists are told apart by their lengths.                      *)
DriftedByLength(completed, units) == Len(completed) > Len(units)

(* fanoutPrefixDrifted                                                     *)
Drifted(completed, units) ==
  Len(completed) <= Len(units) => completed # SubSeq(units, 1, Len(completed))

(* The rebuilt run takes over at the given seam.                           *)
Reenter(v, phase, activation) ==
  /\ pc' = phase /\ unit' = activation
  /\ at' = v.last.stage /\ st' = v.st /\ visited' = v.visited
  /\ jumps' = 0 /\ outcome' = "none"
  /\ UNCHANGED trailVars

RefuseDrift(v) == Halt(v.st.allocated + 1, v.last.stage, NoUnit)

(* Mutant: the whole list is run again.                                    *)
ResumeFanoutFromStart(v) ==
  LET units == FanoutFn(v.last.stage, v.st.primary, epoch)
  IN  /\ units \in Seq(Tag) /\ units # <<>>
      /\ Reenter(v, "session", [Single EXCEPT !.todo = units, !.tag = units[1]])

(* resumeFanoutStage: recompute the list and go on behind the prefix.      *)
ResumeFanout(v) ==
  LET units == FanoutFn(v.last.stage, v.st.primary, epoch)
      done == Len(v.gen.units)
      stage == [Single EXCEPT !.todo = units, !.done = done, !.caught = FALSE]
  IN  /\ units \in Seq(Tag)
      /\ \/ Drifted(v.gen.units, units) /\ RefuseDrift(v)
         \/ /\ ~Drifted(v.gen.units, units) /\ done = Len(units)
            /\ Reenter(v, "route", stage)
         \/ /\ ~Drifted(v.gen.units, units) /\ done < Len(units)
            /\ Reenter(v, "session", [stage EXCEPT !.tag = units[done + 1]])

(* resumeIterateStage: pull once to compare the unit with the one the run  *)
(* died on; runIterate then pulls again.                                   *)
ResumeIterate(v) ==
  LET tag == IterateFn(v.last.stage, v.gen.entry, v.gen.acc, epoch)
      drifted == v.last.status # "completed" /\ tag # v.last.unit
      stage == [Single EXCEPT !.entry = v.gen.entry, !.acc = v.gen.acc,
                              !.caught = FALSE]
  IN  \/ drifted /\ RefuseDrift(v)
      \/ ~drifted /\ tag = NoUnit /\ Reenter(v, "route", stage)
      \/ ~drifted /\ tag \in Tag /\ Reenter(v, "pull", stage)

(* The generator asked by the resume itself may throw: nothing is caught.  *)
ResumeUnitStage(v) ==
  /\ IsDecorated(v.last)
  /\ \/ Def[v.last.stage].shape = "fanout" /\ ResumeFanout(v)
     \/ Def[v.last.stage].shape = "iterate" /\ ResumeIterate(v)
     \/ UNCHANGED trailVars /\ Settle("thrown")

(* A completed trailer routes onward, any other runs its stage again.      *)
ResumeSingle(v) ==
  /\ ~IsDecorated(v.last)
  /\ Reenter(v, IF v.last.status = "completed" THEN "route" ELSE "enter", Single)

Resume ==
  /\ pc \in {"down", "ended"} /\ resumes < MaxResumes
  /\ HeaderReadable /\ Recon.last # NoRow
  /\ ResumeUnitStage(Recon) \/ ResumeSingle(Recon)
  /\ resumes' = resumes + 1
  /\ UNCHANGED <<epoch, drifts>>

-----------------------------------------------------------------------------
(* The environment *)

(* The process is killed, between two steps or in the middle of an append. *)
Crash ==
  /\ Running
  /\ \/ UNCHANGED trailVars
     \/ /\ MayTear /\ pc = "session" /\ UNCHANGED faults
        /\ \E out \in OutputsOf(at, unit.tag) :
             Torn(StageRow(NextNumber, at, unit.tag, "completed", out))
  /\ pc' = "down" /\ Release("none")
  /\ UNCHANGED boundVars

(* What the author's generators read besides their arguments changes.      *)
Drift ==
  /\ drifts < MaxDrifts
  /\ \E e \in Epoch \ {epoch} : epoch' = e
  /\ drifts' = drifts + 1
  /\ UNCHANGED <<trailVars, runVars, resumes>>

-----------------------------------------------------------------------------
(* The steps of the runner and of the sessions it waits for.               *)
Work ==
  \/ HaltAtSeam \/ EnterSingle \/ EnterFanout \/ EnterIterate \/ PullUnit
  \/ SessionCompletes \/ SessionAuditFails \/ SessionHalts \/ SessionThrows
  \/ RouteStop \/ RouteNext \/ RouteDecision \/ RouteError
  \/ EscapeLoop \/ JumpBack

Next == Launch \/ Work \/ Crash \/ Resume \/ Drift

Spec == Init /\ [][Next]_vars

(* Every session settles and the runner takes its next step.  Nothing      *)
(* obliges anybody to launch, kill or resume a run.                        *)
FairSpec == Spec /\ WF_vars(Work)
=============================================================================
