# Verification of rpiv

TLA+ models of the programs in this monorepo, the TLC configurations that check
them on small instances, and TLAPS proofs of what matters most. All paths below
are relative to the repository's `packages/` unless they start with a module name.

## 1. Inventory

The repository is a set of extensions of the Pi coding agent. One JavaScript
thread runs all of them; what makes them hard is `await`, process death, files
that outlive the process, and host events that arrive in any order.

| part | state | operations | what is hard | what makes it correct |
|---|---|---|---|---|
| **rpiv-workflow runner** (`runner/`, `audit.ts`, `routing.ts`, `fanout.ts`, `iterate.ts`) | `RunContext`: the stage, `RunState` (primary artifact, last output, named outputs, counters), the visited set, the jump budget | `runWorkflow`, `resumeWorkflow`, stage entry in four shapes, unit loops, routing, halts | continuation-passing chain; every halt has to leave a row *and* an envelope; loops need budgets | a call settles; envelope and trail agree; retries are bounded |
| **rpiv-workflow resume** (`runner/resume*.ts`) | none of its own: a fold over the file | rebuild `RunState`, choose the seam to re-enter, refuse drifted unit lists | a second implementation of the live transitions, in another file | the rebuilt run equals the one that died; no unit skipped or repeated |
| **rpiv-workflow audit trail** (`state/`) | one append-only JSONL file per run | append a header, a stage row, a routing row; read all, last, header | appends fail or stop part-way and are fail-soft | rows keep their order and numbers; the file never claims more than was done |
| **rpiv-workflow sessions** (`sessions/`, `runner/script-stage.ts`) | the agent's session, a retry counter | spawn, collect, parse, validate, ask the agent to fix | timeouts that do not cancel, retries, stages that share a session | a stage completes with its own latest, valid output or halts with one row |
| **rpiv-workflow loading** (`load/`, `validate-workflow.ts`, `api.ts`) | a cache of imported files | find, import, merge, alias, validate | overlapping loads of files being edited; the validator is what the runner trusts | a load is never older than itself; a workflow that validates runs |
| **rpiv-pi model override** (`model-override.ts`, `skill-bracket.ts`) | the captured model, a baseline, an armed slot; Pi's settings file | session start, workflow start and end, stage start, skill input, agent end | Pi persists every `setModel`; events interleave; `setModel` may refuse or throw | the user's model is back when nothing runs; a stage without an override never runs on another stage's |
| **rpiv-pi agent sync** (`agents.ts`) | a manifest, a marker, the files | sync with three-way comparison, forced update | a kill or a failed write between any two of them | an edit survives; updates are not held back |
| **rpiv-pi hooks** (`session-hooks.ts`, `git-context.ts`, `guidance.ts`) | a git cache, what was injected | session start, compaction, shutdown, tool calls; two chores on old files | a cache filled after an await; a compaction that outlives its session; kills inside a chore | memory and transcript agree; the context is current; no file is lost |
| **rpiv-voice dictation** (`pipeline-runner.ts`, `mic-source.ts`, `state/`) | the speech buffer, a chain of decodes, the transcript, the state behind the overlay | audio, silence, cap flush, partial decode, pause, settings, commit, cancel | partial decodes race final ones; commit while a segment is pending; the device's start | what was spoken is decoded once and in order; the overlay shows no phrase twice |
| **rpiv-voice model** (`model-download.ts`) | a directory and a sentinel | download, unpack, trim, mark, wipe, check | kills between any two writes | the recognizer is never given a file cut short |
| **rpiv-telemetry** (`dispatcher.ts`, `instrumentation/`, MLflow provider) | a bounded queue, an in-flight promise, tracked sub-agents, open spans | dispatch, drain, shutdown, Pi's and the bus's events | saturation, shutdown in mid-drain, failing providers, ends that race it | events reach a provider in order, at most the oldest are lost; every span ends |
| **rpiv-todo** | tasks with blockers, a next id, the overlay | create, update, delete, clear, replay of a branch | the store is ahead of the branch; one update removes and adds blockers | no cycles; a replay gives back the live list |
| **rpiv-ask-user-question** | answers, notes, drafts, checks per tab, modes | every key in every mode | the same note lives in three places | what is on the screen is what is sent |
| **rpiv-web-tools clone cache** (`interceptors/github.ts`) | a map of clones, their directories | fetch, probe, clone, abort | concurrent fetches share one clone | every fetch is answered, and from a whole clone |
| **rpiv-advisor** | the choice in memory and in a file, the active tools | session, model and level events, `/advisor` | the file is shared; a save may fail | the tool is active iff the policy allows it |
| **rpiv-btw** | a snapshot and a history per session | ask, dismiss, clear, compaction, moves in the tree | late answers, sessions that end | a side question is about this branch |
| **rpiv-warp** | pending calls, two timers, a title | six events of Pi | aborted calls, timers | the tab says what the agent does |
| rpiv-args, rpiv-i18n, rpiv-config | little | substitution, lookup, JSON files | - | - |
| rpiv-site, test-utils, scripts | - | documentation, fixtures, releases | - | - |

How they interact: the runner fires lifecycle events (`lifecycle.ts`) that
rpiv-pi's model override, rpiv-telemetry and rpiv-warp listen to; the runner's
dispatcher swallows what a listener throws. rpiv-pi registers the built-in
workflows the runner executes. The runner's sessions are Pi sessions, whose
`session_start` events reach the hooks of every extension. rpiv-config and
rpiv-i18n are libraries of the others. Apart from these events the packages share
no state, which is why they are checked side by side and not in one product.
`PROJECT.json` lists every part with its status, and under `hazards` what is
hard to test, each at its line with the properties that would catch it.

## 2. Modules

```
Workflow            stages, edges, generators: the CONSTANTS and their ASSUMEs
  Reconstruct       rows, RunState, the fold of runner/resume.ts   (no state)
    AuditTrail      the JSONL file: lines, open, faults
      WorkflowRun   the runner: Init, one action per step, Spec, FairSpec
        RunProperties   what is checked; S == INSTANCE Story
          MCPipeline MCUnits MCSelfLoop     instances for TLC
    Story           abstract: one file, every row licensed by the rows before it
          WorkflowRunProofs     typing, numbering, NeverAhead
            StoryProofs         parity, envelope, units, OneStory, retries, the variant
StageSession        the inside of one step of WorkflowRun
Loader              overlapping loads and the import cache
Validation          the validator, and the run of what it accepts

ModelsConfig        models.json: entries, rungs, the cascade     (no state)
  ModelOverride     the workflow's and the skill's override scopes around Pi
    MCOverride, OverrideProofs
AgentSync           manifest, marker, kills
SessionHooks        git context and guidance      Leftovers      the two chores

LossyFifo           abstract: a FIFO that may give up its oldest
Dispatcher          the bounded queue and the chain of batches
  Telemetry         Pi's events, spans, shutdown; Fifo == INSTANCE LossyFifo
    MCTelemetry, TelemetryProofs

Dictation  ModelInstall        rpiv-voice
TaskList                       rpiv-todo
Questionnaire                  rpiv-ask-user-question
CloneCache                     rpiv-web-tools
Advisor  Btw  Warp             the packages of these names

MCSettling          Dictation, CloneCache, StageSession: what has to settle
  SettlingProofs      the theorems about these three
MCPackages          the eleven others
  PackageProofs       the theorems about these eleven
SequenceFold        folds over a sequence: existence, one more element, induction
  Segments            FlattenSeq as such a fold
Absence             None
```

`MCSettling` and `MCPackages` explore components that share no state one at a
time: a variable chosen in the initial state says which, and the others stand
still. The behaviours of each are exactly those of its own specification.

**Workflow** is what an author writes: a map of stages (`StageDef`, `api.ts`)
and edges. `FanoutFn` and `IterateFn` are the author's generators, functions of
exactly what the contract in `runner/resume.ts` lets them depend on (entry
artifact, accumulated outputs), plus an `epoch`: a version of the outside world,
so that a generator that breaks its contract between two calls can be modelled.

**Reconstruct** is `reconstructState` row by row. `View` is the fold's
accumulator. `gen` stands for `lastFoldedUnitParent` together with the entry of
`fanoutProgress` or `iterateProgress` for that parent: a resume reads no other.

**AuditTrail** is `tryAppendJsonl` and its readers. `Landed` is an append that
returned true; when the last line is `open` (its newline is missing) the new row
is glued to it. `AppendFails` writes nothing or, under `MayTear`, a part of the line.

**WorkflowRun**. A step of the model is what the code does between two awaits.

| model | code |
|---|---|
| `pc`, `at` | where the promise chain stands and for which stage |
| `st` | `RunState` without telemetry |
| `visited`, `jumps` | `RunContext.visited`, `telemetry.backwardJumps` |
| `unit` | the arguments `runFanout` / `runIterate` thread through their continuations; `caught` is whether `runStageOrRecordFailure` is on the stack |
| `outcome` | the envelope of the last call: success, error, or a rejected promise |
| `Launch` | `runWorkflow` writing the header |
| `HaltAtSeam`, `EnterSingle`, `EnterFanout`, `EnterIterate` | `runStageOrRecordFailure`, `runStage` and its preflights, `tryFanout`, `tryIterate` |
| `PullUnit` | one turn of `runIterate`: done, next unit, or the cap |
| `SessionCompletes`, `SessionAuditFails`, `SessionHalts`, `SessionThrows` | the four ways a session, script or unit settles |
| `RouteStop`, `RouteNext`, `RouteDecision`, `RouteError`, `EscapeLoop`, `JumpBack` | `advanceChain`, `nextStage`, `checkBackwardJumpGuard`, `haltOnRoutingError` |
| `Resume` | `resumeWorkflow`: fold the file, then `selectResumeEntry`, `resumeFanoutStage`, `resumeIterateStage` |
| `Crash`, `Drift` | the process is killed; the world the generators read changes |

Abstractions, and why they lose nothing the properties look at:

- An `Output` is the number of the row that carries it, its first artifact
  likewise; 0 is `undefined`. Two outputs are the same iff their numbers are.
- failed, aborted and skipped rows fold the same way and are one status.
- A session is one step with every outcome it can have; validation retries
  happen inside it and write nothing to the run.
- A generator sees `artifact`, `accumulated` and the epoch, not the whole `state`.
- The workflow does not change between two calls, so `stage-gone` never occurs.
- The `RunContext` is reset when a call settles or the process dies: nothing of
  it can be read by the next call, which has the file only.

**Story** is the abstract specification: the sentence of `runner.ts` that a
trail "reads as one story: ran, failed, resumed, continued", made precise. It has
one variable, the stage rows, and one action: append a row that `Licensed`
allows after the rows before it. It knows no processes, crashes or resumes.
`OneStory` says that WorkflowRun implements it under `story <- StoryOfRun`.

**ModelsConfig** is `loadModelsConfig` and `resolveStageModel`: a file is four
rungs, an entry's missing fields come from `defaults` when the file is loaded,
and the most specific rung that has a stage answers alone. `Blank` stands for an
entry that is `undefined` or has no field: no caller tells the two apart.

**ModelOverride**. Each event handler is an action; one that awaits `setModel` is
two, the call and what follows Pi's answer (`...Settles`), so that the user, the
other scope and Pi may act in between. `setModel` takes effect when it answers.

| model | code |
|---|---|
| `model`, `thinking` | Pi's settings, which `setModel` persists |
| `capturedModel`, `baseline`, `baselineCaptured`, `armedBaseline` | the module-level variables of the same names |
| `workflow`, `turn` | how far the run's and the skill turn's handlers have come; `call` is what a suspended handler asked of Pi |
| `SessionStart` | the `session_start` handler, at the prompt or in a stage's new session |
| `onWorkflowStart`, `onStageStart`, `onWorkflowEnd` | the listener registered with the runner, awaited in turn |
| `StageEnds`, `RunThrows` | the runner between two events; a run that throws skips `onWorkflowEnd` |
| `input`, `agent_end` | the bracket around a skill the user typed |
| `UserPicksModel`, `UserPicksLevel` | the user, at any moment |
| `userModel`, `userModels`, `userLevels`, `touched`, `spoiled`, `overlapped` | history, read by no action |

Pi answers `setModel` with true or false or throws; `setThinkingLevel` and
`getThinkingLevel` may throw. A stale-session error and another differ in what
the user is told, not in the state, and are one outcome. Assumed of Pi, as
`skill-bracket.ts:22` says: no second prompt is taken while a turn is open, so an
armed turn reaches its `agent_end` before the next `input` or the user's next
session. A run, however, may start while a turn is open. The cached
configuration does not change within a behaviour.

**StageSession**. What `WorkflowRun` takes as `SessionCompletes`, `SessionHalts`
or `SessionThrows` is here a session of turns. A turn is how it stopped, whether
it made an artifact and whether the schema would take it; a version of the
artifact is the position of the turn that wrote it, and `offset` is how many
turns an earlier stage left in a session that is shared (`continue`).

| model | code |
|---|---|
| `step` | where `runStageSession` / `runScriptStage` stands |
| `working` | the agent is in a turn; it may never end one |
| `collect` | `buildCollectCtx` and the outcome behind `branchOffset` |
| the retry steps | `retryUntilValid`: attempts clamped by `MIN_` and `MAX_VALIDATION_RETRIES`, `askAgentToFix` under a timer |
| `Timed` | the waits that `withTimeout` bounds; scripts have none, which is why `SessionSettles` speaks of sessions only |

**Loader** has one action per await of `loadWorkflows`: a file is stat'ed, then
imported or taken from the cache, then merged. A version of a file is a number
that grows with each edit. **Validation** generates what an author's file may
contain (jiti erases the types), applies the skill aliases as the loader does,
computes the validator's errors, walks the graph as its breadth-first search
does, and then runs what was accepted along every edge.

**AgentSync** has one action per write of `syncBundledAgents`: an entry copied,
the manifest renamed into place, the marker, an unlink, the manifest again. Each
may fail; `Kill` may follow any of them. A content is a version, its hash the
same; `Unknown` is the hash an entry of the old manifest format has.

**SessionHooks**: `cache`, `lastInjectedSig`, `injectedGuidance` are the variables
of those names; `head` is where git stands; `transcript` is what the session
holds; `loads` are the calls of `getGitContext` under way. **Leftovers** are the
two chores of `onSessionStart`, entry by entry.

**Dictation**. A chunk of audio is the number of its capture and the text of a
segment is the chunks it was made of, so that "once and in order" can be said.

| model | code |
|---|---|
| `device`, `pending` | the raw microphone with its startup race over the rates, and the adapter's queue (`mic-source.ts`) |
| `buffer`, `queue`, `partial`, `epoch` | `speechBuffer`, the chain of final decodes, the partial decode under way with its snapshot, `utteranceEpoch` |
| `ui`, `config` | the state of the overlay (`state-reducer.ts`) and what is on disk |
| `command` | `voice-command.ts` from the preflight to the paste |

The engine decodes synchronously today, inside a promise; the model lets a decode
settle late, as its interface allows, so its interleavings are a superset.

**ModelInstall** has one action per write of `ensureModelDownloaded`; a file is
absent, partial or whole. **CloneCache**: a step ends where `github.ts` awaits;
`fetch`, `cache`, `clone`, `dir` are the calls, the map, the promises and the
directories. **TaskList**: ids are positions; `results` are tool results on their
way from `tool_execution_end` to the branch at `message_end`. **Questionnaire**:
one action per handler of the reducer, guarded by the key router's modes; free
text that the reducer never sees (`handleIgnoreInline`) is an action too.
**Advisor**, **Btw**, **Warp**: one action per handler of Pi's events. Warp's badge
is external: `Receives` says what each message does to it, from the table of the
package's README and the comments in `index.ts` (a "Blocked" badge stays until
`tool_complete` or a new prompt). In Btw a compaction leaves the branch as it is,
since `getBranch()` keeps the compacted messages and the summary is no message.

**Telemetry** extends **Dispatcher**: the handlers of Pi's events and of the
sub-agents' bus call `dispatch`; a batch's events reach the provider one at a
time, where they open and end spans. A span is the number of the event that
opened it. **LossyFifo** is the abstract specification: accept, hand over the
oldest, close, reopen only when empty; an event may be given up only when a full
queue of newer ones is behind it. It has no queue, batch, job or promise.
`KeepsOrder` says that Telemetry implements it.

## 3. Properties and runs

| property | says |
|---|---|
| `StateParity` | at every instant of a call, the fold over the file equals the live `RunState` |
| `VisitedParity` | likewise for the visited set, up to the stage in progress |
| `UnitParity` | likewise for a unit loop: same completed prefix, entry artifact, accumulated outputs |
| `UnitsExactlyOnce` | leaving a fanout, the trail has each unit completed once, in order |
| `EnvelopeMatchesTrail` | a success leaves nothing to resume, an error leaves something, a rejection leaves the unit |
| `RetriesBounded` | each call, and each detour that may bring a stage up again, grants the stage `MaxBackwardJumps + 1` completions, and nothing else does |
| `NumbersIncrease` | stage numbers increase along the file |
| `NeverAhead` | the file never claims more than the live run did, torn lines included |
| `NearerTheEnd` | a step settles the call or lowers what is left of it: (jumps and stages never reached, stages ahead on fixed edges, phases of the stage, units), in this order |
| `CallSettles` | a call that runs eventually settles |
| `OneStory` | refinement of Story |
| `NoOverrideSurvives` | no scope open and no call refused: the model in force is one the user picked |
| `LevelRestored` | the same for the thinking level, if no scope began inside the other |
| `SnapshotsAreTheUsers` | no call refused: what later scopes will restore is a model the user picked; and a run that ended left no snapshot |
| `StageRunsOnItsModel` | a running stage is on its own model or the baseline, never on its predecessor's |
| `KeepsOrder` | refinement of LossyFifo |
| `OneTerminalEvent` | an announced sub-agent ends exactly once by the time the dispatcher closes |
| `SpansAreKept` | no attribute goes to a span that has ended, and no span is left open behind a session |
| `ShutdownSettles` | the handler of `session_shutdown` returns |
| `NothingLost` | every chunk of audio is decoded, queued or buffered exactly once, in the order spoken |
| `OverlayAgrees` | overlay and pipeline agree, and the preview shows nothing whose final decode has settled |
| `WindsDown` | after Enter or Escape the microphone is let go and the final transcript resolves |
| `ReportsWholeClone` | a fetch about to report a clone finds all of it on disk |
| `FetchesAreAnswered` | every fetch is answered, whatever became of the clone it waits for |
| `CommitsLatestValid` | a completed stage commits its own latest artifact, valid if it has a schema |
| `SessionSettles` | a stage with a session settles though agent and schema may never answer a retry |
| `StoreMatchesBranch`, `NoDeadlockedTasks` | the store is what a replay of the branch gives; no task waits for itself or for none |
| `EditsSurvive`, `SyncConverges` | a user's edit survives every sync; without faults a sync leaves the rest as shipped |
| `MemoryMatchesTranscript`, `ContextIsCurrent` | what is believed injected is in the transcript; an agent starts with HEAD's context |
| `ValidWorkflowsRun` | what the validator accepts runs, with no stage missing or impossible and no field ignored |
| `LoadIsFresh` | no load uses a version older than the load |
| `ScreenMatchesAnswers` | boxes and notes on the screen are those recorded for the tab |
| `EngineLoadsWholeFiles` | no file cut short reaches the recognizer |
| `TabTellsTheTruth` | badge, heartbeat and title follow the agent; an aborted agent leaves no "Blocked" badge behind |
| `AsksAboutThisBranch` | in every session a side question is about a prefix of the branch, never about messages undone |
| `UserFilesSurvive` | the chores lose no file of the user, wherever they stop |
| `AdvisorFollowsPolicy` | a running agent has the tool iff an adviser is chosen and not blocked |

| run | instance | bounds | shows |
|---|---|---|---|
| `pipeline` | plan, implement, review (script, decision), fix (back to review), commit (terminal): two loops through one decision | 1 failed append, 1 resume, 1 backward jump | parity, envelope, retries, settling |
| `units` | iterate, fanout, check with a decision back to the start | as `pipeline`, but 2 resumes; 2 iterations, 1 drift | unit parity, each unit once, the variant, one story |
| `torn` | as `pipeline` without the fix, appends may tear | 1 failed append (kills may tear too), 2 resumes | numbering and `NeverAhead` |
| `override` | two stages (one a script), two skills, three files using every rung, an unknown name and a level-only entry | none: the state is finite | the four of `MCOverride.cfg` |
| `telemetry` | a queue of 2, one tool call, one sub-agent, two requests that may overlap | 3 events accepted per session before Pi falls silent, 2 sessions | order, terminal events, spans, shutdown |
| `settling` | dictation of 3 chunks on a device with 2 rates; 3 fetches of 2 repositories, one by hash; a session of up to 6 turns with every stage definition | as named | the seven of `MCSettling.cfg` |
| `packages` | see `MCPackages.cfg` | see there; each component its own | the fourteen of `MCPackages.cfg` |
| `self_loop`, `stale_baseline`, `lost_context`, `orphan`, `aborted_retry` | one property each | | the disagreements of section 5 |

Bounds. One resume exercises the reset of the jump budget, and two, in `units` and
`torn`, a resume of a resumed run; one failed append is enough for each way a row can
be missing, since after it the call settles and the next fault would be another
call's. One backward jump reaches both sides of the guard, two iterations both
sides of the cap. The fix of `pipeline` is an escape in mid-loop that resets the
budget, a detour of what it leads back to: a stage that a decision may choose, that
can be bypassed on the way to a stage `s` and from which `s` can be reached. Taken
for the first time when `s` has completed already, it resets the budget, once. The
generators of MCUnits depend on their artifact, so a
resume with a wrong entry artifact would run a visibly wrong unit; they shrink,
change behind a shared prefix and run away between the epochs. A queue of two
with three events overflows, once before and once during a drain. Three chunks
with a cap of three and a scan of two flush by silence, by the cap and by the
end. Three fetches are a cloner, one that waits for it and one that clones after
a failure. Three contents of an agent are an install and two upgrades, the second
over a kill. Two loads of two files with two edits overlap in every order. Three
stage names are the least with a branch, a join and an orphan. No state
constraint is used: all bounds are guards. Where `CHECK_DEADLOCK FALSE` is set the
component really may stop: a settled run, an answered questionnaire, a process
that shut down.

Fairness. `FairSpec` of the runner is weak fairness of `Work`, its own steps: the
event loop takes a continuation that is ready, and a session is assumed to settle
(Pi ends every first turn; an agent that never answers one hangs the command by
design). Launching, killing and resuming are not fair. StageSession assumes of
the agent only that a *first* turn ends, of a retry and of a schema nothing: their
timers are fair. Dictation assumes that the event loop delivers what is queued,
that a decode settles, that a stopped stream ends and that a closing command goes
on; nothing of the user, the speech or a failing device. CloneCache lets every
fetch take its next step: gh, git and the API are all called under a timeout.
Telemetry assumes that immediates run, that a provider's promise settles and that
a teardown that began goes on; never that Pi shuts down or that work arrives.

The instances of the parity runs have no stage that follows itself and no
iterate stage without a first unit; `self_loop` shows what happens without the
first, and `IteratesStart` is a hypothesis of the theorem for the second.

## 4. Proofs

Checked by TLAPS for every value of the constants. Every safety property that a
passing run checks is the subject of a theorem.

| theorem | of | in | assumes |
|---|---|---|---|
| `TypeCorrect` | `TypeOK` | WorkflowRunProofs | - |
| `NumbersAlwaysIncrease` | `NumbersIncrease` | WorkflowRunProofs | - (appends may tear) |
| `TrailIsNeverAhead` | `NeverAhead` | WorkflowRunProofs | - (appends may tear) |
| `StateAlwaysRebuilt` | `StateParity` | StoryProofs | `~MayTear` |
| `VisitedAlwaysRebuilt` | `VisitedParity` | StoryProofs | `~MayTear`, `IteratesStart` |
| `UnitsAlwaysStand` | `UnitParity` | StoryProofs | and `NoUnitLoop` |
| `TrailIsOneStory` | refinement `OneStory` | StoryProofs | the same |
| `UnitsRunExactlyOnce` | `UnitsExactlyOnce` | StoryProofs | the same |
| `EnvelopeAlwaysMatches` | `EnvelopeMatchesTrail` | StoryProofs | and `SteadyGenerators` |
| `RetriesAreBounded` | `RetriesBounded` | StoryProofs | `~MayTear`, `IteratesStart`, `LoopsAreGuarded` |
| `EveryStepIsNearerTheEnd` | `NearerTheEnd` | StoryProofs | `LoopsAreGuarded` (appends may tear) |
| `OverrideTypeCorrect` | `TypeOK` | OverrideProofs | - |
| `OverridesAreUndone` | `NoOverrideSurvives` | OverrideProofs | - |
| `SnapshotsStayTheUsers` | `SnapshotsAreTheUsers` | OverrideProofs | - |
| `LevelsAreRestored` | `LevelRestored` | OverrideProofs | - |
| `StagesRunOnTheirModels` | `StageRunsOnItsModel` | OverrideProofs | - |
| `CommitsAreLatestAndValid` | `CommitsLatestValid` | SettlingProofs | - |
| `ReportedClonesAreWhole` | `ReportsWholeClone` | SettlingProofs | - |
| `NothingIsEverLost`, `OverlayAlwaysAgrees` | `NothingLost`, `OverlayAgrees` | SettlingProofs | - |
| `OrderIsAlwaysKept` | refinement `KeepsOrder` | TelemetryProofs | - |
| `TerminalEventsAreOne` | `OneTerminalEvent` | TelemetryProofs | no terminal kind is disabled |
| `SpansAreAlwaysKept` | `SpansAreKept` | TelemetryProofs | `EndsAreTold` |
| `LoadsAreFresh` | `LoadIsFresh` | PackageProofs | - |
| `AnyValidWorkflowRuns`, `ValidWorkflowsAlwaysRun` | `ValidWorkflowsRun` | PackageProofs | - |
| `EditsAlwaysSurvive`, `SyncAlwaysConverges` | `EditsSurvive`, `SyncConverges` | PackageProofs | - |
| `UserFilesAlwaysSurvive` | `UserFilesSurvive` | PackageProofs | - |
| `MemoryAlwaysMatches`, `ContextIsAlwaysCurrent` | `MemoryMatchesTranscript`, `ContextIsCurrent` | PackageProofs | - |
| `EngineAlwaysLoadsWholeFiles` | `EngineLoadsWholeFiles` | PackageProofs | `OneProcess` |
| `StoreAlwaysMatches`, `NoTaskDeadlocks` | `StoreMatchesBranch`, `NoDeadlockedTasks` | PackageProofs | - |
| `ScreenAlwaysMatchesAnswers` | `ScreenMatchesAnswers` | PackageProofs | - |
| `AdvisorAlwaysFollowsPolicy` | `AdvisorFollowsPolicy` | PackageProofs | - |
| `AlwaysAsksAboutThisBranch` | `AsksAboutThisBranch` | PackageProofs | - |
| `TabAlwaysTellsTheTruth` | `TabTellsTheTruth` | PackageProofs | - |

The hypotheses, each one the case where the code does otherwise or the contract
the code relies on:

- `~MayTear`: a part of a line reaches the disk only if the process or the disk
  dies inside one append; the run `torn` and the two theorems without it say what
  is left then.
- `NoUnitLoop`: no fanout or iterate stage follows itself; `self_loop` is the
  counterexample without it. `IteratesStart`: an iterate stage has a first unit;
  a stage without one leaves no row to rebuild `visited` from.
- `LoopsAreGuarded`: every loop of the graph passes a decision. The guard counts
  decisions only, and the validator does not ask for one (section 5).
- `SteadyGenerators`: a generator answers from its arguments, which is what
  `resume-fanout.ts:14` and `resume-iterate.ts:10` ask of it when they call it again
  and compare. Without it a list that shrank to the units already done makes a
  resume go on behind a unit that failed, and the envelope said otherwise.
- No terminal kind disabled (`disabledEvents` of the telemetry configuration): an
  event that the user switched off is not accepted. `EndsAreTold`: neither is the end
  of a turn, of a tool call or of the session; with `agent_end` off, say, the next
  turn's span takes the place of one that is never ended. A request's end may be
  switched off: no other request takes its number, and the shutdown ends its span.
- `OneProcess`: of two that install at once, one can be unpacking over the files
  the other has just verified (section 5).

Besides, each module's named `ASSUME`s about its constants, which TLC evaluates
on every run of the module: what is typed as what, that `None` is none of the
values it stands beside, and that the kinds of event Pi sends are events.

The arguments:

- *Folds.* The code's readers are folds over a file, and their models recursive
  functions. `SequenceFold` proves, for any start and step, that the recursion
  has an answer at every length (initial segments of `Nat` are well-founded under
  strict inclusion), that one more element is one more step, and the induction
  principle; its constants are operators, so a module instantiates it with the
  fold it has. The fold of `runner/resume.ts`, the story of a trail, the trailing
  block of units and `FlattenSeq` are four instances.
- *Typing* is inductive as it stands, given that a fold of typed lines is typed.
- *Numbering.* `NumbersIncrease` alone is not inductive: the next number has to
  exceed all those in the file. The invariant adds that the live allocator is an
  upper bound of them, and that the folded one is too; tearing and gluing replace
  a row by a garbled line, which only removes numbers.
- *Never ahead.* A lost or garbled line makes the fold smaller in every counter
  and in `visited`, and this order is kept by any further line (`FoldGrows`).
- *State parity.* `StateInv` pairs the parity with "no line is open", under which
  every append adds exactly one line. One step per action; the interesting ones
  are `SessionCompletes` (`Committed` against `FoldLine`, by shape) and `Resume`
  (the fold becomes the live state).
- *Visited parity.* Not inductive: a stage enters `visited` when it is *left*,
  and the fold counts it from its first row. `VisitedInv` adds that a stage being
  left has a row or is an exhausted iterate stage with one, and that the last
  row's stage is the one in progress after a resume.
- *Units and story.* `StoryInv` says where the live loop stands relative to the
  last row: a generation is open exactly when the trail ends in a unit, and then
  the live loop continues that generation or has not written yet. From it each
  append is a row `Story` licenses (`TrailIsOneStory`: initial states map to
  initial states, each step to an `Extend` or a stutter), and the trailing block
  of units in the file is the generation of the fold (`BlockIsGeneration`), which
  turns unit parity into "each unit once, in order".
- *Envelope.* Adds that a unit that failed is still due; here the generators have
  to be steady.
- *Retries.* A completion of `s` is charged to the moment the run set out for it: the
  launch, the resuming call, a jump, or a detour taken for the first time. `BudgetInv`
  keeps the account while the run is under way: completions, and one more if `s` is
  `Due` (ahead on fixed edges, which no guard sees), are within the allowance of the
  calls before and the detours `Taken` by now, and the jumps of this call. That an
  escape which resets the jumps really is a detour of every `s` that has completed and
  may come again is `NoShortcut`: a stage not visited yet has kept the run inside any
  region that only it leads out of, so it can be bypassed on the way to what completed.
  Paths and reachability are closed regions, so that no induction over paths is needed.
- *Why a call ends.* The variant is lexicographic, and each reset is paid for one place
  up: an escape sets the jumps to 0 and takes a stage off those never reached, which
  weighs one budget and one; a fixed edge resets phases and units and has strictly fewer
  stages ahead (`FixedAheadFalls`, from `LoopsAreGuarded`); a unit is pulled only
  under the cap. `VariantInv` needs the types, `jumps <= MaxBackwardJumps` and `UnderCap`,
  nothing of the file, so it holds under torn appends too. With the fairness of
  `FairSpec` this is `CallSettles`; the last inference is the prover's limit.
- *Overrides.* That nothing is left over when no scope is open says nothing about
  the steps inside a scope. `IInv` adds `Owed`: a model in force that the user
  did not pick is owed by a scope that knows it (`hasModelChange` set, or a
  restore already called for); and `Sources`: whatever a scope would restore is
  the user's. The step that needs care is the re-apply of the baseline, which
  clears `hasModelChange`: its target must already be known to be the user's.
  Both scopes restore the one frozen `capturedModel`, which is why their order
  does not matter for the model; the level is read live by each, which is why
  `LInv` needs `Apart`. `StageInv` carries what a stage is due from the call that
  asks Pi for it to the stage that runs.
- *Commits.* The invariant says, step by step, what `output` is of the turns so
  far, that nothing was written since it was collected, and that it passed the
  schema if the step is behind a validation.
- *Clones.* A cache entry, a directory and a clone's promise have one owner: the
  call that put itself into the map; who waits waits for a call of its own
  repository that did start a clone.
- *Dictation.* `NothingLost` is inductive with the types once the four places are
  one sequence: each step moves a chunk across one border of
  `settled`, `queue`, `buffer`, `pending`, and concatenation associates.
  `OverlayAgrees` needs that a partial decode of the present epoch was taken
  from what is still in the buffer.
- *Telemetry.* All a dispatcher holds is one sequence, `Outstanding`, from the
  rest of the batch in hand to the tail of the queue: `dispatch` appends to it and may
  drop one element that `Cap - 1` newer ones are behind, a provider's batch takes
  its head, and every other step, of the chain, of shutdown or of an immediate,
  regroups it and leaves it as it is. Its numbers rise, which gives `waiting` of
  `LossyFifo` and its guards. `TerminalsInv` relates announced, tracked and ended
  sub-agents in each of the three phases of a shutdown.
- *Spans.* The registry is behind Pi by the events outstanding. `OpenAreKnown` says
  that there is a path (`Lead`) from the spans it knows, through what each event of
  `Outstanding` starts and ends, to what Pi has running (`Within`), with none started
  twice on the way. `dispatch` makes the path longer, a batch that hands an event
  over makes it shorter by its first step, and every other step leaves it; so no span
  takes the place of an open one, and behind a shutdown the path ends in nothing.
  It needs that no event was given up. What does not, `KnownAreOpen`, says that spans
  the registry knows are open and apart, which the rising numbers give.
- *Loads.* No entry of the cache carries a time newer than the content
  it holds: the time is read before the import, so an edit in between makes the
  entry look older than it is and the next load imports again.
- *Validation.* `AnyInit` starts from any workflow a file may hold, not from the
  sample the run takes: if no issue is raised, the walk has visited whatever an
  edge names, and the run is within it.
- *Agents.* What the user wrote is never any content of the package, so no manifest
  holds its hash; a sync under way knows the marker if an
  edit was made under it, is not by force and has not scheduled the file for an
  unlink. Convergence adds, entry by entry, what of a sync is done.
- *Hooks.* At most one handler awaits git, for the session that is open; what it
  read is HEAD's, as only a running agent moves HEAD and it drops the cache.
- *Tasks.* A cycle is a set of tasks each of which waits for one of the set, so
  removing edges makes none, and a proposed set of blockers is tested against
  more edges than the update leaves. Every state anywhere, in the store, on the
  branch or in a result under way, is free of them.
- *Dialog, adviser, side questions, tab:* the property with the types, and what
  the handlers keep true between themselves (`DialogInv`, `AdvisorInv`, `BtwInv`,
  `WarpInv`). The dialog's proof attempt found that `Mode`, a CASE of overlapping
  guards, did not say what the key router's chain of `if`s says: TLC takes the
  first that holds, the language any. It is a chain now.

Only model-checked: liveness (`CallSettles`, `ShutdownSettles`, `WindsDown`,
`FetchesAreAnswered`, `SessionSettles`), as ENABLED and fairness are out of the
prover's reach. Of `CallSettles` the half that is safety is proved: no infinite
sequence of steps of a call (`EveryStepIsNearerTheEnd`). That some step is always
enabled while a call runs is left to TLC.

## 5. Where the code and its documents disagree

Each with a run that finds it:

- `self_loop`: an iterate stage that routes to itself has its second pass folded
  into its first (`runner/resume.ts:316-322`); the validator accepts the edge.
- `stale_baseline`: the baseline's model is the one of the last `session_start`,
  not of the start of the run (`model-override.ts:6`, `:249`); a model the user
  picked in between is overwritten, on disk too.
- `lost_context`: when a compaction outlives its session, `lastInjectedSig` is
  recorded before the send that throws, and the next `session_start` injects
  nothing (`session-hooks.ts:140-141` says it re-runs everything).
- `orphan`: a kill between manifest and unlinks loses the stale agents: the
  manifest does not claim them any more (`agents.ts:593-595` says it does).
- `aborted_retry`: a turn that the user aborts during a validation retry is not
  classified (`extraction.ts:235`; `runner.test.ts:496` has the chain halt).

Met while modelling, without a run of their own:

- A loop of fixed edges only never meets the guard (`runner/chain-advance.ts:57`) and
  runs until the process is killed; the validator accepts it, and `types.ts:112-115` says
  that unbounded loops trip the cap. With review's edge fixed on implement, TLC finds
  `RetriesBounded` violated.
- A row behind a line that was cut short is lost although its append succeeded
  (`types.ts:72` counts it as landed). Bare rows of unit stages *are* written
  (cap, drift refusal, routing error), against `runner/resume.ts:225-227`. A throw in a
  unit that a resume entered directly rejects the call (`README.md:325`: "never
  throws"). When Pi refuses to re-apply the baseline before the last stage,
  `hasModelChange` is cleared all the same (`model-override.ts:286`).
- rpiv-warp: of two blocking calls in parallel the end of the first restarts
  spinner and heartbeat while the other still waits (`overtaken`). A session shut
  down around its agent forgets the pending calls without a `tool_complete`
  (`index.ts:174-180`; `agent_end` emits one for each), so the badge stays as it
  was until the next agent starts (`abandoned`).
- rpiv-btw: a dismissed call that answers late still adds its turn; a session
  disposed of while compacting keeps its snapshot, which is harmless: after a
  compaction the snapshot would be taken from the same raw branch. A side question
  therefore still carries every compacted message and not the summary, unlike the
  adviser's (`rpiv-advisor/advisor/execute.ts:100-105`); no document of the package
  says otherwise. Up and Down scroll against the comment in `btw-ui.ts`.
- rpiv-advisor: `state.ts:2` says the choice resets with each session, but the
  module outlives the session, and `restoreAdvisorState` returns early when the file
  names no model, so an earlier choice stays (`foreign` excludes it).
- rpiv-ask-user-question: keys typed while the dialog is collapsed reach the free
  text; opening the notes shows only the answer's.
- rpiv-web-tools: the size note asks to "call web_fetch again", which never forces a
  clone.
- rpiv-voice: two processes that install at once can load a partial file.
- rpiv-pi: a migration repeated after a kill overwrites newer files in
  `.rpiv/artifacts`; a partly removed `.pi/agents` stays.

## 6. Not modelled

- Several Pi processes on one run file, one agents directory, one clone directory
  or one `.pi` project at a time; the code has no locks and `agents.ts` says so.
- Author code (collectors, parsers, schemas, generators, scripts) beyond what it may
  answer; a parser that yields undefined, which skips validation; helper modules
  a workflow file imports, which the cache's key does not cover.
- `unregisterProvider`, the warn-once trackers, and a provider that throws instead
  of rejecting (`dispatcher.ts:142`); every provider of the package is async.
- The adviser's own call, `/wf` and its completions, run-id generation, `@name`
  lookup, the setup dialogs, the equalizer and the pulse of the overlay, rendering,
  translations, argument substitution, HTTP clients, HTML conversion, release
  scripts, the documentation site: pure, or no state that outlives a call.
