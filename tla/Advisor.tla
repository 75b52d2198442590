-------------------------------- MODULE Advisor --------------------------------
(***************************************************************************)
(* rpiv-advisor: which model advises, and when the agent may ask it.  The  *)
(* choice is in a file that all Pi processes share and in memory; the tool *)
(* must be active exactly when there is an adviser and the policy does not *)
(* block the model at work, which several events change.  The call of the  *)
(* adviser itself, notices and labels are left out.                        *)
(***************************************************************************)
EXTENDS Integers, Sequences, Absence

CONSTANTS
  Model,       \* what the registry has
  Reasoning,   \* those that take an effort
  Gone,        \* a model the file may name and the registry has not
  Blocklists,  \* disabledForModels: pairs of a model and the least effort blocked
  MaxChanges   \* bound: changes by Pi, the user and other processes

ASSUME ModelAssumption == Reasoning \subseteq Model /\ {Gone, None} \cap Model = {}
ASSUME PickerAssumption == None # [awaits |-> "model"]

VARIABLES
  config,      \* advisor.json
  memory,      \* selectedAdvisor and selectedAdvisorEffort
  disabledForModelsCache,
  executor,    \* Pi: the model and the level at work
  toolActive,  \* Pi: is the adviser among the active tools
  agentPhase,       \* Pi: "none", "idle" or "running"
  events,      \* Pi: changes of model and level whose handlers have not run
  picker,      \* what /advisor waits for
  changes,
  foreign      \* history: the file is not what this process last read or wrote

advisorVars == <<config, memory, disabledForModelsCache, executor, toolActive, agentPhase, events, picker,
                 changes, foreign>>

Effort == 0..1         \* EFFORT_ORDINAL; "off" is before them all
Level == {-1} \cup Effort
NoConfig == [model |-> None, effort |-> None, disabledForModels |-> {}]

Config == [model : Model \cup {Gone, None}, effort : Effort \cup {None}, disabledForModels : Blocklists]

AdvisorInit ==
  /\ config \in {c \in Config : c.model = None => c.effort = None}
  /\ memory = [model |-> None, effort |-> None]
  /\ disabledForModelsCache = {}
  /\ executor \in [model : Model, level : Level]
  /\ toolActive = TRUE /\ agentPhase = "none" /\ events = <<>> /\ picker = None
  /\ changes = 0 /\ foreign = FALSE

-----------------------------------------------------------------------------
isModelBlocked(m, level) == \E b \in disabledForModelsCache : b[1] = m /\ level >= b[2]

reconcileAdvisorTool(blocked) == toolActive' = ~blocked

(* Early returns leave what an earlier session of the process selected, a  *)
(* missing effort leaves the earlier effort, and a blocked model the tool. *)
restoreAdvisorState(active, e) ==
  LET blocked == \E b \in config.disabledForModels : b[1] = e.model /\ e.level >= b[2]
      found == config.model \in Model
  IN
  /\ disabledForModelsCache' = config.disabledForModels
  /\ memory' = IF ~found THEN memory
               ELSE [model |-> config.model,
                     effort |-> IF config.effort = None THEN memory.effort ELSE config.effort]
  /\ toolActive' = (active \/ (found /\ ~blocked))

(* Pi opens a session, with a model and the tools it makes active. *)
registerAdvisorSessionStart(active, e) ==
  /\ agentPhase # "running" /\ picker = None
  /\ agentPhase' = "idle" /\ executor' = e /\ events' = <<>>
  /\ changes < MaxChanges /\ changes' = changes + 1
  /\ restoreAdvisorState(active, e)
  /\ UNCHANGED <<config, picker, foreign>>

registerAdvisorBeforeAgentStart ==
  /\ agentPhase = "idle" /\ agentPhase' = "running"
  /\ IF memory.model = None THEN toolActive' = FALSE
     ELSE reconcileAdvisorTool(isModelBlocked(executor.model, executor.level))
  /\ UNCHANGED <<config, memory, disabledForModelsCache, executor, events, picker, changes, foreign>>

agentEnds ==
  /\ agentPhase = "running" /\ agentPhase' = "idle"
  /\ UNCHANGED <<config, memory, disabledForModelsCache, executor, toolActive, events, picker,
                 changes, foreign>>

(* Pi changes the model, and with it perhaps the level, or the level alone, *)
(* and tells: handlers run in the order of the events, after the change.    *)
Change(e) ==
  /\ agentPhase # "none" /\ changes < MaxChanges /\ changes' = changes + 1
  /\ executor' = e
  /\ events' = events
       \o (IF e.model # executor.model THEN <<[kind |-> "model", model |-> e.model]>> ELSE <<>>)
       \o (IF e.level # executor.level THEN <<[kind |-> "level", level |-> e.level]>> ELSE <<>>)
  /\ UNCHANGED <<config, memory, disabledForModelsCache, toolActive, agentPhase, picker, foreign>>

(* model_select is told the model and reads the level; it returns at once  *)
(* for a model that Pi restored, which session_start has dealt with.       *)
model_select ==
  /\ events # <<>> /\ Head(events).kind = "model" /\ events' = Tail(events)
  /\ IF memory.model = None THEN UNCHANGED toolActive
     ELSE reconcileAdvisorTool(isModelBlocked(Head(events).model, executor.level))
  /\ UNCHANGED <<config, memory, disabledForModelsCache, executor, agentPhase, picker, changes, foreign>>

(* Mutant: the handler judges the model alone. *)
thinking_level_selectIgnored ==
  /\ events # <<>> /\ Head(events).kind = "level" /\ events' = Tail(events)
  /\ UNCHANGED <<config, memory, disabledForModelsCache, executor, toolActive, agentPhase, picker,
                 changes, foreign>>

(* thinking_level_select is told the level and reads the model. *)
thinking_level_select ==
  /\ events # <<>> /\ Head(events).kind = "level" /\ events' = Tail(events)
  /\ IF memory.model = None THEN UNCHANGED toolActive
     ELSE reconcileAdvisorTool(isModelBlocked(executor.model, Head(events).level))
  /\ UNCHANGED <<config, memory, disabledForModelsCache, executor, agentPhase, picker, changes, foreign>>

-----------------------------------------------------------------------------
(* saveAdvisorConfig: what else the file holds is kept.  A write that      *)
(* fails leaves the file as it was, or empty.                              *)
Saved(m, effort) ==
  /\ config' = [config EXCEPT !.model = m, !.effort = effort]
  /\ foreign' = FALSE

NotSaved ==
  \/ UNCHANGED <<config, foreign>>
  \/ config' = NoConfig /\ foreign' = TRUE

(* Mutant: the memory is changed before the file. *)
applyMemoryFirst(m, effort) ==
  /\ memory' = [model |-> m, effort |-> effort]
  /\ IF m = None THEN toolActive' = FALSE
     ELSE reconcileAdvisorTool(isModelBlocked(executor.model, executor.level))
  /\ Saved(m, effort) \/ NotSaved

(* applyEnable, and applyDisable for no model: the file first. *)
apply(m, effort) ==
  \/ /\ Saved(m, effort)
     /\ memory' = [model |-> m, effort |-> effort]
     /\ IF m = None THEN toolActive' = FALSE
        ELSE reconcileAdvisorTool(isModelBlocked(executor.model, executor.level))
  \/ NotSaved /\ UNCHANGED <<memory, toolActive>>

advisorCommand ==
  /\ agentPhase # "none" /\ picker = None
  /\ picker' = [awaits |-> "model"]
  /\ UNCHANGED <<config, memory, disabledForModelsCache, executor, toolActive, agentPhase, events,
                 changes, foreign>>

showAdvisorPicker(choice) ==
  /\ picker = [awaits |-> "model"]
  /\ IF choice \in Reasoning
     THEN /\ picker' = [awaits |-> "effort", of |-> choice]
          /\ UNCHANGED <<config, foreign, memory, toolActive>>
     ELSE picker' = None /\ apply(choice, None)
  /\ UNCHANGED <<disabledForModelsCache, executor, agentPhase, events, changes>>

showEffortPicker(effort) ==
  /\ picker # None /\ picker.awaits = "effort"
  /\ picker' = None /\ apply(picker.of, effort)
  /\ UNCHANGED <<disabledForModelsCache, executor, agentPhase, events, changes>>

Dismissed ==
  /\ picker # None /\ picker' = None
  /\ UNCHANGED <<config, memory, disabledForModelsCache, executor, toolActive, agentPhase, events,
                 changes, foreign>>

(* The user, or another Pi process, writes the file. *)
EditConfig(c) ==
  /\ changes < MaxChanges /\ changes' = changes + 1
  /\ config' = c /\ foreign' = TRUE
  /\ UNCHANGED <<memory, disabledForModelsCache, executor, toolActive, agentPhase, events, picker>>

AdvisorNext ==
  \/ \E active \in BOOLEAN, e \in [model : Model, level : Level] : registerAdvisorSessionStart(active, e)
  \/ registerAdvisorBeforeAgentStart \/ agentEnds
  \/ \E e \in [model : Model, level : Level] : Change(e)
  \/ model_select \/ thinking_level_select
  \/ advisorCommand \/ Dismissed
  \/ \E choice \in Model \cup {None} : showAdvisorPicker(choice)
  \/ \E effort \in Effort \cup {None} : showEffortPicker(effort)
  \/ \E c \in Config : EditConfig(c)

AdvisorSpec == AdvisorInit /\ [][AdvisorNext]_advisorVars

-----------------------------------------------------------------------------
(* A running agent has the tool exactly when an adviser is selected and the *)
(* policy of the session does not block the model and the level at work,    *)
(* once the handlers have run: whatever the order of session, model, level  *)
(* and /advisor; and what is selected is what the file says, whether or not *)
(* a save succeeded, as long as nobody else wrote the file.                 *)
AdvisorFollowsPolicy ==
  /\ agentPhase = "running" /\ events = <<>> =>
       toolActive = (memory.model # None /\ ~isModelBlocked(executor.model, executor.level))
  /\ agentPhase # "none" /\ ~foreign =>
       /\ memory.model = IF config.model \in Model THEN config.model ELSE None
       /\ memory.model # None => memory.effort = config.effort
=============================================================================
