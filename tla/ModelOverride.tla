--------------------------- MODULE ModelOverride ----------------------------
(***************************************************************************)
(* The two override scopes of rpiv-pi around Pi's one pair of settings,    *)
(* the model and the thinking level.  A workflow changes them before each  *)
(* stage and restores them when it ends; a standalone /skill: changes them *)
(* when it is typed and restores them when its turn ends.  Pi writes what  *)
(* setModel is given to disk, so what is not restored is lost to the user. *)
(* A handler that awaits setModel is two steps: the call, and what follows *)
(* once Pi has answered.                                                   *)
(***************************************************************************)
EXTENDS ModelsConfig

CONSTANTS File,     \* the contents models.json may have
          Workflow, \* the workflow's name
          StageRef, \* its stages, records of a name and a skill
          Skill,    \* what may be typed after /skill:
          UserModel, UserLevel \* what the user picks by hand

VARIABLES
  model, thinking,  \* Pi: the settings in force, kept on disk
  config,           \* modelsConfigCache
  capturedModel,    \* the model last seen by session_start
  baseline, baselineCaptured, \* the workflow's snapshot
  armedBaseline,    \* the skill's snapshot
  workflow, turn,   \* where the run and the skill's turn stand
  userModel,        \* history: the model the user picked last
  userModels, userLevels, \* history: everything the user picked
  touched,          \* history: the user picked since the last stage was applied
  spoiled,          \* history: Pi refused or threw, or had no model to restore
  overlapped        \* history: one scope began inside the other

piVars == <<model, thinking>>
overrideVars == <<capturedModel, baseline, baselineCaptured>>
userVars == <<userModel, userModels, userLevels, touched>>
vars == <<piVars, config, overrideVars, armedBaseline, workflow, turn,
          userVars, spoiled, overlapped>>

ASSUME OverrideAssumption ==
  /\ UserModel \subseteq Model /\ UserLevel \subseteq Level
  /\ \A file \in File : IsFile(file)
  /\ None \notin StageRef /\ None \notin Skill

BaselineSnapshot == [thinking : Level, model : Model \cup {None}, hasModelChange : BOOLEAN]

(* What a handler has asked of Pi: setModel(target) unless target is None, *)
(* then setThinkingLevel(level).  changed: the target is an override.      *)
Call == [target : Model \cup {None}, level : Level, changed : BOOLEAN]

(* off: no run.  lost: the run threw, and onWorkflowEnd was never called.  *)
WorkflowAt == {"off", "lost", "between", "applying", "running", "restoring"}
TurnAt == {"off", "arming", "running", "restoring"}

RunRecord == [at : WorkflowAt, stage : StageRef \cup {None}, call : Call \cup {None}]
TurnRecord == [at : TurnAt, skill : Skill \cup {None}, call : Call \cup {None}]

Active == workflow.at \in {"between", "applying", "running"}
Idle == workflow.at \in {"off", "lost"} /\ turn.at = "off"

TypeOK ==
  /\ model \in Model \cup {None} /\ thinking \in Level
  /\ config \in {loadModelsConfig(f) : f \in File}
  /\ capturedModel \in Model \cup {None}
  /\ baseline \in BaselineSnapshot \cup {None} /\ baselineCaptured \in BOOLEAN
  /\ armedBaseline \in BaselineSnapshot \cup {None}
  /\ workflow \in RunRecord /\ turn \in TurnRecord
  /\ userModel \in Model \cup {None}
  /\ userModels \in SUBSET (Model \cup {None}) /\ userLevels \in SUBSET Level
  /\ touched \in BOOLEAN /\ spoiled \in BOOLEAN /\ overlapped \in BOOLEAN

NoRun == [at |-> "off", stage |-> None, call |-> None]
NoTurn == [at |-> "off", skill |-> None, call |-> None]

(* The first session_start has fired: the user's model is the captured one. *)
Init ==
  /\ model \in UserModel \cup {None} /\ thinking \in UserLevel
  /\ config \in {loadModelsConfig(f) : f \in File}
  /\ capturedModel = model
  /\ baseline = None /\ baselineCaptured = FALSE /\ armedBaseline = None
  /\ workflow = NoRun /\ turn = NoTurn
  /\ userModel = model /\ userModels = {model} /\ userLevels = {thinking}
  /\ touched = FALSE /\ spoiled = FALSE /\ overlapped = FALSE

-----------------------------------------------------------------------------
(* What both scopes ask of Pi, and what becomes of it.                     *)

(* Mutant: an absent level is not taken from the snapshot.                 *)
applyWithoutFallbackLevel(override, base, setBaselineModel) ==
  LET resolved == resolveModel(override.model)
  IN  [target  |-> IF resolved = None /\ setBaselineModel THEN base.model ELSE resolved,
       level   |-> override.thinking,
       changed |-> resolved # None]

(* Mutant: a stage without a model of its own keeps the one in force.      *)
applyOverridesOnly(override, base, setBaselineModel) ==
  LET resolved == resolveModel(override.model)
  IN  [target  |-> resolved,
       level   |-> IF override.thinking # None THEN override.thinking ELSE base.thinking,
       changed |-> resolved # None]

applyEffectiveModel(override, base, setBaselineModel) ==
  LET resolved == resolveModel(override.model)
  IN  [target  |-> CASE resolved # None -> resolved
                     [] resolved = None /\ setBaselineModel -> base.model
                     [] OTHER -> None,
       level   |-> IF override.thinking # None THEN override.thinking ELSE base.thinking,
       changed |-> resolved # None]

(* Mutant: the test of hasModelChange is the wrong way round.              *)
restoreUnchangedModel(base) ==
  [target |-> IF base.hasModelChange THEN None ELSE base.model,
   level |-> base.thinking, changed |-> FALSE]

(* Mutant: the level is restored only along with the model.                *)
restoreWithTheModel(base) ==
  [target |-> IF base.hasModelChange THEN base.model ELSE None,
   level |-> IF base.hasModelChange THEN base.thinking ELSE thinking, changed |-> FALSE]

restoreBaseline(base) ==
  [target |-> IF base.hasModelChange THEN base.model ELSE None,
   level |-> base.thinking, changed |-> FALSE]

(* setModel answers true or false or throws; setThinkingLevel may throw.   *)
(* A stale-session error and any other end the handler alike: they differ  *)
(* in whether the user is told.                                            *)
Answer == {"true", "false", "throws"}

Settled(call, answer, thrown) ==
  /\ call.target = None => answer = "true"
  /\ answer = "throws" => thrown
  /\ model' = IF call.target # None /\ answer = "true" THEN call.target ELSE model
  /\ thinking' = IF thrown THEN thinking ELSE call.level
  /\ spoiled' = (spoiled \/ answer # "true" \/ thrown)

-----------------------------------------------------------------------------
(* Pi and its user.                                                        *)

(* A new session, of the user at the prompt or of a running stage.         *)
(* Mutant: the captured model is not frozen while a run has its snapshot.  *)
SessionStartUnfrozen ==
  /\ Idle \/ (workflow.at = "running" /\ turn.at = "off")
  /\ capturedModel' = IF model # None THEN model ELSE capturedModel
  /\ UNCHANGED <<piVars, config, baseline, baselineCaptured, armedBaseline, workflow, turn,
                 userVars, spoiled, overlapped>>

SessionStart ==
  /\ Idle \/ (workflow.at = "running" /\ turn.at = "off")
  /\ capturedModel' = IF ~baselineCaptured /\ model # None THEN model ELSE capturedModel
  /\ UNCHANGED <<piVars, config, baseline, baselineCaptured, armedBaseline, workflow, turn,
                 userVars, spoiled, overlapped>>

UserPicksModel(m) ==
  /\ model' = m /\ userModel' = m /\ userModels' = userModels \cup {m}
  /\ touched' = TRUE
  /\ UNCHANGED <<thinking, config, overrideVars, armedBaseline, workflow, turn,
                 userLevels, spoiled, overlapped>>

UserPicksLevel(l) ==
  /\ thinking' = l /\ userLevels' = userLevels \cup {l}
  /\ UNCHANGED <<model, config, overrideVars, armedBaseline, workflow, turn,
                 userModel, userModels, touched, spoiled, overlapped>>

-----------------------------------------------------------------------------
(* The workflow's listeners, awaited one after another by the runner.      *)

(* getThinkingLevel throws when the session is stale: nothing is captured. *)
onWorkflowStart(thrown) ==
  /\ workflow.at \in {"off", "lost"}
  /\ workflow' = [NoRun EXCEPT !.at = "between"]
  /\ \/ /\ ~thrown
        /\ baseline' = [thinking |-> thinking, model |-> capturedModel,
                        hasModelChange |-> FALSE]
        /\ baselineCaptured' = TRUE
        /\ spoiled' = (spoiled \/ capturedModel = None)
     \/ /\ thrown
        /\ spoiled' = TRUE
        /\ UNCHANGED <<baseline, baselineCaptured>>
  /\ overlapped' = (overlapped \/ turn.at # "off")
  /\ UNCHANGED <<piVars, config, capturedModel, armedBaseline, turn, userVars>>

onStageStart(stage) ==
  /\ workflow.at = "between"
  /\ LET override == resolveStageModel(config, Workflow, stage.name, stage.skill)
     IN  workflow' = IF baselineCaptured
                     THEN [at |-> "applying", stage |-> stage,
                           call |-> applyEffectiveModel(override, baseline, TRUE)]
                     ELSE [at |-> "running", stage |-> stage, call |-> None]
  /\ UNCHANGED <<piVars, config, overrideVars, armedBaseline, turn, userVars,
                 spoiled, overlapped>>

onStageStartSettles(answer, thrown) ==
  /\ workflow.at = "applying"
  /\ Settled(workflow.call, answer, thrown)
  /\ baseline' = IF thrown THEN baseline
                 ELSE [baseline EXCEPT !.hasModelChange = workflow.call.changed]
  /\ workflow' = [at |-> "running", stage |-> workflow.stage, call |-> None]
  /\ touched' = FALSE
  /\ UNCHANGED <<config, capturedModel, baselineCaptured, armedBaseline, turn,
                 userModel, userModels, userLevels, overlapped>>

StageEnds ==
  /\ workflow.at = "running"
  /\ workflow' = [NoRun EXCEPT !.at = "between"]
  /\ UNCHANGED <<piVars, config, overrideVars, armedBaseline, turn, userVars,
                 spoiled, overlapped>>

(* executeRun awaits the run without a finally. *)
RunThrows ==
  /\ workflow.at = "running"
  /\ workflow' = [NoRun EXCEPT !.at = "lost"]
  /\ spoiled' = TRUE
  /\ UNCHANGED <<piVars, config, overrideVars, armedBaseline, turn, userVars, overlapped>>

(* Mutant: the snapshot is not cleared.                                    *)
onWorkflowEndWithoutClear ==
  /\ workflow.at = "between"
  /\ workflow' = IF baselineCaptured
                 THEN [at |-> "restoring", stage |-> None, call |-> restoreBaseline(baseline)]
                 ELSE NoRun
  /\ UNCHANGED <<piVars, config, overrideVars, armedBaseline, turn, userVars,
                 spoiled, overlapped>>

(* The snapshot is cleared before the restore is attempted. *)
onWorkflowEnd ==
  /\ workflow.at = "between"
  /\ workflow' = IF baselineCaptured
                 THEN [at |-> "restoring", stage |-> None, call |-> restoreBaseline(baseline)]
                 ELSE NoRun
  /\ baseline' = None /\ baselineCaptured' = FALSE
  /\ UNCHANGED <<piVars, config, capturedModel, armedBaseline, turn, userVars,
                 spoiled, overlapped>>

onWorkflowEndSettles(answer, thrown) ==
  /\ workflow.at = "restoring"
  /\ Settled(workflow.call, answer, thrown)
  /\ workflow' = NoRun
  /\ UNCHANGED <<config, overrideVars, armedBaseline, turn, userVars, overlapped>>

-----------------------------------------------------------------------------
(* The bracket around a skill the user types.  Pi takes no second prompt   *)
(* while a turn is open.                                                   *)

Arms(skill) ==
  /\ skill \in DOMAIN config.skills
  /\ config.skills[skill] # Blank

input(skill, thrown) ==
  /\ turn.at = "off" /\ ~baselineCaptured /\ Arms(skill)
  /\ IF thrown
     THEN /\ spoiled' = TRUE
          /\ UNCHANGED <<armedBaseline, turn, overlapped>>
     ELSE LET base == [thinking |-> thinking, model |-> capturedModel, hasModelChange |-> FALSE]
          IN  /\ armedBaseline' = base
              /\ turn' = [at |-> "arming", skill |-> skill,
                          call |-> applyEffectiveModel(config.skills[skill], base, FALSE)]
              /\ spoiled' = (spoiled \/ capturedModel = None)
              /\ overlapped' = (overlapped \/ workflow.at # "off")
  /\ UNCHANGED <<piVars, config, overrideVars, workflow, userVars>>

inputSettles(answer, thrown) ==
  /\ turn.at = "arming"
  /\ Settled(turn.call, answer, thrown)
  /\ armedBaseline' = IF thrown THEN armedBaseline
                      ELSE [armedBaseline EXCEPT !.hasModelChange = turn.call.changed]
  /\ turn' = [at |-> "running", skill |-> turn.skill, call |-> None]
  /\ UNCHANGED <<config, overrideVars, workflow, userVars, overlapped>>

agent_end ==
  /\ turn.at = "running"
  /\ turn' = [at |-> "restoring", skill |-> None, call |-> restoreBaseline(armedBaseline)]
  /\ armedBaseline' = None
  /\ UNCHANGED <<piVars, config, overrideVars, workflow, userVars, spoiled, overlapped>>

agent_endSettles(answer, thrown) ==
  /\ turn.at = "restoring"
  /\ Settled(turn.call, answer, thrown)
  /\ turn' = NoTurn
  /\ UNCHANGED <<config, overrideVars, armedBaseline, workflow, userVars, overlapped>>

-----------------------------------------------------------------------------
Next ==
  \/ SessionStart
  \/ \E m \in UserModel : UserPicksModel(m)
  \/ \E l \in UserLevel : UserPicksLevel(l)
  \/ \E thrown \in BOOLEAN : onWorkflowStart(thrown)
  \/ \E stage \in StageRef : onStageStart(stage)
  \/ \E answer \in Answer, thrown \in BOOLEAN : onStageStartSettles(answer, thrown)
  \/ StageEnds
  \/ RunThrows
  \/ onWorkflowEnd
  \/ \E answer \in Answer, thrown \in BOOLEAN : onWorkflowEndSettles(answer, thrown)
  \/ \E skill \in Skill, thrown \in BOOLEAN : input(skill, thrown)
  \/ \E answer \in Answer, thrown \in BOOLEAN : inputSettles(answer, thrown)
  \/ agent_end
  \/ \E answer \in Answer, thrown \in BOOLEAN : agent_endSettles(answer, thrown)

Spec == Init /\ [][Next]_vars

-----------------------------------------------------------------------------
(* Unless Pi refused a call, no override outlives its scope: with no run   *)
(* and no skill turn in progress the model in force is one the user picked *)
(* (model-override.ts:211-228, skill-bracket.ts:109-117).                  *)
NoOverrideSurvives == Idle /\ ~spoiled => model \in userModels

(* The same of the thinking level, as long as no scope began inside the    *)
(* other: a snapshot never takes an override for the user's level.         *)
LevelRestored == Idle /\ ~spoiled /\ ~overlapped => thinking \in userLevels

(* Unless Pi refused a call, the model a later scope will restore is one   *)
(* the user picked, though the sessions of the stages fire session_start   *)
(* with their overrides in force (model-override.ts:57-60).                *)
CapturedIsUsers == ~spoiled => capturedModel \in userModels

(* A stage whose entry names no known model runs on the baseline and not   *)
(* on the model of the stage before it (model-override.ts:198-200); one    *)
(* that names a known model runs on that, until the user picks another.    *)
StageRunsOnItsModel ==
  workflow.at = "running" /\ ~spoiled /\ ~overlapped /\ ~touched =>
    LET stage == workflow.stage
        own == resolveModel(resolveStageModel(config, Workflow, stage.name, stage.skill).model)
    IN  model = IF own # None THEN own ELSE baseline.model

(* However its restore ends, a run that ended leaves no snapshot behind to *)
(* make the next skill defer to it (model-override.ts:293-300).            *)
NotPoisoned == baselineCaptured => Active \/ workflow.at = "lost"

(* What is kept for a later restore is the user's: no override is ever     *)
(* captured, and no run that ended leaves a snapshot behind.               *)
SnapshotsAreTheUsers == CapturedIsUsers /\ NotPoisoned

(* What model-override.ts:6-9 says: the snapshot is the model in force     *)
(* when the run starts, so the user's default is not rewritten by it.      *)
UserModelKept == Idle /\ ~spoiled => model = userModel
=============================================================================
