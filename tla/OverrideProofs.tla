--------------------------- MODULE OverrideProofs ---------------------------
(***************************************************************************)
(* For every set of models, stages, skills and files: what the two scopes  *)
(* leave behind of the settings they change.                               *)
(***************************************************************************)
EXTENDS ModelOverride, TLAPS

Calling == workflow.at \in {"applying", "restoring"}
Armed == turn.at \in {"arming", "running"}

(* Who holds a snapshot, and that the run's is the frozen capturedModel. *)
Snapshots ==
  /\ baselineCaptured => Active \/ workflow.at = "lost"
  /\ baselineCaptured => baseline \in BaselineSnapshot /\ baseline.model = capturedModel
  /\ Armed => armedBaseline \in BaselineSnapshot
  /\ Calling => workflow.call \in Call
  /\ turn.at \in {"arming", "restoring"} => turn.call \in Call
  /\ workflow.at = "applying" => baselineCaptured

Users == userModels \ {None}

(* What will be restored, and what a stage without a model falls back on. *)
Sources ==
  /\ workflow.at # "lost"
  /\ Active => baselineCaptured /\ capturedModel # None
  /\ capturedModel \in userModels
  /\ Armed => armedBaseline.model \in Users
  /\ workflow.at = "applying" /\ ~workflow.call.changed => workflow.call.target \in Users
  /\ workflow.at = "restoring" => workflow.call.target \in userModels \cup {None}
  /\ turn.at = "arming" /\ ~turn.call.changed => turn.call.target = None
  /\ turn.at = "restoring" => turn.call.target \in userModels \cup {None}

(* An override in force is one that some scope has noted it must undo. *)
Owed ==
  model \notin userModels =>
    \/ baselineCaptured /\ baseline.hasModelChange
    \/ workflow.at = "restoring" /\ workflow.call.target # None
    \/ turn.at = "running" /\ armedBaseline.hasModelChange
    \/ turn.at = "restoring" /\ turn.call.target # None

IInv == TypeOK /\ Snapshots /\ (~spoiled => Sources /\ Owed)

-----------------------------------------------------------------------------
(* Whatever rung answers, and whatever entry a skill has, is an entry.     *)
LEMMA EntryOfCascade ==
  ASSUME NEW entry \in ModelEntry, NEW defaults \in ModelEntry
  PROVE  resolvedEntryWithCascade(entry, defaults) \in ModelEntry
  BY DEF resolvedEntryWithCascade, ModelEntry

LEMMA RungCascaded ==
  ASSUME NEW rung, IsRung(rung), NEW defaults \in ModelEntry
  PROVE  IsRung(Cascaded(rung, defaults))
  BY EntryOfCascade DEF IsRung, Cascaded

LEMMA ConfigEntries ==
  ASSUME NEW file \in File, NEW loaded, loaded = loadModelsConfig(file)
  PROVE  /\ loaded.defaults \in ModelEntry
         /\ IsRung(loaded.stages) /\ IsRung(loaded.skills)
         /\ \A w \in DOMAIN loaded.presets : IsRung(loaded.presets[w])
<1>1. IsFile(file)
  BY OverrideAssumption
<1> QED
  BY <1>1, RungCascaded DEF IsFile, loadModelsConfig

LEMMA StageEntry ==
  ASSUME NEW file \in File, NEW stage, NEW skill
  PROVE  resolveStageModel(loadModelsConfig(file), Workflow, stage, skill) \in ModelEntry
<1> DEFINE loaded == loadModelsConfig(file)
<1> HIDE DEF loaded
<1>1. /\ loaded.defaults \in ModelEntry
      /\ IsRung(loaded.stages) /\ IsRung(loaded.skills)
      /\ \A w \in DOMAIN loaded.presets : IsRung(loaded.presets[w])
  BY ConfigEntries DEF loaded
<1>2. resolveStageModel(loaded, Workflow, stage, skill) \in ModelEntry
  BY <1>1 DEF resolveStageModel, IsRung
<1> QED
  BY <1>2 DEF loaded

(* What a handler asks of Pi.                                              *)
LEMMA AppliedCall ==
  ASSUME NEW override \in ModelEntry, NEW base \in BaselineSnapshot, NEW fallback \in BOOLEAN
  PROVE  LET call == applyEffectiveModel(override, base, fallback)
         IN  /\ call \in Call
             /\ ~call.changed => call.target = IF fallback THEN base.model ELSE None
<1>1. override.thinking \in Level \cup {None} /\ base.thinking \in Level
      /\ base.model \in Model \cup {None}
  BY DEF ModelEntry, BaselineSnapshot
<1>2. resolveModel(override.model) \in Model \cup {None}
  BY DEF resolveModel
<1> QED
  BY <1>1, <1>2 DEF applyEffectiveModel, Call

LEMMA RestoreCall ==
  ASSUME NEW base \in BaselineSnapshot
  PROVE  LET call == restoreBaseline(base)
         IN  /\ call \in Call
             /\ call.target = IF base.hasModelChange THEN base.model ELSE None
  BY DEF restoreBaseline, Call, BaselineSnapshot

(* What Pi's answer leaves in force. *)
LEMMA SettledCall ==
  ASSUME NEW call \in Call, NEW answer \in Answer, NEW thrown \in BOOLEAN,
         TypeOK, Settled(call, answer, thrown)
  PROVE  /\ model' \in Model \cup {None} /\ thinking' \in Level /\ spoiled' \in BOOLEAN
         /\ ~spoiled' => /\ ~spoiled /\ ~thrown
                         /\ model' = IF call.target # None THEN call.target ELSE model
  BY DEF TypeOK, Settled, Call, Answer

-----------------------------------------------------------------------------
LEMMA InvInitially == Init => IInv
<1> SUFFICES ASSUME Init PROVE IInv
  OBVIOUS
<1>1. TypeOK
  BY OverrideAssumption, ModelsAssumption DEF Init, TypeOK, NoRun, NoTurn, RunRecord, TurnRecord, WorkflowAt, TurnAt
<1>2. Snapshots
  BY DEF Init, Snapshots, NoRun, NoTurn, Calling, Armed
<1>3. Sources /\ Owed
  BY DEF Init, Sources, Owed, NoRun, NoTurn, Active, Armed
<1> QED
  BY <1>1, <1>2, <1>3 DEF IInv

(* The record of a run is built from what its handlers put there.          *)
LEMMA RunRecords ==
  ASSUME NEW a \in WorkflowAt, NEW stage \in StageRef \cup {None}, NEW call \in Call \cup {None}
  PROVE  [at |-> a, stage |-> stage, call |-> call] \in RunRecord
  BY DEF RunRecord

LEMMA TurnRecords ==
  ASSUME NEW a \in TurnAt, NEW skill \in Skill \cup {None}, NEW call \in Call \cup {None}
  PROVE  [at |-> a, skill |-> skill, call |-> call] \in TurnRecord
  BY DEF TurnRecord

LEMMA PiAndUserStep ==
  ASSUME IInv,
         \/ SessionStart
         \/ \E m \in UserModel : UserPicksModel(m)
         \/ \E l \in UserLevel : UserPicksLevel(l)
         \/ UNCHANGED vars
  PROVE  IInv'
<1> USE DEF IInv, overrideVars, piVars, userVars
<1>1. CASE SessionStart
  <2>1. TypeOK'
    BY <1>1 DEF SessionStart, TypeOK
  <2>2. Snapshots'
    BY <1>1 DEF SessionStart, Snapshots, Active, Calling, Armed
  <2>3. ASSUME ~spoiled' PROVE Sources' /\ Owed'
    <3>1. ~spoiled /\ Sources /\ Owed
      BY <1>1, <2>3 DEF SessionStart
    <3>2. ~baselineCaptured => workflow.at = "off" /\ turn.at = "off" /\ model \in userModels
      BY <1>1, <3>1 DEF SessionStart, Idle, Sources, Owed, Active
    <3>3. capturedModel' \in userModels
      BY <1>1, <3>1, <3>2 DEF SessionStart, Sources
    <3>4. Active => capturedModel' = capturedModel
      BY <1>1, <3>1 DEF SessionStart, Sources
    <3> QED
      BY <1>1, <3>1, <3>3, <3>4 DEF SessionStart, Sources, Owed, Active, Armed, Users
  <2> QED
    BY <2>1, <2>2, <2>3
<1>2. ASSUME NEW m \in UserModel, UserPicksModel(m) PROVE IInv'
  <2>1. TypeOK'
    BY <1>2, OverrideAssumption DEF UserPicksModel, TypeOK
  <2>2. Snapshots'
    BY <1>2 DEF UserPicksModel, Snapshots, Active, Calling, Armed
  <2>3. ASSUME ~spoiled' PROVE Sources' /\ Owed'
    BY <1>2, <2>3 DEF UserPicksModel, Sources, Owed, Active, Armed, Users
  <2> QED
    BY <2>1, <2>2, <2>3
<1>3. ASSUME NEW l \in UserLevel, UserPicksLevel(l) PROVE IInv'
  <2>1. TypeOK'
    BY <1>3, OverrideAssumption DEF UserPicksLevel, TypeOK
  <2>2. Snapshots'
    BY <1>3 DEF UserPicksLevel, Snapshots, Active, Calling, Armed
  <2>3. ASSUME ~spoiled' PROVE Sources' /\ Owed'
    BY <1>3, <2>3 DEF UserPicksLevel, Sources, Owed, Active, Armed, Users
  <2> QED
    BY <2>1, <2>2, <2>3
<1>4. CASE UNCHANGED vars
  <2>1. TypeOK'
    BY <1>4 DEF vars, TypeOK
  <2>2. Snapshots' /\ (~spoiled' => Sources' /\ Owed')
    BY <1>4 DEF vars, Snapshots, Sources, Owed, Active, Calling, Armed, Users
  <2> QED
    BY <2>1, <2>2
<1> QED
  BY <1>1, <1>2, <1>3, <1>4

LEMMA WorkflowStep ==
  ASSUME IInv,
         \/ \E thrown \in BOOLEAN : onWorkflowStart(thrown)
         \/ \E stage \in StageRef : onStageStart(stage)
         \/ StageEnds
         \/ RunThrows
         \/ onWorkflowEnd
  PROVE  IInv'
<1> USE DEF IInv, overrideVars, piVars, userVars
<1>1. ASSUME NEW thrown \in BOOLEAN, onWorkflowStart(thrown) PROVE IInv'
  <2>1. workflow' = [at |-> "between", stage |-> None, call |-> None]
    BY <1>1 DEF onWorkflowStart, NoRun
  <2>2. ~thrown => /\ baseline' = [thinking |-> thinking, model |-> capturedModel,
                                   hasModelChange |-> FALSE]
                   /\ baseline' \in BaselineSnapshot
    <3>1. thinking \in Level /\ capturedModel \in Model \cup {None}
      BY DEF TypeOK
    <3>2. [thinking |-> thinking, model |-> capturedModel, hasModelChange |-> FALSE]
            \in BaselineSnapshot
      BY <3>1 DEF BaselineSnapshot
    <3> QED
      BY <1>1, <3>2 DEF onWorkflowStart
  <2>3. TypeOK'
    <3>1. workflow' \in RunRecord
      BY <2>1, RunRecords DEF WorkflowAt
    <3>2. spoiled' \in BOOLEAN /\ overlapped' \in BOOLEAN /\ baselineCaptured' \in BOOLEAN
      BY <1>1 DEF onWorkflowStart, TypeOK
    <3> QED
      BY <1>1, <2>2, <3>1, <3>2 DEF onWorkflowStart, TypeOK
  <2>4. Snapshots'
    BY <1>1, <2>1, <2>2 DEF onWorkflowStart, Snapshots, Active, Calling, Armed
  <2>5. ASSUME ~spoiled' PROVE Sources' /\ Owed'
    <3>1. ~spoiled /\ capturedModel # None /\ baselineCaptured'
      BY <1>1, <2>5 DEF onWorkflowStart
    <3>2. Sources /\ Owed /\ ~Active /\ workflow.at # "restoring"
      BY <1>1, <3>1 DEF onWorkflowStart, Active
    <3>3. ~baselineCaptured
      BY <3>2 DEF Snapshots, Sources
    <3>4. UNCHANGED <<model, capturedModel, armedBaseline, turn, userModels>>
      BY <1>1 DEF onWorkflowStart
    <3> QED
      BY <2>1, <3>1, <3>2, <3>3, <3>4 DEF Sources, Owed, Active, Armed, Users
  <2> QED
    BY <2>3, <2>4, <2>5
<1>2. ASSUME NEW stage \in StageRef, onStageStart(stage) PROVE IInv'
  <2>1. PICK file \in File : config = loadModelsConfig(file)
    BY DEF TypeOK
  <2> DEFINE override == resolveStageModel(config, Workflow, stage.name, stage.skill)
             call == applyEffectiveModel(override, baseline, TRUE)
  <2>2. override \in ModelEntry
    BY <2>1, StageEntry
  <2>3. baselineCaptured => /\ call \in Call
                            /\ ~call.changed => call.target = baseline.model
    BY <2>2, AppliedCall DEF Snapshots
  <2> HIDE DEF override
  <2>4. workflow' = IF baselineCaptured
                    THEN [at |-> "applying", stage |-> stage, call |-> call]
                    ELSE [at |-> "running", stage |-> stage, call |-> None]
    BY <1>2 DEF onStageStart, override
  <2> HIDE DEF call
  <2>8. UNCHANGED <<model, overrideVars, armedBaseline, turn, userModels, spoiled>>
        /\ workflow.at = "between"
    BY <1>2 DEF onStageStart
  <2>5. TypeOK'
    <3>1. workflow' \in RunRecord
      BY <2>3, <2>4, RunRecords DEF WorkflowAt
    <3> QED
      BY <1>2, <3>1 DEF onStageStart, TypeOK
  <2>6. Snapshots'
    BY <2>8, <2>3, <2>4 DEF Snapshots, Active, Calling, Armed
  <2>7. ASSUME ~spoiled' PROVE Sources' /\ Owed'
    <3>1. Sources /\ Owed /\ baselineCaptured
      BY <2>7, <2>8 DEF Sources, Active
    <3>2. baseline.model = capturedModel /\ capturedModel \in Users
      BY <2>8, <3>1 DEF Snapshots, Sources, Active, Users
    <3>3. workflow' = [at |-> "applying", stage |-> stage, call |-> call]
          /\ (~call.changed => call.target \in Users)
      BY <2>3, <2>4, <3>1, <3>2
    <3> QED
      BY <2>8, <3>1, <3>3 DEF Sources, Owed, Active, Armed, Users
  <2> QED
    BY <2>5, <2>6, <2>7
<1>3. CASE StageEnds
  <2>1. workflow' = [at |-> "between", stage |-> None, call |-> None]
    BY <1>3 DEF StageEnds, NoRun
  <2>2. TypeOK'
    <3>1. workflow' \in RunRecord
      BY <2>1, RunRecords DEF WorkflowAt
    <3> QED
      BY <1>3, <3>1 DEF StageEnds, TypeOK
  <2>3. Snapshots'
    BY <1>3, <2>1 DEF StageEnds, Snapshots, Active, Calling, Armed
  <2>4. ASSUME ~spoiled' PROVE Sources' /\ Owed'
    BY <1>3, <2>1, <2>4 DEF StageEnds, Sources, Owed, Active, Armed, Users
  <2> QED
    BY <2>2, <2>3, <2>4
<1>4. CASE RunThrows
  <2>1. workflow' = [at |-> "lost", stage |-> None, call |-> None]
    BY <1>4 DEF RunThrows, NoRun
  <2>2. TypeOK'
    <3>1. workflow' \in RunRecord
      BY <2>1, RunRecords DEF WorkflowAt
    <3> QED
      BY <1>4, <3>1 DEF RunThrows, TypeOK
  <2>3. Snapshots'
    BY <1>4, <2>1 DEF RunThrows, Snapshots, Active, Calling, Armed
  <2> QED
    BY <1>4, <2>2, <2>3 DEF RunThrows
<1>5. CASE onWorkflowEnd
  <2> DEFINE call == restoreBaseline(baseline)
  <2>1. baselineCaptured =>
          /\ call \in Call
          /\ call.target = IF baseline.hasModelChange THEN baseline.model ELSE None
    BY RestoreCall DEF Snapshots
  <2>2. workflow' = IF baselineCaptured
                    THEN [at |-> "restoring", stage |-> None, call |-> call]
                    ELSE [at |-> "off", stage |-> None, call |-> None]
    BY <1>5 DEF onWorkflowEnd, NoRun
  <2> HIDE DEF call
  <2>6. UNCHANGED <<model, capturedModel, armedBaseline, turn, userModels, spoiled>>
        /\ workflow.at = "between" /\ ~baselineCaptured'
    BY <1>5 DEF onWorkflowEnd
  <2>3. TypeOK'
    <3>1. workflow' \in RunRecord
      BY <2>1, <2>2, RunRecords DEF WorkflowAt
    <3> QED
      BY <1>5, <3>1 DEF onWorkflowEnd, TypeOK
  <2>4. Snapshots'
    BY <2>1, <2>2, <2>6 DEF Snapshots, Active, Calling, Armed
  <2>5. ASSUME ~spoiled' PROVE Sources' /\ Owed'
    <3>1. /\ ~spoiled /\ Sources /\ Owed /\ baselineCaptured
          /\ baseline.model = capturedModel /\ capturedModel # None
      BY <2>5, <2>6 DEF Sources, Active, Snapshots
    <3>2. workflow' = [at |-> "restoring", stage |-> None, call |-> call]
          /\ call.target = IF baseline.hasModelChange THEN capturedModel ELSE None
      BY <2>1, <2>2, <3>1
    <3>3. Sources'
      BY <2>6, <3>1, <3>2 DEF Sources, Active, Armed, Users
    <3>4. Owed'
      BY <2>6, <3>1, <3>2 DEF Owed
    <3> QED
      BY <3>3, <3>4
  <2> QED
    BY <2>3, <2>4, <2>5
<1> QED
  BY <1>1, <1>2, <1>3, <1>4, <1>5

LEMMA WorkflowSettles ==
  ASSUME IInv, NEW answer \in Answer, NEW thrown \in BOOLEAN,
         onStageStartSettles(answer, thrown) \/ onWorkflowEndSettles(answer, thrown)
  PROVE  IInv'
<1> USE DEF IInv, overrideVars, piVars, userVars
<1> DEFINE call == workflow.call
<1>0. call \in Call /\ Settled(call, answer, thrown)
  BY DEF onStageStartSettles, onWorkflowEndSettles, Snapshots, Calling
<1>1. /\ model' \in Model \cup {None} /\ thinking' \in Level /\ spoiled' \in BOOLEAN
      /\ ~spoiled' => /\ ~spoiled /\ ~thrown
                      /\ model' = IF call.target # None THEN call.target ELSE model
  BY <1>0, SettledCall
<1>2. call.target \in Model \cup {None} /\ call.changed \in BOOLEAN
  BY <1>0 DEF Call
<1> HIDE DEF call
<1>3. CASE onStageStartSettles(answer, thrown)
  <2>1. /\ workflow.at = "applying" /\ touched' = FALSE
        /\ UNCHANGED <<config, capturedModel, baselineCaptured, armedBaseline, turn,
                       userModel, userModels, userLevels, overlapped>>
    BY <1>3 DEF onStageStartSettles
  <2>2. baselineCaptured /\ baseline \in BaselineSnapshot /\ baseline.model = capturedModel
    BY <2>1 DEF Snapshots
  <2>3. baseline' = IF thrown THEN baseline
                    ELSE [baseline EXCEPT !.hasModelChange = call.changed]
    BY <1>3 DEF onStageStartSettles, call
  <2>4. /\ baseline' \in BaselineSnapshot /\ baseline'.model = capturedModel
        /\ ~thrown => baseline'.hasModelChange = call.changed
    BY <1>2, <2>2, <2>3 DEF BaselineSnapshot
  <2>5. workflow' = [at |-> "running", stage |-> workflow.stage, call |-> None]
    BY <1>3 DEF onStageStartSettles
  <2>6. TypeOK'
    <3>1. workflow.stage \in StageRef \cup {None}
      BY DEF TypeOK, RunRecord
    <3>2. workflow' \in RunRecord
      BY <2>5, <3>1, RunRecords DEF WorkflowAt
    <3> QED
      BY <1>1, <2>1, <2>4, <3>2 DEF TypeOK
  <2>7. Snapshots'
    BY <2>1, <2>2, <2>4, <2>5 DEF Snapshots, Active, Calling, Armed
  <2>8. ASSUME ~spoiled' PROVE Sources' /\ Owed'
    <3>1. /\ Sources /\ Owed /\ ~thrown
          /\ model' = IF call.target # None THEN call.target ELSE model
      BY <1>1, <2>8
    <3>2. Sources'
      BY <2>1, <2>2, <2>5, <3>1 DEF Sources, Active, Armed, Users
    <3>3. CASE call.changed
      BY <2>1, <2>2, <2>4, <3>1, <3>2, <3>3 DEF Owed
    <3>4. CASE ~call.changed
      <4>1. call.target \in Users
        BY <2>1, <3>1, <3>4 DEF Sources, call
      <4> QED
        BY <2>1, <3>1, <3>2, <4>1 DEF Owed, Users
    <3> QED
      BY <1>2, <3>3, <3>4
  <2> QED
    BY <2>6, <2>7, <2>8
<1>4. CASE onWorkflowEndSettles(answer, thrown)
  <2>1. /\ workflow.at = "restoring"
        /\ UNCHANGED <<config, overrideVars, armedBaseline, turn, userVars, overlapped>>
    BY <1>4 DEF onWorkflowEndSettles
  <2>2. workflow' = [at |-> "off", stage |-> None, call |-> None]
    BY <1>4 DEF onWorkflowEndSettles, NoRun
  <2>3. ~baselineCaptured
    BY <2>1 DEF Snapshots, Active
  <2>4. TypeOK'
    <3>1. workflow' \in RunRecord
      BY <2>2, RunRecords DEF WorkflowAt
    <3> QED
      BY <1>1, <2>1, <3>1 DEF TypeOK
  <2>5. Snapshots'
    BY <2>1, <2>2, <2>3 DEF Snapshots, Active, Calling, Armed
  <2>6. ASSUME ~spoiled' PROVE Sources' /\ Owed'
    <3>1. /\ Sources /\ Owed
          /\ model' = IF call.target # None THEN call.target ELSE model
      BY <1>1, <2>6
    <3>2. Sources'
      BY <2>1, <2>2, <3>1 DEF Sources, Active, Armed, Users
    <3>3. call.target \in userModels \cup {None}
      BY <2>1, <3>1 DEF Sources, call
    <3>4. Owed'
      BY <2>1, <2>3, <3>1, <3>3 DEF Owed, call
    <3> QED
      BY <3>2, <3>4
  <2> QED
    BY <2>4, <2>5, <2>6
<1> QED
  BY <1>3, <1>4

LEMMA TurnStep ==
  ASSUME IInv,
         (\E skill \in Skill, thrown \in BOOLEAN : input(skill, thrown)) \/ agent_end
  PROVE  IInv'
<1> USE DEF IInv, overrideVars, piVars, userVars
<1>1. ASSUME NEW skill \in Skill, NEW thrown \in BOOLEAN, input(skill, thrown) PROVE IInv'
  <2> DEFINE base == [thinking |-> thinking, model |-> capturedModel, hasModelChange |-> FALSE]
             call == applyEffectiveModel(config.skills[skill], base, FALSE)
  <2>1. /\ turn.at = "off" /\ ~baselineCaptured
        /\ UNCHANGED <<piVars, config, overrideVars, workflow, userVars>>
    BY <1>1 DEF input
  <2>2. base \in BaselineSnapshot
    <3>1. thinking \in Level /\ capturedModel \in Model \cup {None}
      BY DEF TypeOK
    <3> QED
      BY <3>1 DEF BaselineSnapshot
  <2>3. call \in Call /\ (~call.changed => call.target = None)
    <3>1. PICK file \in File : config = loadModelsConfig(file)
      BY DEF TypeOK
    <3>2. config.skills[skill] \in ModelEntry
      BY <1>1, <3>1, ConfigEntries DEF input, Arms, IsRung
    <3> HIDE DEF base
    <3> QED
      BY <2>2, <3>2, AppliedCall
  <2>4. CASE thrown
    <3>1. spoiled' = TRUE /\ UNCHANGED <<armedBaseline, turn, overlapped>>
      BY <1>1, <2>4 DEF input
    <3>2. TypeOK'
      BY <2>1, <3>1 DEF TypeOK
    <3>3. Snapshots'
      BY <2>1, <3>1 DEF Snapshots, Active, Calling, Armed
    <3> QED
      BY <3>1, <3>2, <3>3
  <2>5. CASE ~thrown
    <3>1. /\ armedBaseline' = base
          /\ turn' = [at |-> "arming", skill |-> skill, call |-> call]
          /\ spoiled' = (spoiled \/ capturedModel = None)
          /\ overlapped' = (overlapped \/ workflow.at # "off")
      BY <1>1, <2>5 DEF input
    <3>2. base.model = capturedModel
      OBVIOUS
    <3> HIDE DEF base, call
    <3>3. TypeOK'
      <4>1. turn' \in TurnRecord
        BY <2>3, <3>1, TurnRecords DEF TurnAt
      <4>2. spoiled' \in BOOLEAN /\ overlapped' \in BOOLEAN
        BY <3>1 DEF TypeOK
      <4> QED
        BY <2>1, <2>2, <3>1, <4>1, <4>2 DEF TypeOK
    <3>4. Snapshots'
      BY <2>1, <2>2, <2>3, <3>1 DEF Snapshots, Active, Calling, Armed
    <3>5. ASSUME ~spoiled' PROVE Sources' /\ Owed'
      <4>1. Sources /\ Owed /\ capturedModel \in Users
        BY <3>1, <3>5 DEF Sources, Users
      <4>2. Sources'
        BY <2>1, <2>3, <3>1, <3>2, <4>1 DEF Sources, Active, Armed, Users
      <4>3. Owed'
        BY <2>1, <3>1, <4>1 DEF Owed
      <4> QED
        BY <4>2, <4>3
    <3> QED
      BY <3>3, <3>4, <3>5
  <2> QED
    BY <2>4, <2>5
<1>2. CASE agent_end
  <2> DEFINE call == restoreBaseline(armedBaseline)
  <2>1. /\ turn.at = "running"
        /\ UNCHANGED <<piVars, config, overrideVars, workflow, userVars, spoiled, overlapped>>
    BY <1>2 DEF agent_end
  <2>2. /\ call \in Call
        /\ call.target = IF armedBaseline.hasModelChange THEN armedBaseline.model ELSE None
    BY <2>1, RestoreCall DEF Snapshots, Armed
  <2>3. turn' = [at |-> "restoring", skill |-> None, call |-> call] /\ armedBaseline' = None
    BY <1>2 DEF agent_end
  <2> HIDE DEF call
  <2>4. TypeOK'
    <3>1. turn' \in TurnRecord
      BY <2>2, <2>3, TurnRecords DEF TurnAt
    <3> QED
      BY <2>1, <2>3, <3>1 DEF TypeOK
  <2>5. Snapshots'
    BY <2>1, <2>2, <2>3 DEF Snapshots, Active, Calling, Armed
  <2>6. ASSUME ~spoiled' PROVE Sources' /\ Owed'
    <3>1. Sources /\ Owed /\ armedBaseline.model \in Users
      BY <2>1, <2>6 DEF Sources, Armed
    <3>2. Sources'
      BY <2>1, <2>2, <2>3, <3>1 DEF Sources, Active, Armed, Users
    <3>3. Owed'
      BY <2>1, <2>2, <2>3, <3>1 DEF Owed, Users
    <3> QED
      BY <3>2, <3>3
  <2> QED
    BY <2>4, <2>5, <2>6
<1> QED
  BY <1>1, <1>2

LEMMA TurnSettles ==
  ASSUME IInv, NEW answer \in Answer, NEW thrown \in BOOLEAN,
         inputSettles(answer, thrown) \/ agent_endSettles(answer, thrown)
  PROVE  IInv'
<1> USE DEF IInv, overrideVars, piVars, userVars
<1> DEFINE call == turn.call
<1>0. call \in Call /\ Settled(call, answer, thrown)
  BY DEF inputSettles, agent_endSettles, Snapshots
<1>1. /\ model' \in Model \cup {None} /\ thinking' \in Level /\ spoiled' \in BOOLEAN
      /\ ~spoiled' => /\ ~spoiled /\ ~thrown
                      /\ model' = IF call.target # None THEN call.target ELSE model
  BY <1>0, SettledCall
<1>2. call.target \in Model \cup {None} /\ call.changed \in BOOLEAN
  BY <1>0 DEF Call
<1> HIDE DEF call
<1>3. CASE inputSettles(answer, thrown)
  <2>1. turn.at = "arming" /\ UNCHANGED <<config, overrideVars, workflow, userVars, overlapped>>
    BY <1>3 DEF inputSettles
  <2>2. armedBaseline \in BaselineSnapshot
    BY <2>1 DEF Snapshots, Armed
  <2>3. armedBaseline' = IF thrown THEN armedBaseline
                         ELSE [armedBaseline EXCEPT !.hasModelChange = call.changed]
    BY <1>3 DEF inputSettles, call
  <2>4. /\ armedBaseline' \in BaselineSnapshot /\ armedBaseline'.model = armedBaseline.model
        /\ ~thrown => armedBaseline'.hasModelChange = call.changed
    BY <1>2, <2>2, <2>3 DEF BaselineSnapshot
  <2>5. turn' = [at |-> "running", skill |-> turn.skill, call |-> None]
    BY <1>3 DEF inputSettles
  <2>6. TypeOK'
    <3>1. turn.skill \in Skill \cup {None}
      BY DEF TypeOK, TurnRecord
    <3>2. turn' \in TurnRecord
      BY <2>5, <3>1, TurnRecords DEF TurnAt
    <3> QED
      BY <1>1, <2>1, <2>4, <3>2 DEF TypeOK
  <2>7. Snapshots'
    BY <2>1, <2>4, <2>5 DEF Snapshots, Active, Calling, Armed
  <2>8. ASSUME ~spoiled' PROVE Sources' /\ Owed'
    <3>1. /\ Sources /\ Owed /\ ~thrown
          /\ model' = IF call.target # None THEN call.target ELSE model
      BY <1>1, <2>8
    <3>2. Sources'
      BY <2>1, <2>4, <2>5, <3>1 DEF Sources, Active, Armed, Users
    <3>3. ~call.changed => call.target = None
      BY <2>1, <3>1 DEF Sources, call
    <3>4. Owed'
      BY <1>2, <2>1, <2>4, <2>5, <3>1, <3>3 DEF Owed
    <3> QED
      BY <3>2, <3>4
  <2> QED
    BY <2>6, <2>7, <2>8
<1>4. CASE agent_endSettles(answer, thrown)
  <2>1. /\ turn.at = "restoring"
        /\ UNCHANGED <<config, overrideVars, armedBaseline, workflow, userVars, overlapped>>
    BY <1>4 DEF agent_endSettles
  <2>2. turn' = [at |-> "off", skill |-> None, call |-> None]
    BY <1>4 DEF agent_endSettles, NoTurn
  <2>3. TypeOK'
    <3>1. turn' \in TurnRecord
      BY <2>2, TurnRecords DEF TurnAt
    <3> QED
      BY <1>1, <2>1, <3>1 DEF TypeOK
  <2>4. Snapshots'
    BY <2>1, <2>2 DEF Snapshots, Active, Calling, Armed
  <2>5. ASSUME ~spoiled' PROVE Sources' /\ Owed'
    <3>1. /\ Sources /\ Owed
          /\ model' = IF call.target # None THEN call.target ELSE model
      BY <1>1, <2>5
    <3>2. Sources'
      BY <2>1, <2>2, <3>1 DEF Sources, Active, Armed, Users
    <3>3. call.target \in userModels \cup {None}
      BY <2>1, <3>1 DEF Sources, call
    <3>4. Owed'
      BY <2>1, <3>1, <3>3 DEF Owed, call
    <3> QED
      BY <3>2, <3>4
  <2> QED
    BY <2>3, <2>4, <2>5
<1> QED
  BY <1>3, <1>4

-----------------------------------------------------------------------------
LEMMA Inductive == Spec => []IInv
<1>1. IInv /\ [Next]_vars => IInv'
  <2> SUFFICES ASSUME IInv, [Next]_vars PROVE IInv'
    OBVIOUS
  <2>1. CASE \/ SessionStart
             \/ \E m \in UserModel : UserPicksModel(m)
             \/ \E l \in UserLevel : UserPicksLevel(l)
             \/ UNCHANGED vars
    BY <2>1, PiAndUserStep
  <2>2. CASE \/ \E thrown \in BOOLEAN : onWorkflowStart(thrown)
             \/ \E stage \in StageRef : onStageStart(stage)
             \/ StageEnds
             \/ RunThrows
             \/ onWorkflowEnd
    BY <2>2, WorkflowStep
  <2>3. CASE \E answer \in Answer, thrown \in BOOLEAN :
               onStageStartSettles(answer, thrown) \/ onWorkflowEndSettles(answer, thrown)
    BY <2>3, WorkflowSettles
  <2>4. CASE (\E skill \in Skill, thrown \in BOOLEAN : input(skill, thrown)) \/ agent_end
    BY <2>4, TurnStep
  <2>5. CASE \E answer \in Answer, thrown \in BOOLEAN :
               inputSettles(answer, thrown) \/ agent_endSettles(answer, thrown)
    BY <2>5, TurnSettles
  <2> QED
    BY <2>1, <2>2, <2>3, <2>4, <2>5 DEF Next
<1> QED
  BY <1>1, InvInitially, PTL DEF Spec

(* The settings stay settings, whatever Pi answers.                        *)
THEOREM OverrideTypeCorrect == Spec => []TypeOK
<1>1. IInv => TypeOK
  BY DEF IInv
<1> QED
  BY <1>1, Inductive, PTL

(* With no scope open and no call refused, the model in force is one the   *)
(* user picked, however the two scopes overlapped and whatever the files   *)
(* configure.                                                              *)
THEOREM OverridesAreUndone == Spec => []NoOverrideSurvives
<1>1. IInv => NoOverrideSurvives
  BY DEF IInv, Snapshots, Sources, Owed, NoOverrideSurvives, Idle, Active
<1> QED
  BY <1>1, Inductive, PTL

(* session_start captures no override unless Pi refused a call, and a run  *)
(* that ended holds no snapshot, however its restore went.                 *)
THEOREM SnapshotsStayTheUsers == Spec => []SnapshotsAreTheUsers
<1>1. IInv => CapturedIsUsers
  BY DEF IInv, Sources, CapturedIsUsers
<1>2. IInv => NotPoisoned
  BY DEF IInv, Snapshots, NotPoisoned
<1>3. IInv => SnapshotsAreTheUsers
  BY <1>1, <1>2 DEF SnapshotsAreTheUsers
<1> QED
  BY <1>3, Inductive, PTL
-----------------------------------------------------------------------------
(* While no scope begins inside the other, every level kept for later is   *)
(* the user's, and the level of a running stage or turn is a loan.         *)
Apart == workflow.at \in {"off", "lost"} \/ turn.at = "off"

Levels ==
  /\ Apart
  /\ Active => baseline.thinking \in userLevels
  /\ Armed => armedBaseline.thinking \in userLevels
  /\ workflow.at = "restoring" => workflow.call.level \in userLevels
  /\ turn.at = "restoring" => turn.call.level \in userLevels
  /\ Idle => thinking \in userLevels

LInv == ~spoiled /\ ~overlapped => Levels

LEMMA LevelsInductive ==
  ASSUME IInv, LInv, [Next]_vars
  PROVE  LInv'
<1> SUFFICES ASSUME ~spoiled', ~overlapped' PROVE Levels'
  BY DEF LInv
<1> USE DEF overrideVars, piVars, userVars
<1>1. CASE SessionStart \/ UNCHANGED vars
  <2>1. UNCHANGED <<thinking, baseline, armedBaseline, workflow, turn, userLevels,
                    spoiled, overlapped>>
    BY <1>1 DEF SessionStart, vars
  <2> QED
    BY <2>1 DEF LInv, Levels, Apart, Active, Armed, Idle
<1>2. ASSUME NEW m \in UserModel, UserPicksModel(m) PROVE Levels'
  BY <1>2 DEF UserPicksModel, LInv, Levels, Apart, Active, Armed, Idle
<1>3. ASSUME NEW l \in UserLevel, UserPicksLevel(l) PROVE Levels'
  BY <1>3 DEF UserPicksLevel, LInv, Levels, Apart, Active, Armed, Idle
<1>4. ASSUME NEW thrown \in BOOLEAN, onWorkflowStart(thrown) PROVE Levels'
  <2>1. /\ workflow' = [at |-> "between", stage |-> None, call |-> None]
        /\ baseline' = [thinking |-> thinking, model |-> capturedModel,
                        hasModelChange |-> FALSE]
        /\ workflow.at \in {"off", "lost"} /\ turn.at = "off" /\ ~spoiled /\ ~overlapped
        /\ UNCHANGED <<thinking, armedBaseline, turn, userLevels>>
    BY <1>4 DEF onWorkflowStart, NoRun
  <2>2. thinking \in userLevels
    BY <2>1 DEF LInv, Levels, Idle
  <2> QED
    BY <2>1, <2>2 DEF Levels, Apart, Active, Armed, Idle
<1>5. ASSUME NEW stage \in StageRef, onStageStart(stage) PROVE Levels'
  <2>1. /\ workflow.at = "between"
        /\ UNCHANGED <<thinking, baseline, armedBaseline, turn, userLevels, spoiled, overlapped>>
    BY <1>5 DEF onStageStart
  <2>2. workflow'.at \in {"applying", "running"}
    BY <1>5 DEF onStageStart
  <2> QED
    BY <2>1, <2>2 DEF LInv, Levels, Apart, Active, Armed, Idle
<1>6. ASSUME NEW answer \in Answer, NEW thrown \in BOOLEAN, onStageStartSettles(answer, thrown)
      PROVE  Levels'
  <2>1. /\ workflow.at = "applying" /\ workflow'.at = "running"
        /\ UNCHANGED <<armedBaseline, turn, userLevels, overlapped>> /\ ~spoiled
        /\ baseline' = IF thrown THEN baseline
                       ELSE [baseline EXCEPT !.hasModelChange = workflow.call.changed]
    BY <1>6 DEF onStageStartSettles, Settled
  <2>2. baseline \in BaselineSnapshot
    BY <2>1 DEF IInv, Snapshots
  <2>3. baseline'.thinking = baseline.thinking
    BY <2>1, <2>2 DEF BaselineSnapshot
  <2> QED
    BY <2>1, <2>3 DEF LInv, Levels, Apart, Active, Armed, Idle
<1>7. CASE StageEnds \/ RunThrows
  <2>1. /\ workflow.at = "running" /\ workflow'.at = "between" /\ ~spoiled
        /\ UNCHANGED <<baseline, thinking, armedBaseline, turn, userLevels, overlapped>>
    BY <1>7 DEF StageEnds, RunThrows, NoRun
  <2> QED
    BY <2>1 DEF LInv, Levels, Apart, Active, Armed, Idle
<1>8. CASE onWorkflowEnd
  <2> DEFINE call == restoreBaseline(baseline)
  <2>1. /\ workflow.at = "between" /\ ~spoiled
        /\ UNCHANGED <<thinking, armedBaseline, turn, userLevels, overlapped>>
    BY <1>8 DEF onWorkflowEnd
  <2>2. baselineCaptured
    BY <2>1 DEF IInv, Sources, Active
  <2>3. workflow' = [at |-> "restoring", stage |-> None, call |-> call]
    BY <1>8, <2>2 DEF onWorkflowEnd
  <2>4. call.level = baseline.thinking
    BY DEF restoreBaseline
  <2> HIDE DEF call
  <2> QED
    BY <2>1, <2>3, <2>4 DEF LInv, Levels, Apart, Active, Armed, Idle
<1>9. ASSUME NEW answer \in Answer, NEW thrown \in BOOLEAN, onWorkflowEndSettles(answer, thrown)
      PROVE  Levels'
  <2>1. /\ workflow.at = "restoring" /\ workflow'.at = "off" /\ ~spoiled
        /\ thinking' = workflow.call.level
        /\ UNCHANGED <<baseline, armedBaseline, turn, userLevels, overlapped>>
    BY <1>9 DEF onWorkflowEndSettles, Settled, NoRun
  <2> QED
    BY <2>1 DEF LInv, Levels, Apart, Active, Armed, Idle
<1>10. ASSUME NEW skill \in Skill, NEW thrown \in BOOLEAN, input(skill, thrown) PROVE Levels'
  <2>1. /\ armedBaseline' = [thinking |-> thinking, model |-> capturedModel,
                             hasModelChange |-> FALSE]
        /\ turn.at = "off" /\ turn'.at = "arming" /\ workflow.at = "off"
        /\ ~spoiled /\ ~overlapped
        /\ UNCHANGED <<thinking, baseline, workflow, userLevels>>
    <3>1. ~thrown
      BY <1>10 DEF input
    <3>2. /\ spoiled' = (spoiled \/ capturedModel = None)
          /\ overlapped' = (overlapped \/ workflow.at # "off")
          /\ turn' = [at |-> "arming", skill |-> skill,
                      call |-> applyEffectiveModel(config.skills[skill],
                                 [thinking |-> thinking, model |-> capturedModel,
                                  hasModelChange |-> FALSE], FALSE)]
          /\ armedBaseline' = [thinking |-> thinking, model |-> capturedModel,
                               hasModelChange |-> FALSE]
      BY <1>10, <3>1 DEF input
    <3>3. turn'.at = "arming"
      BY <3>2
    <3>4. workflow.at = "off" /\ ~spoiled /\ ~overlapped
      BY <3>2
    <3> QED
      BY <1>10, <3>2, <3>3, <3>4 DEF input
  <2>2. thinking \in userLevels
    BY <2>1 DEF LInv, Levels, Idle
  <2> QED
    BY <2>1, <2>2 DEF Levels, Apart, Active, Armed, Idle
<1>11. ASSUME NEW answer \in Answer, NEW thrown \in BOOLEAN, inputSettles(answer, thrown)
       PROVE  Levels'
  <2>1. /\ turn.at = "arming" /\ turn'.at = "running" /\ ~spoiled
        /\ UNCHANGED <<baseline, workflow, userLevels, overlapped>>
        /\ armedBaseline' = IF thrown THEN armedBaseline
                            ELSE [armedBaseline EXCEPT !.hasModelChange = turn.call.changed]
    BY <1>11 DEF inputSettles, Settled
  <2>2. armedBaseline \in BaselineSnapshot
    BY <2>1 DEF IInv, Snapshots, Armed
  <2>3. armedBaseline'.thinking = armedBaseline.thinking
    BY <2>1, <2>2 DEF BaselineSnapshot
  <2> QED
    BY <2>1, <2>3 DEF LInv, Levels, Apart, Active, Armed, Idle
<1>12. CASE agent_end
  <2> DEFINE call == restoreBaseline(armedBaseline)
  <2>1. /\ turn.at = "running"
        /\ UNCHANGED <<thinking, baseline, workflow, userLevels, spoiled, overlapped>>
        /\ turn' = [at |-> "restoring", skill |-> None, call |-> call]
    BY <1>12 DEF agent_end
  <2>2. call.level = armedBaseline.thinking
    BY DEF restoreBaseline
  <2> HIDE DEF call
  <2> QED
    BY <2>1, <2>2 DEF LInv, Levels, Apart, Active, Armed, Idle
<1>13. ASSUME NEW answer \in Answer, NEW thrown \in BOOLEAN, agent_endSettles(answer, thrown)
       PROVE  Levels'
  <2>1. /\ turn.at = "restoring" /\ turn'.at = "off" /\ ~spoiled
        /\ thinking' = turn.call.level
        /\ UNCHANGED <<baseline, armedBaseline, workflow, userLevels, overlapped>>
    BY <1>13 DEF agent_endSettles, Settled, NoTurn
  <2> QED
    BY <2>1 DEF LInv, Levels, Apart, Active, Armed, Idle
<1> QED
  BY <1>1, <1>2, <1>3, <1>4, <1>5, <1>6, <1>7, <1>8, <1>9, <1>10, <1>11, <1>12, <1>13 DEF Next

(* With no scope open, no call refused and no scope begun inside another,  *)
(* the level in force is one the user picked.                              *)
THEOREM LevelsAreRestored == Spec => []LevelRestored
<1>1. Init => LInv
  BY DEF Init, LInv, Levels, Apart, Active, Armed, Idle, NoRun, NoTurn
<1>2. IInv /\ LInv /\ [Next]_vars => LInv'
  BY LevelsInductive
<1>3. LInv => LevelRestored
  BY DEF LInv, Levels, LevelRestored
<1> QED
  BY <1>1, <1>2, <1>3, Inductive, PTL DEF Spec
-----------------------------------------------------------------------------
(* The model a stage is due: its own, or else the run's baseline.          *)
OwnModel(stage) ==
  resolveModel(resolveStageModel(config, Workflow, stage.name, stage.skill).model)

DueModel ==
  IF OwnModel(workflow.stage) # None THEN OwnModel(workflow.stage) ELSE baseline.model

(* What a stage is due is what its call asks for, and then what is in force: *)
(* no turn of a skill is open to change it, and the user's pick is noted.    *)
StagesGetTheirModels ==
  /\ workflow.at = "applying" => workflow.call.target = DueModel
  /\ workflow.at = "running" /\ ~touched => model = DueModel

StageInv == ~spoiled /\ ~overlapped => StagesGetTheirModels

LEMMA AppliedTarget ==
  ASSUME NEW override, NEW base
  PROVE  applyEffectiveModel(override, base, TRUE).target
           = IF resolveModel(override.model) # None THEN resolveModel(override.model)
             ELSE base.model
  BY DEF applyEffectiveModel

LEMMA StagesInductive ==
  ASSUME IInv, LInv, StageInv, [Next]_vars
  PROVE  StageInv'
<1> SUFFICES ASSUME ~spoiled', ~overlapped' PROVE StagesGetTheirModels'
  BY DEF StageInv
<1> USE DEF overrideVars, piVars, userVars
<1>1. CASE \/ SessionStart \/ (\E l \in UserLevel : UserPicksLevel(l)) \/ UNCHANGED vars
  <2>1. UNCHANGED <<model, config, baseline, workflow, touched, spoiled, overlapped>>
    BY <1>1 DEF SessionStart, UserPicksLevel, vars
  <2> QED
    BY <2>1 DEF StageInv, StagesGetTheirModels, DueModel, OwnModel
<1>2. ASSUME NEW m \in UserModel, UserPicksModel(m) PROVE StagesGetTheirModels'
  <2>1. touched' /\ UNCHANGED <<config, baseline, workflow, spoiled, overlapped>>
    BY <1>2 DEF UserPicksModel
  <2> QED
    BY <2>1 DEF StageInv, StagesGetTheirModels, DueModel, OwnModel
<1>3. CASE \/ \E thrown \in BOOLEAN : onWorkflowStart(thrown)
           \/ StageEnds \/ RunThrows \/ onWorkflowEnd
           \/ \E answer \in Answer, thrown \in BOOLEAN : onWorkflowEndSettles(answer, thrown)
  <2>1. workflow'.at \notin {"applying", "running"}
    <3>1. workflow' = NoRun => workflow'.at = "off"
      BY DEF NoRun
    <3>2. \A a : workflow' = [NoRun EXCEPT !.at = a] => workflow'.at = a
      BY DEF NoRun
    <3>3. CASE \E thrown \in BOOLEAN : onWorkflowStart(thrown)
      BY <3>2, <3>3 DEF onWorkflowStart
    <3>4. CASE StageEnds \/ RunThrows
      BY <3>2, <3>4 DEF StageEnds, RunThrows
    <3>5. CASE onWorkflowEnd
      BY <3>1, <3>5 DEF onWorkflowEnd
    <3>6. CASE \E answer \in Answer, thrown \in BOOLEAN : onWorkflowEndSettles(answer, thrown)
      BY <3>1, <3>6 DEF onWorkflowEndSettles
    <3> QED
      BY <1>3, <3>3, <3>4, <3>5, <3>6
  <2> QED
    BY <2>1 DEF StagesGetTheirModels
<1>4. ASSUME NEW stage \in StageRef, onStageStart(stage) PROVE StagesGetTheirModels'
  <2> DEFINE override == resolveStageModel(config, Workflow, stage.name, stage.skill)
             call == applyEffectiveModel(override, baseline, TRUE)
  <2>1. /\ workflow.at = "between"
        /\ UNCHANGED <<config, baseline, spoiled, overlapped>>
    BY <1>4 DEF onStageStart
  <2>2. baselineCaptured
    BY <2>1 DEF IInv, Sources, Active
  <2>3. workflow' = [at |-> "applying", stage |-> stage, call |-> call]
    BY <1>4, <2>2 DEF onStageStart
  <2>4. call.target = IF OwnModel(stage) # None THEN OwnModel(stage) ELSE baseline.model
    BY AppliedTarget DEF OwnModel
  <2>5. OwnModel(stage)' = OwnModel(stage)
    BY <2>1 DEF OwnModel
  <2> HIDE DEF call, override
  <2>6. workflow'.stage = stage /\ workflow'.at = "applying" /\ workflow'.call = call
    BY <2>3
  <2>7. DueModel' = call.target
    <3>1. OwnModel(workflow.stage)' = OwnModel(stage)
      BY <2>1, <2>6 DEF OwnModel
    <3> QED
      BY <2>1, <2>4, <3>1 DEF DueModel
  <2> QED
    BY <2>6, <2>7 DEF StagesGetTheirModels
<1>5. ASSUME NEW answer \in Answer, NEW thrown \in BOOLEAN, onStageStartSettles(answer, thrown)
      PROVE  StagesGetTheirModels'
  <2>1. /\ workflow.at = "applying" /\ ~spoiled /\ ~overlapped /\ config' = config
        /\ workflow'.at = "running" /\ workflow'.stage = workflow.stage
        /\ model' = IF workflow.call.target # None THEN workflow.call.target ELSE model
        /\ baseline' = [baseline EXCEPT !.hasModelChange = workflow.call.changed]
    BY <1>5 DEF onStageStartSettles, Settled
  <2>2. /\ workflow.call.target = DueModel
        /\ baseline \in BaselineSnapshot /\ baseline.model # None
    BY <2>1 DEF StageInv, StagesGetTheirModels, IInv, Snapshots, Sources, Active
  <2>3. baseline'.model = baseline.model
    BY <2>1, <2>2 DEF BaselineSnapshot
  <2>4. OwnModel(workflow.stage)' = OwnModel(workflow.stage)
    BY <2>1 DEF OwnModel
  <2>5. DueModel' = DueModel /\ DueModel # None
    BY <2>2, <2>3, <2>4 DEF DueModel
  <2> QED
    BY <2>1, <2>2, <2>5 DEF StagesGetTheirModels
<1>6. CASE (\E skill \in Skill, thrown \in BOOLEAN : input(skill, thrown)) \/ agent_end
  <2>1. UNCHANGED <<model, config, baseline, workflow, touched>>
    <3>1. CASE \E skill \in Skill, thrown \in BOOLEAN : input(skill, thrown)
      BY <3>1 DEF input
    <3>2. CASE agent_end
      BY <3>2 DEF agent_end
    <3> QED
      BY <1>6, <3>1, <3>2
  <2>2. ~spoiled /\ ~overlapped
    <3>1. ASSUME NEW skill \in Skill, NEW thrown \in BOOLEAN, input(skill, thrown)
          PROVE  ~spoiled /\ ~overlapped
      <4>1. ~thrown
        BY <3>1 DEF input
      <4>2. /\ spoiled' = (spoiled \/ capturedModel = None)
            /\ overlapped' = (overlapped \/ workflow.at # "off")
        BY <3>1, <4>1 DEF input
      <4> QED
        BY <4>2
    <3>2. CASE agent_end
      BY <3>2 DEF agent_end
    <3> QED
      BY <1>6, <3>1, <3>2
  <2> QED
    BY <2>1, <2>2 DEF StageInv, StagesGetTheirModels, DueModel, OwnModel
<1>7. CASE \E answer \in Answer, thrown \in BOOLEAN :
             inputSettles(answer, thrown) \/ agent_endSettles(answer, thrown)
  <2>1. turn.at # "off" /\ workflow' = workflow /\ ~spoiled /\ ~overlapped
    <3>1. ASSUME NEW answer \in Answer, NEW thrown \in BOOLEAN, inputSettles(answer, thrown)
          PROVE  turn.at = "arming" /\ workflow' = workflow /\ ~spoiled /\ ~overlapped
      BY <3>1 DEF inputSettles, Settled
    <3>2. ASSUME NEW answer \in Answer, NEW thrown \in BOOLEAN, agent_endSettles(answer, thrown)
          PROVE  turn.at = "restoring" /\ workflow' = workflow /\ ~spoiled /\ ~overlapped
      BY <3>2 DEF agent_endSettles, Settled
    <3> QED
      BY <1>7, <3>1, <3>2
  <2>2. workflow.at \in {"off", "lost"}
    BY <2>1 DEF LInv, Levels, Apart
  <2> QED
    BY <2>1, <2>2 DEF StagesGetTheirModels
<1> QED
  BY <1>1, <1>2, <1>3, <1>4, <1>5, <1>6, <1>7 DEF Next

(* With no call refused and no scope begun inside another, a stage runs on *)
(* the model its entry names, or on the one in force when the run began,   *)
(* never on that of the stage before it, until the user picks another.     *)
THEOREM StagesRunOnTheirModels == Spec => []StageRunsOnItsModel
<1>1. Init => LInv /\ StageInv
  BY DEF Init, LInv, Levels, Apart, Active, Armed, Idle, NoRun, NoTurn,
         StageInv, StagesGetTheirModels
<1>2. IInv /\ LInv /\ StageInv /\ [Next]_vars => (LInv /\ StageInv)'
  BY LevelsInductive, StagesInductive
<1>3. StageInv => StageRunsOnItsModel
  BY DEF StageInv, StagesGetTheirModels, DueModel, OwnModel, StageRunsOnItsModel
<1> QED
  BY <1>1, <1>2, <1>3, Inductive, PTL DEF Spec
=============================================================================
