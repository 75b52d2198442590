---------------------------- MODULE ModelsConfig ----------------------------
(***************************************************************************)
(* models.json of rpiv-pi: which model and thinking level a stage or a     *)
(* standalone skill asks for.  A file is a record of four rungs; a rung    *)
(* that has no entry for a name does not have it in its domain.            *)
(***************************************************************************)
CONSTANTS Model,     \* the models the registry knows
          ModelName, \* the names a file may use, known to the registry or not
          Level,     \* thinking levels
          None       \* an absent field, name, model or record

ASSUME ModelsAssumption == Model \subseteq ModelName /\ None \notin ModelName \cup Level

(* An entry of the file: its fields may be absent. *)
ModelEntry == [model : ModelName \cup {None}, thinking : Level \cup {None}]

(* What the schema lets through. *)
IsRung(rung) == \A n \in DOMAIN rung : rung[n] \in ModelEntry

IsFile(file) ==
  /\ file.defaults \in ModelEntry /\ IsRung(file.stages) /\ IsRung(file.skills)
  /\ \A w \in DOMAIN file.presets : IsRung(file.presets[w])

Blank == [model |-> None, thinking |-> None]

(* The fields an entry does not name come from `defaults'. *)
resolvedEntryWithCascade(entry, defaults) ==
  [f \in {"model", "thinking"} |-> IF entry[f] # None THEN entry[f] ELSE defaults[f]]

Cascaded(rung, defaults) == [n \in DOMAIN rung |-> resolvedEntryWithCascade(rung[n], defaults)]

(* A preset block whose stages are all gone is dropped, which looks the    *)
(* same to a lookup as a block with none.                                  *)
loadModelsConfig(file) ==
  [defaults |-> file.defaults,
   stages   |-> Cascaded(file.stages, file.defaults),
   skills   |-> Cascaded(file.skills, file.defaults),
   presets  |-> [w \in DOMAIN file.presets |-> Cascaded(file.presets[w], file.defaults)]]

(* The most specific rung that has the stage answers alone.  `skill' is    *)
(* None for a script stage.                                                *)
resolveStageModel(config, workflow, stage, skill) ==
  LET inPreset == workflow \in DOMAIN config.presets /\ stage \in DOMAIN config.presets[workflow]
      inStages == stage \in DOMAIN config.stages
      inSkills == skill \in DOMAIN config.skills
  IN  CASE inPreset -> config.presets[workflow][stage]
        [] ~inPreset /\ inStages -> config.stages[stage]
        [] ~inPreset /\ ~inStages /\ inSkills -> config.skills[skill]
        [] OTHER -> config.defaults

(* The registry's answer for a name of the file. *)
resolveModel(name) == IF name \in Model THEN name ELSE None
=============================================================================
