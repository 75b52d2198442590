------------------------------ MODULE Workflow ------------------------------
(***************************************************************************)
(* A workflow of rpiv-workflow: a directed graph of stages.  A stage runs  *)
(* one agent session ("session"), one in-process function ("script"), one  *)
(* session per unit of a list computed on entry ("fanout"), or one session *)
(* per unit pulled from a generator ("iterate").  The edge leaving a stage *)
(* is a fixed successor or a decision made by an author's function.        *)
(***************************************************************************)
EXTENDS Integers, Sequences, FiniteSets

CONSTANTS
  Stage,            \* the record keys of Workflow.stages
  Start,            \* Workflow.start
  Stop,             \* the STOP edge target
  NoStage,          \* "no stage": no unit generation is open
  Slot,             \* names in RunState.named
  Tag,              \* unit ids (FanoutUnit / IterateUnit: id ?? label)
  NoUnit,           \* a row or a session that is not a unit; a generator's null
  Epoch,            \* versions of the outside world a generator may read
  Def,              \* Workflow.stages
  Edge,             \* Workflow.edges
  FanoutFn(_,_,_),    \* stage, artifact, epoch         |-> the units to run
  IterateFn(_,_,_,_), \* stage, entry, accumulated, epoch |-> next unit or NoUnit
  MaxBackwardJumps, \* options.maxBackwardJumps
  MaxIterations     \* options.maxIterations

Shape == {"session", "script", "fanout", "iterate"}

(* StageDef.  terminal: inheritsArtifacts === false.  prompt: the stage    *)
(* sends the author's own text.  publish: outcome.name or the record key.  *)
StageDef == [shape : Shape, kind : {"produces", "side-effect"},
             terminal : BOOLEAN, prompt : BOOLEAN,
             reads : SUBSET Slot, publish : Slot]

(* decision: the edge is an EdgeFn; targets: what it may answer.           *)
EdgeDef == [decision : BOOLEAN, targets : SUBSET (Stage \cup {Stop})]

ASSUME StageAssumption ==
  /\ Start \in Stage /\ IsFiniteSet(Stage)
  /\ Stop \notin Stage
  /\ NoStage \notin Stage
  /\ NoUnit \notin Tag

ASSUME DefAssumption == Def \in [Stage -> StageDef]

(* What validate-workflow.ts enforces at load: one successor per string    *)
(* edge, and an iterate stage produces (its units accumulate).             *)
ASSUME EdgeAssumption ==
  /\ Edge \in [Stage -> EdgeDef]
  /\ \A s \in Stage : ~Edge[s].decision => Cardinality(Edge[s].targets) = 1

ASSUME IterateAssumption ==
  \A s \in Stage : Def[s].shape = "iterate" => Def[s].kind = "produces"

ASSUME BoundAssumption ==
  /\ MaxBackwardJumps \in Nat
  /\ MaxIterations \in Nat

UnitStage == {s \in Stage : Def[s].shape \in {"fanout", "iterate"}}
=============================================================================
