------------------------------- MODULE Validation -------------------------------
(***************************************************************************)
(* What a workflow file may contain, what load-time validation refuses,    *)
(* and what the runner then meets.  jiti erases the types, so an author's  *)
(* stage may carry any combination of fields.  The validator's issues are  *)
(* pure functions of the workflow; its breadth-first walk is a machine, as *)
(* is the run that follows, which ignores warnings and trusts the rest.    *)
(***************************************************************************)
EXTENDS Integers, FiniteSets

CONSTANTS
  Name,   \* stage names a file may mention
  First,  \* the start of the workflow
  Final,   \* a name whose edge is fixed or missing (bounds the graphs)
  Stop, Missing

ASSUME NameAssumption == {First, Final} \subseteq Name /\ Stop \notin Name /\ Missing \notin Name

(* An EdgeTarget: a string, or an EdgeFn with its `.targets' metadata.     *)
StringEdge == {[fn |-> FALSE, targets |-> {t}] : t \in Name \cup {Stop}}
EdgeFn == {[fn |-> TRUE, targets |-> ts] : ts \in {u \in SUBSET (Name \cup {Stop}) : Cardinality(u) <= 2}}

(* StageDef.  skill: set explicitly.  outcome: with or without a name.     *)
(* invalid: a field whose value is not one of those it may have.           *)
RawDef == [run : BOOLEAN, prompt : {"none", "text", "empty"}, skill : BOOLEAN, fanout : BOOLEAN,
           iterate : BOOLEAN, kind : {"produces", "side-effect"}, policy : {"fresh", "continue"},
           outcome : {"none", "unnamed", "named"}, reads : BOOLEAN,
           invalid : {"none", "maxRetries", "validateTimeoutMs", "onInvalid"}]

SideEffect == [run |-> FALSE, prompt |-> "none", skill |-> FALSE, fanout |-> FALSE, iterate |-> FALSE,
               kind |-> "side-effect", policy |-> "fresh", outcome |-> "none", reads |-> FALSE,
               invalid |-> "none"]

(* The factories: produces, acts and their script and prompt variants.     *)
produces == [SideEffect EXCEPT !.kind = "produces", !.outcome = "unnamed"]
producesScript == [SideEffect EXCEPT !.kind = "produces", !.run = TRUE]
actsPrompt(policy) == [SideEffect EXCEPT !.prompt = "text", !.policy = policy]

VARIABLES
  written,   \* the workflow as its file exports it
  aliases,   \* skillAliases rename the skill of every stage
  frontier, reachable,  \* checkReachability
  at, step   \* the run

validationVars == <<written, aliases, frontier, reachable, at, step>>

-----------------------------------------------------------------------------
(* Aliases materialise the implicit skill of dispatching stages.           *)
(* Mutant: every stage is taken for one that dispatches a skill.           *)
isDispatchingUnlessRun(def) == ~def.run

isDispatchingStage(def) == ~def.run /\ def.prompt = "none"

Declared == {s \in Name : written.stages[s] # Missing}

loaded ==
  [written EXCEPT !.stages = [s \in Name |->
     IF s \in Declared /\ aliases /\ isDispatchingStage(written.stages[s])
     THEN [written.stages[s] EXCEPT !.skill = TRUE] ELSE written.stages[s]]]

enumerateTargets(edge) == IF edge = Missing THEN {} ELSE edge.targets

(* Mutant: only string edges are looked at.                                *)
checkStringEdgeTargets(w) ==
  {s \in Name : w.edges[s] # Missing /\ ~w.edges[s].fn
                /\ ~(enumerateTargets(w.edges[s]) \subseteq Declared \cup {Stop})}

checkEdgeTargets(w) ==
  {s \in Name : w.edges[s] # Missing
                /\ (enumerateTargets(w.edges[s]) = {}
                    \/ ~(enumerateTargets(w.edges[s]) \subseteq Declared \cup {Stop}))}

checkEdgeKeys(w) == {s \in Name : w.edges[s] # Missing /\ s \notin Declared}

(* The checks of one stage: each holds when it raises no error.            *)
checkRetryBounds(def) == def.invalid # "maxRetries"

checkTimeoutBounds(def) == def.invalid # "validateTimeoutMs"

checkStageEnums(def) ==
  /\ def.invalid # "onInvalid"
  /\ def.kind = "produces" => def.outcome # "none" \/ def.run

checkFanoutContinueInvariant(def) == def.fanout => def.policy # "continue"

checkIterateInvariants(def) ==
  def.iterate => ~def.fanout /\ def.policy # "continue" /\ def.kind = "produces" /\ def.outcome = "named"

checkPromptInvariants(def) ==
  def.prompt # "none" => def.prompt # "empty" /\ ~def.skill /\ ~def.fanout /\ ~def.iterate /\ ~def.reads

checkScriptStageInvariants(def) ==
  def.run => /\ ~def.skill /\ def.outcome = "none" /\ def.policy # "continue"
             /\ ~def.fanout /\ ~def.iterate /\ def.prompt = "none"

checkStageSemantics(def) ==
  /\ checkRetryBounds(def) /\ checkTimeoutBounds(def) /\ checkStageEnums(def)
  /\ checkFanoutContinueInvariant(def) /\ checkIterateInvariants(def)
  /\ checkPromptInvariants(def) /\ checkScriptStageInvariants(def)

(* checkReadsReferences: somebody publishes what the stage reads.          *)
Publishers(w) == {s \in Declared : w.stages[s].kind = "produces"}
UnknownReads(w) == {s \in Declared : w.stages[s].reads /\ Publishers(w) = {}}

(* validateWorkflow: the stages with an error.                             *)
Errors(w) ==
  ({w.start} \ Declared) \cup checkEdgeKeys(w) \cup checkEdgeTargets(w)
    \cup {s \in Declared : ~checkStageSemantics(w.stages[s])} \cup UnknownReads(w)

HasUnenumerableEdge(w) == \E s \in Name : w.edges[s] # Missing /\ enumerateTargets(w.edges[s]) = {}

-----------------------------------------------------------------------------
(* Either any graph of plain stages, or one odd stage in front of a plain  *)
(* one or behind it.                                                       *)
PlainGraph(w) ==
  /\ w.start = First
  /\ \A s \in Name : w.stages[s] \in {produces, Missing}
  /\ w.edges[Final] \in {Missing, [fn |-> FALSE, targets |-> {Stop}]}

OddStage == {[start |-> First,
              stages |-> [s \in Name |-> IF s = odd THEN def
                                         ELSE IF s = Final THEN Missing ELSE plain],
              edges |-> [s \in Name |-> IF s = Final THEN Missing
                                        ELSE [fn |-> FALSE, targets |-> {IF s = First THEN next ELSE Stop}]]] :
             odd \in Name \ {Final}, next \in Name \ {First, Final}, def \in RawDef,
             plain \in {producesScript, actsPrompt("continue")}}

ValidationInit ==
  /\ \/ /\ written \in [start : {First}, stages : [Name -> {produces, Missing}],
                        edges : [Name -> StringEdge \cup EdgeFn \cup {Missing}]]
        /\ PlainGraph(written)
     \/ written \in OddStage
  /\ aliases \in BOOLEAN
  /\ reachable = {}
  /\ frontier = {First} \cap {s \in Name : written.stages[s] # Missing}
  /\ at = First /\ step = "validate"

(* One turn of checkReachability's loop.                                   *)
Reach(cur) ==
  /\ step = "validate" /\ ~HasUnenumerableEdge(loaded) /\ cur \in frontier
  /\ reachable' = reachable \cup {cur}
  /\ frontier' = (frontier \cup (enumerateTargets(loaded.edges[cur]) \cap Declared))
                   \ (reachable \cup {cur})
  /\ UNCHANGED <<written, aliases, at, step>>

(* runWorkflow starts a workflow whatever validateWorkflow says of it; the *)
(* command does not offer one with errors.                                 *)
Launch ==
  /\ step = "validate" /\ (frontier = {} \/ HasUnenumerableEdge(loaded))
  /\ step' = "enter"
  /\ UNCHANGED <<written, aliases, frontier, reachable, at>>

(* runStage: fanout, iterate, run, prompt, skill, in this order; what the  *)
(* runner cannot do for the stage halts the run.                           *)
Dispatches(def) ==
  {k \in {"fanout", "iterate", "run", "prompt"} :
     \/ k = "fanout" /\ def.fanout
     \/ k = "iterate" /\ def.iterate
     \/ k = "run" /\ def.run
     \/ k = "prompt" /\ def.prompt # "none"}

Runs(def) ==
  /\ (def.fanout \/ def.iterate) => def.policy = "fresh"
  /\ ~def.run => (def.kind = "produces" => def.outcome # "none")

runStage ==
  /\ step = "enter"
  /\ step' = IF at \in Declared /\ Runs(loaded.stages[at]) THEN "leave" ELSE "halted"
  /\ UNCHANGED <<written, aliases, frontier, reachable, at>>

(* nextStage: an EdgeFn answers one of its targets.                        *)
nextStage ==
  /\ step = "leave"
  /\ IF loaded.edges[at] = Missing THEN step' = "done" /\ UNCHANGED at
     ELSE \/ \E t \in enumerateTargets(loaded.edges[at]) :
               IF t = Stop THEN step' = "done" /\ UNCHANGED at
               ELSE at' = t /\ step' = IF t \in Declared THEN "enter" ELSE "halted"
          \/ enumerateTargets(loaded.edges[at]) = {} /\ step' = "halted" /\ UNCHANGED at
  /\ UNCHANGED <<written, aliases, frontier, reachable>>

ValidationNext == (\E s \in Name : Reach(s)) \/ Launch \/ runStage \/ nextStage

ValidationSpec == ValidationInit /\ [][ValidationNext]_validationVars

-----------------------------------------------------------------------------
(* A workflow that is valid as written is valid with its skills aliased,   *)
(* and runs: no stage is missing, none asks for a session the runner       *)
(* cannot give or for an outcome nobody wired, each names one way of doing *)
(* its work, so that no field of it is silently ignored, and a stage the   *)
(* validator calls unreachable is never entered.                           *)
ValidWorkflowsRun ==
  Errors(written) = {} =>
    /\ Errors(loaded) = {} /\ step # "halted"
    /\ step # "validate" => at \in reachable
    /\ \A s \in Declared : LET d == loaded.stages[s] IN
         /\ Cardinality(Dispatches(d)) <= 1
         /\ d.skill => Dispatches(d) \cap {"run", "prompt"} = {}
=============================================================================
