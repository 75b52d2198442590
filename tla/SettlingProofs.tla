---------------------------- MODULE SettlingProofs ----------------------------
(***************************************************************************)
(* Theorems about the components that wait: a session of a stage, the      *)
(* fetches of a repository, a dictation.                                   *)
(***************************************************************************)
EXTENDS Dictation, CloneCache, StageSession, Segments, FiniteSetTheorems,
        WellFoundedInduction

-----------------------------------------------------------------------------
(* StageSession.  What a stage commits is its own, its latest and valid,   *)
(* for any number of turns and any order of answers, timeouts and late     *)
(* turns.  The core is that an output in hand is in hand only while the    *)
(* agent rests: a turn that ends late, after a timer gave the stage up,    *)
(* finds it settled.                                                       *)

(* A set of positions of a sequence has a last one.                        *)
LEMMA Greatest ==
  ASSUME NEW n \in Nat, NEW T, T \subseteq 1..n, T # {}
  PROVE  \E x \in T : \A y \in T : y <= x
<1> DEFINE F == {k..n : k \in T}
<1>1. F \subseteq FiniteSubsetsOf(Nat)
  <2> SUFFICES ASSUME NEW k \in T PROVE k..n \in FiniteSubsetsOf(Nat)
    OBVIOUS
  <2>1. IsFiniteSet(k..n)
    BY FS_Interval
  <2> QED
    BY <2>1 DEF FiniteSubsetsOf
<1>2. F # {}
  OBVIOUS
<1>3. \E x \in F : \A y \in F : ~(<<y, x>> \in StrictSubsetOrdering(Nat))
  <2> HIDE DEF F
  <2>1. IsWellFoundedOn(StrictSubsetOrdering(Nat), FiniteSubsetsOf(Nat))
    BY FS_StrictSubsetOrderingWellFounded
  <2> QED
    BY <1>1, <1>2, <2>1, WFMin
<1>4. PICK k \in T : \A y \in F : ~(<<y, k..n>> \in StrictSubsetOrdering(Nat))
  BY <1>3
<1>5. ASSUME NEW y \in T, y > k PROVE FALSE
  <2>1. y..n \in SUBSET Nat /\ k..n \in SUBSET Nat
    OBVIOUS
  <2>2. y..n \subseteq k..n /\ k \in k..n /\ k \notin y..n
    BY <1>5
  <2>3. <<y..n, k..n>> \in StrictSubsetOrdering(Nat)
    BY <2>1, <2>2 DEF StrictSubsetOrdering
  <2> QED
    BY <2>3, <1>4
<1> QED
  BY <1>5

(* The latest artifact is one of those of the part that is looked at.      *)
LEMMA LatestIsVersion ==
  ASSUME turns \in Seq(Turn), NEW from \in Nat \ {0}, Latest(from) # 0
  PROVE  /\ Latest(from) \in from..Len(turns) /\ turns[Latest(from)].made
         /\ \A j \in Versions(from) : j <= Latest(from)
<1>1. Versions(from) # {} /\ Versions(from) \subseteq 1..Len(turns) /\ Len(turns) \in Nat
  BY DEF Latest, Versions
<1>2. \E i \in Versions(from) : \A j \in Versions(from) : j <= i
  BY <1>1, Greatest
<1> QED
  BY <1>1, <1>2 DEF Latest, Versions

(* A turn that made an artifact has the latest.                            *)
LEMMA LastIsLatest ==
  ASSUME turns \in Seq(Turn), turns # <<>>, turns[Len(turns)].made
  PROVE  Latest(1) = Len(turns)
<1>1. Len(turns) \in Versions(1) /\ Len(turns) \in Nat \ {0}
  BY DEF Versions
<1>2. \A i \in Versions(1) : i \in 1..Len(turns)
  BY DEF Versions
<1>3. \A i \in Versions(1) : (\A j \in Versions(1) : j <= i) => i = Len(turns)
  BY <1>1, <1>2
<1> QED
  BY <1>1, <1>3 DEF Latest

-----------------------------------------------------------------------------
SessionSteps == {"spawn", "turn", "classify", "collect", "ask", "validate", "run", "record", "settled"}

SessionTypes ==
  /\ def \in SessionDef /\ turns \in Seq(Turn) /\ offset \in 0..Len(turns)
  /\ step \in SessionSteps /\ working \in BOOLEAN
  /\ output \in 0..Len(turns)

(* The agent works only where its turn is awaited, or after the stage was  *)
(* settled without it; a script has no agent and no earlier turns.         *)
AgentWorks == working => ~def.run /\ step \in {"turn", "ask", "settled"} /\ result # "completed"

ScriptSteps ==
  /\ def.run => offset = 0 /\ step \in {"spawn", "run", "validate", "record", "settled"}
  /\ step = "run" => def.run

(* The output that is validated or recorded is what collect would find now. *)
InHand ==
  step \in {"validate", "record"} =>
    IF def.kind = "produces" THEN output = Latest(offset + 1) /\ output # 0
    ELSE output = 0

Validated == step = "record" /\ def.schema => Accepted

Settling == result = "completed" => step = "settled"

SessionInv == SessionTypes /\ AgentWorks /\ ScriptSteps /\ InHand /\ Validated /\ Settling /\ CommitsLatestValid

-----------------------------------------------------------------------------
LEMMA SessionInitInv == SessionInit => SessionInv
<1> SUFFICES ASSUME SessionInit PROVE SessionInv
  OBVIOUS
<1>1. def \in SessionDef /\ (def.run => def.policy = "fresh")
  BY DEF SessionInit
<1>2. turns \in Seq(Turn) /\ (def.policy = "fresh" => turns = <<>>)
  <2>1. turns = <<>> \/ \E t \in Turn : turns = <<t>>
    BY DEF SessionInit
  <2>2. \A t \in Turn : <<t>> \in Seq(Turn)
    OBVIOUS
  <2>3. <<>> \in Seq(Turn)
    OBVIOUS
  <2>4. turns \in Seq(Turn)
    BY <2>1, <2>2, <2>3
  <2> QED
    BY <2>4 DEF SessionInit
<1>3. offset = Len(turns) /\ step = "spawn" /\ ~working /\ output = 0 /\ result = "none"
  BY DEF SessionInit
<1>4. SessionTypes
  <2>1. Len(turns) \in Nat /\ working = FALSE
    BY <1>2 DEF SessionInit
  <2>2. offset \in 0..Len(turns) /\ output \in 0..Len(turns)
    BY <1>3, <2>1
  <2> QED
    BY <1>1, <1>2, <1>3, <2>1, <2>2 DEF SessionTypes, SessionSteps
<1>5. AgentWorks /\ ScriptSteps
  <2>1. def.run => Len(turns) = 0
    BY <1>1, <1>2
  <2> QED
    BY <1>3, <2>1 DEF AgentWorks, ScriptSteps
<1> QED
  BY <1>3, <1>4, <1>5 DEF SessionInv, InHand, Validated, Settling, CommitsLatestValid

(* A step that leaves the turns and settles the stage, not as completed.   *)
LEMMA GivenUp ==
  ASSUME SessionInv, UNCHANGED <<def, turns, offset, output>>, step' = "settled",
         result' \in {"failed", "thrown", "skipped", "aborted", "unwritten"},
         working' = working \/ working' = FALSE
  PROVE  SessionInv'
<1>typed. SessionTypes /\ AgentWorks /\ ScriptSteps
  BY DEF SessionInv
<1>0. SessionTypes'
  BY <1>typed DEF SessionTypes, SessionSteps
<1>1. AgentWorks' /\ ScriptSteps'
  BY <1>typed DEF SessionTypes, AgentWorks, ScriptSteps
<1>2. InHand' /\ Validated' /\ Settling' /\ CommitsLatestValid'
  BY DEF InHand, Validated, Settling, CommitsLatestValid
<1> QED
  BY <1>0, <1>1, <1>2 DEF SessionInv

LEMMA SessionStep == SessionInv /\ [SessionNext]_sessionVars => SessionInv'
<1> SUFFICES ASSUME SessionInv, [SessionNext]_sessionVars PROVE SessionInv'
  OBVIOUS
<1>typed. SessionTypes /\ AgentWorks /\ ScriptSteps /\ InHand /\ Validated /\ Settling /\ CommitsLatestValid
  BY DEF SessionInv
<1>kind. def.kind \in {"produces", "side-effect"} /\ def.run \in BOOLEAN /\ def.schema \in BOOLEAN
  BY <1>typed DEF SessionTypes, SessionDef
<1>1. CASE spawn
  <2>1. /\ step = "spawn" /\ ~def.run /\ step' = "turn" /\ working' = TRUE
        /\ UNCHANGED <<def, turns, offset, output, result>>
    BY <1>1 DEF spawn
  <2>2. result # "completed"
    BY <1>typed, <2>1 DEF Settling
  <2> QED
    BY <1>typed, <2>1, <2>2
       DEF SessionInv, SessionTypes, SessionSteps, AgentWorks, ScriptSteps, InHand, Validated, Settling, CommitsLatestValid
<1>2. CASE recordCancellation
  BY <1>2, GivenUp DEF recordCancellation, Records
<1>3. CASE TurnEnds
  <2>1. PICK t \in Turn : turns' = Append(turns, t)
    BY <1>3 DEF TurnEnds
  <2>2. /\ working /\ working' = FALSE /\ UNCHANGED <<def, offset, output, result>>
        /\ ~def.run /\ step \in {"turn", "ask", "settled"} /\ result # "completed"
    BY <1>3, <1>typed DEF TurnEnds, AgentWorks
  <2>3. step' = IF step = "turn" THEN "classify" ELSE IF step = "ask" THEN "collect" ELSE step
    BY <1>3, <2>2 DEF TurnEnds
  <2>4. turns' \in Seq(Turn) /\ Len(turns') = Len(turns) + 1 /\ Len(turns) \in Nat
    BY <2>1, <1>typed DEF SessionTypes
  <2>5. step' \in {"classify", "collect", "settled"}
    BY <2>2, <2>3
  <2>6. SessionTypes'
    <3>1. offset \in 0..Len(turns) /\ output \in 0..Len(turns) /\ def \in SessionDef
      BY <1>typed DEF SessionTypes
    <3>2. offset \in 0..Len(turns') /\ output \in 0..Len(turns')
      BY <2>4, <3>1
    <3>3. working' \in BOOLEAN /\ step' \in SessionSteps
      BY <2>2, <2>5 DEF SessionSteps
    <3> QED
      BY <2>2, <2>4, <3>1, <3>2, <3>3 DEF SessionTypes
  <2>7. AgentWorks' /\ ScriptSteps' /\ InHand' /\ Validated' /\ Settling' /\ CommitsLatestValid'
    BY <2>2, <2>5 DEF AgentWorks, ScriptSteps, InHand, Validated, Settling, CommitsLatestValid
  <2> QED
    BY <2>6, <2>7 DEF SessionInv
<1>4. CASE SendFails
  BY <1>4, GivenUp DEF SendFails, Records
<1>5. CASE readSessionOutcome
  <2>1. CASE classifyStop = "stop"
    <3>1. step = "classify" /\ step' = "collect" /\ UNCHANGED <<def, turns, offset, working, output, result>>
      BY <1>5, <2>1 DEF readSessionOutcome
    <3> QED
      BY <1>typed, <3>1
         DEF SessionInv, SessionTypes, SessionSteps, AgentWorks, ScriptSteps, InHand, Validated, Settling, CommitsLatestValid
  <2>2. CASE classifyStop # "stop"
    <3>1. step' = "settled" /\ result' \in {"aborted", "failed"}
      BY <1>5, <2>2 DEF readSessionOutcome, Records
    <3> QED
      BY <1>5, <3>1, GivenUp DEF readSessionOutcome
  <2> QED
    BY <2>1, <2>2
<1>6. CASE runOutcome
  <2>1. CASE UNCHANGED output /\ Records("failed")
    BY <1>6, <2>1, GivenUp DEF runOutcome, Records
  <2>2. CASE /\ collect # 0 \/ def.kind = "side-effect"
             /\ output' = collect
             /\ step' = IF shouldValidateOutput THEN "validate" ELSE "record"
             /\ UNCHANGED result
    <3>1. step = "collect" /\ UNCHANGED <<def, turns, offset, working>> /\ ~def.run /\ ~working
      BY <1>6, <1>typed DEF runOutcome, ScriptSteps, AgentWorks
    <3>2. offset + 1 \in Nat \ {0} /\ turns \in Seq(Turn)
      BY <1>typed DEF SessionTypes
    <3>3. collect \in 0..Len(turns)
      BY <3>2, LatestIsVersion DEF collect
    <3>4. SessionTypes' /\ AgentWorks' /\ ScriptSteps' /\ Settling' /\ CommitsLatestValid'
      BY <1>typed, <2>2, <3>1, <3>3 DEF SessionTypes, SessionSteps, AgentWorks, ScriptSteps, Settling, CommitsLatestValid
    <3>5. InHand'
      <4>1. Latest(offset + 1)' = Latest(offset + 1)
        BY <3>1 DEF Latest, Versions
      <4>2. CASE def.kind = "produces"
        BY <2>2, <3>1, <4>1, <4>2 DEF InHand, collect
      <4>3. CASE def.kind = "side-effect"
        BY <2>2, <3>1, <4>3 DEF InHand, collect
      <4> QED
        BY <1>kind, <4>2, <4>3
    <3>6. Validated'
      BY <2>2, <3>1 DEF Validated, shouldValidateOutput
    <3> QED
      BY <3>4, <3>5, <3>6 DEF SessionInv
  <2> QED
    BY <1>6, <2>1, <2>2 DEF runOutcome
<1>7. CASE SchemaAnswers
  <2>0. step = "validate" /\ UNCHANGED <<def, turns, offset, output>> /\ ~working
    BY <1>7, <1>typed DEF SchemaAnswers, AgentWorks
  <2>1. CASE Accepted /\ step' = "record" /\ UNCHANGED <<working, attempts, result>>
    <3>1. SessionTypes' /\ AgentWorks' /\ ScriptSteps' /\ Settling' /\ CommitsLatestValid'
      BY <1>typed, <2>0, <2>1 DEF SessionTypes, SessionSteps, AgentWorks, ScriptSteps, Settling, CommitsLatestValid
    <3>2. InHand' /\ Validated'
      BY <1>typed, <2>0, <2>1 DEF InHand, Validated, Accepted, Latest, Versions
    <3> QED
      BY <3>1, <3>2 DEF SessionInv
  <2>2. CASE /\ step' = (IF def.run THEN "run" ELSE "ask")
             /\ working' = ~def.run /\ UNCHANGED result
    BY <1>typed, <1>kind, <2>0, <2>2
       DEF SessionInv, SessionTypes, SessionSteps, AgentWorks, ScriptSteps, InHand, Validated, Settling, CommitsLatestValid
  <2>3. CASE Records("failed") /\ UNCHANGED <<working, attempts>>
    BY <2>0, <2>3, GivenUp DEF Records
  <2> QED
    BY <1>7, <2>1, <2>2, <2>3 DEF SchemaAnswers
<1>8. CASE SchemaThrows
  <2>1. step' = "settled" /\ result' \in {"thrown", "failed"}
    BY <1>8 DEF SchemaThrows, Records
  <2> QED
    BY <1>8, <2>1, GivenUp DEF SchemaThrows
<1>9. CASE TimerFires
  BY <1>9, GivenUp DEF TimerFires, Records
<1>10. CASE scriptStarts
  BY <1>10, <1>typed
     DEF scriptStarts, SessionInv, SessionTypes, SessionSteps, AgentWorks, ScriptSteps, InHand, Validated, Settling,
         CommitsLatestValid
<1>11. CASE scriptReturns
  <2>0. step = "run" /\ def.run /\ ~working /\ UNCHANGED <<def, offset, working>> /\ offset = 0
    BY <1>11, <1>typed DEF scriptReturns, ScriptSteps, AgentWorks
  <2>1. CASE UNCHANGED <<turns, output>> /\ Records("failed")
    BY <2>0, <2>1, GivenUp DEF Records
  <2>2. ASSUME NEW v \in BOOLEAN,
               turns' = Append(turns, [stop |-> "stop", made |-> TRUE, valid |-> v]),
               output' = IF def.kind = "produces" THEN Len(turns) + 1 ELSE 0,
               step' = IF shouldValidateOutput THEN "validate" ELSE "record",
               UNCHANGED result
        PROVE  SessionInv'
    <3>1. [stop |-> "stop", made |-> TRUE, valid |-> v] \in Turn
      BY DEF Turn, StopReason
    <3>2. /\ turns' \in Seq(Turn) /\ Len(turns') = Len(turns) + 1 /\ Len(turns) \in Nat
          /\ turns' # <<>> /\ turns'[Len(turns')].made
      BY <3>1, <2>2, <1>typed DEF SessionTypes
    <3>3. Latest(1)' = Len(turns')
      BY <3>2, LastIsLatest DEF Latest, Versions
    <3>4. SessionTypes' /\ AgentWorks' /\ ScriptSteps' /\ Settling' /\ CommitsLatestValid'
      BY <1>typed, <2>0, <2>2, <3>2
         DEF SessionTypes, SessionSteps, AgentWorks, ScriptSteps, Settling, CommitsLatestValid
    <3>5. InHand'
      BY <1>kind, <2>0, <2>2, <3>2, <3>3 DEF InHand
    <3>6. Validated'
      BY <2>0, <2>2 DEF Validated, shouldValidateOutput
    <3> QED
      BY <3>4, <3>5, <3>6 DEF SessionInv
  <2> QED
    BY <1>11, <2>1, <2>2 DEF scriptReturns
<1>12. CASE recordStageSuccess
  <2>0. step = "record" /\ step' = "settled" /\ ~working
        /\ UNCHANGED <<def, turns, offset, working, output>>
    BY <1>12, <1>typed DEF recordStageSuccess, Records, AgentWorks
  <2>1. CASE result' = "unwritten"
    BY <2>0, <2>1, GivenUp
  <2>2. CASE result' = "completed"
    <3>1. SessionTypes' /\ AgentWorks' /\ ScriptSteps' /\ InHand' /\ Validated' /\ Settling'
      BY <1>typed, <2>0, <2>2 DEF SessionTypes, SessionSteps, AgentWorks, ScriptSteps, InHand, Validated, Settling
    <3>2. ASSUME def.kind = "produces"
          PROVE  /\ output = Latest(offset + 1) /\ output > offset
                 /\ def.schema => turns[output].valid
      <4>1. output = Latest(offset + 1) /\ output # 0
        BY <1>typed, <2>0, <3>2 DEF InHand
      <4>2. output \in (offset + 1)..Len(turns)
        BY <1>typed, <4>1, LatestIsVersion DEF SessionTypes
      <4>3. def.schema => turns[output].valid
        BY <1>typed, <2>0 DEF Validated, Accepted
      <4> QED
        BY <1>typed, <4>1, <4>2, <4>3 DEF SessionTypes
    <3>3. CommitsLatestValid'
      BY <2>0, <3>2 DEF CommitsLatestValid, Latest, Versions
    <3> QED
      BY <3>1, <3>3 DEF SessionInv
  <2> QED
    BY <1>12, <2>1, <2>2 DEF recordStageSuccess, Records
<1>13. CASE UNCHANGED sessionVars
  BY <1>typed, <1>13
     DEF sessionVars, SessionInv, SessionTypes, AgentWorks, ScriptSteps, InHand, Validated, Settling, Accepted,
         CommitsLatestValid, Latest, Versions
<1> QED
  BY <1>1, <1>2, <1>3, <1>4, <1>5, <1>6, <1>7, <1>8, <1>9, <1>10, <1>11, <1>12, <1>13
     DEF SessionNext

-----------------------------------------------------------------------------
(* A completed stage has committed the latest artifact of its own part of  *)
(* the branch, and one its schema accepted (sessions/extraction.ts), for   *)
(* every definition, every number of turns and every bound.                *)
THEOREM CommitsAreLatestAndValid == SessionSpec => []CommitsLatestValid
<1>1. SessionInit => SessionInv
  BY SessionInitInv
<1>2. SessionInv /\ [SessionNext]_sessionVars => SessionInv'
  BY SessionStep
<1>3. SessionInv => CommitsLatestValid
  BY DEF SessionInv
<1> QED
  BY <1>1, <1>2, <1>3, PTL DEF SessionSpec
-----------------------------------------------------------------------------
(* CloneCache.  A clone that has started is in the cache until it failed   *)
(* and its call noticed, and only a call that finds nothing in the cache   *)
(* touches a directory: so no two clones share one.                        *)

FetchCall == [pc : {"idle", "api", "sizing", "waiting", "cloning", "done"}, repo : Repo \cup {None},
              aborted : BOOLEAN, on : Fetch \cup {None}]

CloneTypes ==
  /\ fetch \in [Fetch -> FetchCall]
  /\ clone \in [Fetch -> {"none", "probing", "running", "whole", "failed"}]
  /\ cloneCache \in [Repo -> Fetch \cup {None}]
  /\ dir \in [Repo -> {"absent", "partial", "whole"}]

(* Where the call that owns a clone is. *)
OwnsClone(f) ==
  /\ fetch[f].pc # "idle" => fetch[f].repo \in Repo
  /\ fetch[f].pc \in {"idle", "sizing", "waiting"} => clone[f] = "none"
  /\ fetch[f].pc = "cloning" => clone[f] # "none" /\ cloneCache[fetch[f].repo] = f
  /\ clone[f] \in {"probing", "running"} => fetch[f].pc = "cloning"
  /\ clone[f] = "whole" => /\ fetch[f].repo \in Repo
                           /\ cloneCache[fetch[f].repo] = f /\ dir[fetch[f].repo] = "whole"

WaitsForOwner(f) ==
  fetch[f].pc = "waiting" => /\ fetch[f].on \in Fetch /\ fetch[fetch[f].on].repo = fetch[f].repo
                             /\ clone[fetch[f].on] # "none"

CachesOwner(r) == cloneCache[r] \in Fetch => fetch[cloneCache[r]].repo = r /\ clone[cloneCache[r]] # "none"

CloneInv ==
  /\ CloneTypes
  /\ \A f \in Fetch : OwnsClone(f) /\ WaitsForOwner(f)
  /\ \A r \in Repo : CachesOwner(r)

(* A call that only goes on takes nothing from anyone. *)
LEMMA CallGoesOn ==
  ASSUME CloneInv, NEW f \in Fetch, NEW c \in FetchCall, fetch' = [fetch EXCEPT ![f] = c],
         c.repo = fetch[f].repo \/ (fetch[f].pc = "idle" /\ c.repo \in Repo),
         c.pc \in {"api", "sizing", "waiting", "done"} \/ c.pc = fetch[f].pc,
         c.pc # "idle" => c.repo \in Repo,
         c.pc \in {"sizing", "waiting"} => fetch[f].pc \in {"idle", "sizing", "waiting"},
         c.pc = "waiting" => c.on \in Fetch /\ fetch[c.on].repo = c.repo /\ clone[c.on] # "none",
         clone[f] \in {"none", "whole", "failed"} \/ c.pc = "cloning",
         UNCHANGED <<clone, cloneCache, dir>>
  PROVE  CloneInv'
<1>1. CloneTypes'
  BY DEF CloneInv, CloneTypes
<1>2. fetch'[f] = c /\ \A g \in Fetch \ {f} : fetch'[g] = fetch[g]
  BY DEF CloneInv, CloneTypes
<1>3. \A g \in Fetch : clone[g] # "none" => fetch'[g].repo = fetch[g].repo
  BY <1>2 DEF CloneInv, OwnsClone
<1>4. \A g \in Fetch : OwnsClone(g)' /\ WaitsForOwner(g)'
  <2> SUFFICES ASSUME NEW g \in Fetch PROVE OwnsClone(g)' /\ WaitsForOwner(g)'
    OBVIOUS
  <2>0. OwnsClone(g) /\ WaitsForOwner(g)
    BY DEF CloneInv
  <2>1. CASE g = f
    <3>1. OwnsClone(f)'
      BY <1>2, <1>3, <2>0, <2>1 DEF OwnsClone, CloneInv, CloneTypes
    <3>2. WaitsForOwner(f)'
      BY <1>2, <1>3, <2>0, <2>1 DEF WaitsForOwner
    <3> QED BY <2>1, <3>1, <3>2
  <2>2. CASE g # f
    BY <1>2, <1>3, <2>0, <2>2 DEF OwnsClone, WaitsForOwner
  <2> QED BY <2>1, <2>2
<1>5. \A r \in Repo : CachesOwner(r)'
  BY <1>3 DEF CloneInv, CachesOwner
<1> QED BY <1>1, <1>4, <1>5 DEF CloneInv

LEMMA CloneStarts ==
  ASSUME CloneInv, NEW f \in Fetch, NEW repo \in Repo, cloneRepo(f, repo), cloneCache[repo] = None,
         fetch[f].pc = "idle" \/ (fetch[f].pc = "sizing" /\ fetch[f].repo = repo)
  PROVE  CloneInv'
<1> USE FetchAssumption
<1>0. CloneTypes /\ clone[f] = "none"
  BY DEF CloneInv, OwnsClone
<1>1. /\ fetch'[f].pc = "cloning" /\ fetch'[f].repo = repo
      /\ fetch'[f].aborted = fetch[f].aborted /\ fetch'[f].on = fetch[f].on
      /\ fetch' \in [Fetch -> FetchCall]
  <2> DEFINE c == [fetch[f] EXCEPT !.pc = "cloning", !.repo = repo]
  <2>1. fetch' = [fetch EXCEPT ![f] = c]
    BY DEF cloneRepo
  <2>2. fetch[f] \in FetchCall
    BY <1>0 DEF CloneTypes
  <2>3. /\ c \in FetchCall /\ c.pc = "cloning" /\ c.repo = repo
        /\ c.aborted = fetch[f].aborted /\ c.on = fetch[f].on
    BY <2>2 DEF FetchCall
  <2> HIDE DEF c
  <2> QED BY <1>0, <2>1, <2>3 DEF CloneTypes
<1>2. \A g \in Fetch \ {f} : fetch'[g] = fetch[g] /\ clone'[g] = clone[g]
  BY <1>0 DEF cloneRepo, CloneTypes
<1>3. /\ clone'[f] = "probing" /\ cloneCache'[repo] = f
      /\ \A r \in Repo \ {repo} : cloneCache'[r] = cloneCache[r] /\ dir'[r] = dir[r]
  BY <1>0 DEF cloneRepo, CloneTypes
<1>4. CloneTypes'
  BY <1>0, <1>1 DEF cloneRepo, CloneTypes
<1>5. \A g \in Fetch : OwnsClone(g)' /\ WaitsForOwner(g)'
  <2> SUFFICES ASSUME NEW g \in Fetch PROVE OwnsClone(g)' /\ WaitsForOwner(g)'
    OBVIOUS
  <2>0. OwnsClone(g) /\ WaitsForOwner(g)
    BY DEF CloneInv
  <2>1. CASE g = f
    BY <1>1, <1>3, <2>1 DEF OwnsClone, WaitsForOwner
  <2>2. CASE g # f
    <3>1. g # None
      OBVIOUS
    <3>2. fetch[g].pc = "cloning" \/ clone[g] = "whole" => fetch[g].repo # repo /\ fetch[g].repo \in Repo
      BY <2>0, <3>1 DEF OwnsClone
    <3>3. OwnsClone(g)'
      BY <1>2, <1>3, <2>0, <2>2, <3>2 DEF OwnsClone
    <3>4. WaitsForOwner(g)'
      BY <1>0, <1>2, <2>0, <2>2 DEF WaitsForOwner
    <3> QED BY <3>3, <3>4
  <2> QED BY <2>1, <2>2
<1>6. \A r \in Repo : CachesOwner(r)'
  <2> SUFFICES ASSUME NEW r \in Repo PROVE CachesOwner(r)'
    OBVIOUS
  <2>1. CASE r = repo
    BY <1>1, <1>3, <2>1 DEF CachesOwner
  <2>2. CASE r # repo
    BY <1>0, <1>2, <1>3, <2>2 DEF CachesOwner, CloneInv
  <2> QED BY <2>1, <2>2
<1> QED BY <1>4, <1>5, <1>6 DEF CloneInv

(* A child process works in the directory of its own call alone. *)
LEMMA CloneProceeds ==
  ASSUME CloneInv, NEW f \in Fetch, clone[f] \in {"probing", "running"},
         NEW to \in {"running", "whole", "failed"}, NEW d \in {"absent", "partial", "whole"}, to = "whole" => d = "whole",
         clone' = [clone EXCEPT ![f] = to], dir' = [dir EXCEPT ![fetch[f].repo] = d],
         UNCHANGED <<fetch, cloneCache>>
  PROVE  CloneInv'
<1>0. CloneTypes /\ fetch[f].pc = "cloning" /\ cloneCache[fetch[f].repo] = f /\ fetch[f].repo \in Repo
  BY DEF CloneInv, OwnsClone
<1>1. /\ clone'[f] = to /\ \A g \in Fetch \ {f} : clone'[g] = clone[g]
      /\ dir'[fetch[f].repo] = d /\ \A r \in Repo \ {fetch[f].repo} : dir'[r] = dir[r]
  BY <1>0 DEF CloneTypes
<1>2. CloneTypes'
  BY <1>0 DEF CloneTypes
<1>3. \A g \in Fetch : OwnsClone(g)' /\ WaitsForOwner(g)'
  <2> SUFFICES ASSUME NEW g \in Fetch PROVE OwnsClone(g)' /\ WaitsForOwner(g)'
    OBVIOUS
  <2>0. OwnsClone(g) /\ WaitsForOwner(g)
    BY DEF CloneInv
  <2>1. OwnsClone(g)'
    BY <1>0, <1>1, <2>0 DEF OwnsClone
  <2>2. WaitsForOwner(g)'
    BY <1>1, <2>0 DEF WaitsForOwner
  <2> QED BY <2>1, <2>2
<1>4. \A r \in Repo : CachesOwner(r)'
  BY <1>1 DEF CloneInv, CachesOwner
<1> QED BY <1>2, <1>3, <1>4 DEF CloneInv

LEMMA WaitsForCached ==
  ASSUME CloneInv, NEW f \in Fetch, NEW repo \in Repo, awaitCachedClone(f, repo), cloneCache[repo] # None,
         fetch[f].pc = "idle" \/ (fetch[f].pc = "sizing" /\ fetch[f].repo = repo)
  PROVE  CloneInv'
<1> DEFINE c == [fetch[f] EXCEPT !.pc = "waiting", !.repo = repo, !.on = cloneCache[repo]]
<1>1. cloneCache[repo] \in Fetch /\ fetch[f] \in FetchCall
  BY DEF CloneInv, CloneTypes
<1>2. fetch[cloneCache[repo]].repo = repo /\ clone[cloneCache[repo]] # "none" /\ clone[f] = "none"
  BY <1>1 DEF CloneInv, CachesOwner, OwnsClone
<1>3. c \in FetchCall /\ c.pc = "waiting" /\ c.repo = repo /\ c.on = cloneCache[repo]
  BY <1>1 DEF FetchCall
<1>4. fetch' = [fetch EXCEPT ![f] = c] /\ UNCHANGED <<clone, cloneCache, dir>>
  BY DEF awaitCachedClone
<1> HIDE DEF c
<1> QED BY <1>1, <1>2, <1>3, <1>4, CallGoesOn

LEMMA CloneStep == CloneInv /\ [CloneNext]_cloneVars => CloneInv'
<1> SUFFICES ASSUME CloneInv, [CloneNext]_cloneVars PROVE CloneInv'
  OBVIOUS
<1> USE FetchAssumption
<1>0. CloneTypes /\ \A f \in Fetch : OwnsClone(f) /\ WaitsForOwner(f)
  BY DEF CloneInv
<1>c. \A f \in Fetch : fetch[f] \in FetchCall
  BY <1>0 DEF CloneTypes
<1>a. ASSUME NEW f \in Fetch, NEW pc \in {"api", "done"}, At(f, pc), UNCHANGED <<clone, cloneCache, dir>>,
             fetch[f].pc # "idle", clone[f] \in {"none", "whole", "failed"}
      PROVE  CloneInv'
  <2> DEFINE c == [fetch[f] EXCEPT !.pc = pc]
  <2>1. c \in FetchCall /\ c.pc = pc /\ c.repo = fetch[f].repo
    BY <1>c DEF FetchCall
  <2>2. fetch' = [fetch EXCEPT ![f] = c]
    BY <1>0, <1>a DEF At, CloneTypes
  <2>3. fetch[f].repo \in Repo
    BY <1>0, <1>a DEF OwnsClone
  <2> HIDE DEF c
  <2> QED BY <1>a, <2>1, <2>2, <2>3, CallGoesOn
<1>1. ASSUME NEW f \in Fetch, NEW repo \in Repo, NEW force \in BOOLEAN, intercept(f, repo, force) PROVE CloneInv'
  <2>0. fetch[f].pc = "idle" /\ clone[f] = "none"
    BY <1>0, <1>1 DEF intercept, OwnsClone
  <2>1. CASE cloneCache[repo] # None /\ awaitCachedClone(f, repo)
    BY <2>0, <2>1, WaitsForCached
  <2>2. CASE cloneCache[repo] = None /\ cloneRepo(f, repo)
    BY <2>0, <2>2, CloneStarts
  <2>3. CASE /\ fetch' = [fetch EXCEPT ![f].repo = repo, ![f].pc = IF repo \in ShaRepo THEN "api" ELSE "sizing"]
             /\ UNCHANGED <<answer, clone, cloneCache, dir>>
    <3> DEFINE c == [fetch[f] EXCEPT !.repo = repo, !.pc = IF repo \in ShaRepo THEN "api" ELSE "sizing"]
    <3>1. c \in FetchCall /\ c.repo = repo /\ c.pc \in {"api", "sizing"}
      BY <1>c DEF FetchCall
    <3>2. fetch' = [fetch EXCEPT ![f] = c]
      BY <1>0, <2>3 DEF CloneTypes
    <3> HIDE DEF c
    <3> QED BY <2>0, <2>3, <3>1, <3>2, CallGoesOn
  <2> QED BY <1>1, <2>1, <2>2, <2>3 DEF intercept
<1>2. ASSUME NEW f \in Fetch, abort(f) PROVE CloneInv'
  <2> DEFINE c == [fetch[f] EXCEPT !.aborted = TRUE]
  <2>1. /\ c \in FetchCall /\ c.pc = fetch[f].pc /\ c.repo = fetch[f].repo /\ c.on = fetch[f].on
    BY <1>c DEF FetchCall
  <2>2. fetch' = [fetch EXCEPT ![f] = c] /\ UNCHANGED <<clone, cloneCache, dir>>
    BY <1>0, <1>2 DEF abort, CloneTypes
  <2>3. /\ fetch[f].pc # "idle" => fetch[f].repo \in Repo
        /\ clone[f] \in {"none", "whole", "failed"} \/ fetch[f].pc = "cloning"
        /\ fetch[f].pc = "waiting" => /\ fetch[f].on \in Fetch /\ fetch[fetch[f].on].repo = fetch[f].repo
                                      /\ clone[fetch[f].on] # "none"
    BY <1>0 DEF OwnsClone, WaitsForOwner, CloneTypes
  <2> HIDE DEF c
  <2> QED BY <2>1, <2>2, <2>3, CallGoesOn
<1>3. ASSUME NEW f \in Fetch, NEW tooBig \in BOOLEAN, checkRepoSize(f, tooBig) PROVE CloneInv'
  <2>0. fetch[f].pc = "sizing" /\ fetch[f].repo \in Repo /\ clone[f] = "none"
    BY <1>0, <1>3 DEF checkRepoSize, SizeKnown, OwnsClone
  <2>1. CASE TooBigOrAborted(f, tooBig)
    BY <2>0, <2>1, <1>a DEF TooBigOrAborted, Return
  <2>2. CASE cloneCache[fetch[f].repo] # None /\ awaitCachedClone(f, fetch[f].repo)
    BY <2>0, <2>2, WaitsForCached
  <2>3. CASE cloneCache[fetch[f].repo] = None /\ cloneRepo(f, fetch[f].repo)
    BY <2>0, <2>3, CloneStarts
  <2> QED BY <1>3, <2>1, <2>2, <2>3 DEF checkRepoSize
<1>4. ASSUME NEW f \in Fetch, execClone(f) PROVE CloneInv'
  BY <1>4, CloneProceeds DEF execClone
<1>5. ASSUME NEW f \in Fetch, NEW ok \in BOOLEAN, cloneSettles(f, ok) PROVE CloneInv'
  <2> DEFINE to == IF ok THEN "whole" ELSE "failed"
  <2> DEFINE d == IF ok THEN "whole" ELSE "absent"
  <2>1. /\ to \in {"running", "whole", "failed"} /\ d \in {"absent", "partial", "whole"}
        /\ to = "whole" => d = "whole"
    OBVIOUS
  <2>2. /\ clone[f] = "running" /\ clone' = [clone EXCEPT ![f] = to] /\ dir' = [dir EXCEPT ![fetch[f].repo] = d]
        /\ UNCHANGED <<fetch, cloneCache>>
    BY <1>5 DEF cloneSettles
  <2> HIDE DEF to, d
  <2> QED BY <2>1, <2>2, CloneProceeds
<1>6. ASSUME NEW f \in Fetch, fetchGitHub(f) PROVE CloneInv'
  <2>0. /\ fetch[f].pc = "cloning" /\ clone[f] \in {"whole", "failed"}
        /\ fetch[f].repo \in Repo /\ cloneCache[fetch[f].repo] = f
        /\ UNCHANGED <<clone, dir>>
    BY <1>0, <1>6 DEF fetchGitHub, Settled, OwnsClone
  <2>1. PICK pc \in {"api", "done"} : At(f, pc)
    BY <1>6, <2>0 DEF fetchGitHub, Return
  <2>2. CASE clone[f] = "whole"
    <3>1. cloneCache' = cloneCache
      BY <1>6, <2>2 DEF fetchGitHub
    <3> QED BY <2>0, <2>1, <2>2, <3>1, <1>a
  <2>3. CASE clone[f] = "failed"
    <3>1. cloneCache' = [cloneCache EXCEPT ![fetch[f].repo] = None]
      BY <1>6, <2>3 DEF fetchGitHub
    <3>2. /\ fetch' = [fetch EXCEPT ![f].pc = pc]
          /\ \A g \in Fetch \ {f} : fetch'[g] = fetch[g]
          /\ fetch'[f].pc = pc /\ fetch'[f].repo = fetch[f].repo /\ fetch'[f].on = fetch[f].on
      BY <1>0, <1>c, <2>1 DEF At, CloneTypes, FetchCall
    <3>3. CloneTypes'
      BY <1>0, <1>c, <2>0, <3>1, <3>2 DEF CloneTypes, FetchCall
    <3>4. \A g \in Fetch : OwnsClone(g)' /\ WaitsForOwner(g)'
      <4> SUFFICES ASSUME NEW g \in Fetch PROVE OwnsClone(g)' /\ WaitsForOwner(g)'
        OBVIOUS
      <4>0. OwnsClone(g) /\ WaitsForOwner(g) /\ OwnsClone(f)
        BY <1>0
      <4>1. CASE g = f
        BY <2>0, <2>3, <3>2, <4>1 DEF OwnsClone, WaitsForOwner
      <4>2. CASE g # f
        <5>1. \A r \in Repo : cloneCache[r] = g => cloneCache'[r] = g
          BY <1>0, <2>0, <3>1, <4>2 DEF CloneTypes
        <5>2. OwnsClone(g)'
          BY <2>0, <3>2, <4>0, <4>2, <5>1 DEF OwnsClone
        <5>3. WaitsForOwner(g)'
          BY <2>0, <3>2, <4>0, <4>2 DEF WaitsForOwner
        <5> QED BY <5>2, <5>3
      <4> QED BY <4>1, <4>2
    <3>5. \A r \in Repo : CachesOwner(r)'
      <4> SUFFICES ASSUME NEW r \in Repo, cloneCache'[r] \in Fetch PROVE CachesOwner(r)'
        BY DEF CachesOwner
      <4>1. cloneCache'[r] = cloneCache[r]
        BY <1>0, <3>1 DEF CloneTypes
      <4> QED BY <2>0, <3>2, <4>1 DEF CachesOwner, CloneInv
    <3> QED BY <3>3, <3>4, <3>5 DEF CloneInv
  <2> QED BY <2>0, <2>2, <2>3
<1>7. ASSUME NEW f \in Fetch, cachedCloneSettles(f) PROVE CloneInv'
  <2>1. fetch[f].pc = "waiting" /\ clone[f] = "none"
    BY <1>0, <1>7 DEF cachedCloneSettles, OwnsClone
  <2>2. \E pc \in {"api", "done"} : At(f, pc)
    BY <1>7 DEF cachedCloneSettles, Return
  <2> QED BY <1>7, <2>1, <2>2, <1>a DEF cachedCloneSettles
<1>8. ASSUME NEW f \in Fetch, NEW view \in BOOLEAN, fetchViaApi(f, view) PROVE CloneInv'
  <2>1. fetch[f].pc = "api" /\ clone[f] \in {"none", "whole", "failed"}
    BY <1>0, <1>8 DEF fetchViaApi, OwnsClone, CloneTypes
  <2> QED BY <1>8, <2>1, <1>a DEF fetchViaApi, Return
<1>9. CASE UNCHANGED cloneVars
  BY <1>9 DEF cloneVars, CloneInv, CloneTypes, OwnsClone, WaitsForOwner, CachesOwner
<1> QED BY <1>1, <1>2, <1>3, <1>4, <1>5, <1>6, <1>7, <1>8, <1>9 DEF CloneNext, fetchStep

(* No fetch ever reports a clone that is not all there, however many calls *)
(* want however many repositories at once, and whichever of them fail or   *)
(* give up (interceptors/github.ts, the cache of clone promises).          *)
THEOREM ReportedClonesAreWhole == CloneSpec => []ReportsWholeClone
<1>1. CloneInit => CloneInv
  BY FetchAssumption DEF CloneInit, CloneInv, CloneTypes, OwnsClone, WaitsForOwner, CachesOwner, Idle, FetchCall
<1>2. CloneInv => ReportsWholeClone
  <2> SUFFICES ASSUME CloneInv, NEW f \in Fetch,
                      fetch[f].pc \in {"cloning", "waiting"},
                      clone[IF fetch[f].pc = "cloning" THEN f ELSE fetch[f].on] = "whole"
               PROVE  dir[fetch[f].repo] = "whole"
    BY DEF ReportsWholeClone
  <2>1. OwnsClone(f) /\ WaitsForOwner(f) /\ \A g \in Fetch : OwnsClone(g)
    BY DEF CloneInv
  <2> QED BY <2>1 DEF OwnsClone, WaitsForOwner
<1> QED
  BY <1>1, <1>2, CloneStep, PTL DEF CloneSpec
-----------------------------------------------------------------------------
(* Dictation.  What the pipeline holds is one rising sequence; what is     *)
(* shown of a phrase before its final decode is not decoded yet.           *)

LEMMA NumbersAssociate == \A s, t, u \in Seq(Nat) : (s \o t) \o u = s \o (t \o u)
BY Associative

LEMMA RangeJoins == \A s, t \in Seq(Nat) : Range(s \o t) = Range(s) \cup Range(t)
BY RangeConcatenation

LEMMA RisingParts ==
  ASSUME NEW s \in Seq(Nat), NEW t \in Seq(Nat)
  PROVE  Rising(s \o t) <=> Rising(s) /\ Rising(t) /\ \A x \in Range(s), y \in Range(t) : x < y
<1> DEFINE u == s \o t
           m == Len(s)
           n == Len(t)
<1>1. /\ m \in Nat /\ n \in Nat /\ Len(u) = m + n /\ u \in Seq(Nat)
      /\ \A i \in 1..m : u[i] = s[i]
      /\ \A i \in 1..n : u[m + i] = t[i]
      /\ DOMAIN u = 1..(m + n) /\ DOMAIN s = 1..m /\ DOMAIN t = 1..n
  OBVIOUS
<1>2. Range(s) = {s[i] : i \in 1..m} /\ Range(t) = {t[i] : i \in 1..n}
  BY <1>1 DEF Range
<1> HIDE DEF u, m, n
<1>3. ASSUME Rising(u) PROVE Rising(s) /\ Rising(t) /\ \A x \in Range(s), y \in Range(t) : x < y
  <2>1. \A i, j \in 1..m : i < j => s[i] < s[j]
    <3>1. \A i \in 1..m : i \in DOMAIN u
      BY <1>1
    <3> QED BY <1>1, <1>3, <3>1 DEF Rising
  <2>2. \A i, j \in 1..n : i < j => t[i] < t[j]
    <3> SUFFICES ASSUME NEW i \in 1..n, NEW j \in 1..n, i < j PROVE t[i] < t[j]
      OBVIOUS
    <3>1. m + i \in DOMAIN u /\ m + j \in DOMAIN u /\ m + i < m + j
      BY <1>1
    <3>2. u[m + i] < u[m + j]
      BY <1>3, <3>1 DEF Rising
    <3> QED BY <1>1, <3>2
  <2>3. \A i \in 1..m, j \in 1..n : s[i] < t[j]
    <3> SUFFICES ASSUME NEW i \in 1..m, NEW j \in 1..n PROVE s[i] < t[j]
      OBVIOUS
    <3>1. i \in DOMAIN u /\ m + j \in DOMAIN u /\ i < m + j
      BY <1>1
    <3>2. u[i] < u[m + j]
      BY <1>3, <3>1 DEF Rising
    <3> QED BY <1>1, <3>2
  <2> QED BY <1>1, <1>2, <2>1, <2>2, <2>3 DEF Rising
<1>4. ASSUME Rising(s), Rising(t), \A x \in Range(s), y \in Range(t) : x < y PROVE Rising(u)
  <2> SUFFICES ASSUME NEW i \in 1..(m + n), NEW j \in 1..(m + n), i < j PROVE u[i] < u[j]
    BY <1>1 DEF Rising
  <2>1. CASE j <= m
    <3>1. i \in 1..m /\ j \in 1..m
      BY <2>1, <1>1
    <3> QED BY <1>1, <1>4, <3>1 DEF Rising
  <2>2. CASE i > m
    <3>1. PICK k \in 1..n : i = m + k
      <4>1. i - m \in 1..n /\ i = m + (i - m)
        BY <2>2, <1>1
      <4> QED BY <4>1
    <3>2. PICK l \in 1..n : j = m + l
      <4>1. j - m \in 1..n /\ j = m + (j - m)
        BY <2>2, <1>1
      <4> QED BY <4>1
    <3>3. k < l
      BY <1>1, <3>1, <3>2
    <3>4. t[k] < t[l]
      BY <1>1, <1>4, <3>3 DEF Rising
    <3> QED BY <1>1, <3>1, <3>2, <3>4
  <2>3. CASE i <= m /\ j > m
    <3>1. PICK l \in 1..n : j = m + l
      <4>1. j - m \in 1..n /\ j = m + (j - m)
        BY <2>3, <1>1
      <4> QED BY <4>1
    <3>2. i \in 1..m
      BY <2>3, <1>1
    <3> QED BY <1>1, <1>2, <1>4, <3>1, <3>2
  <2> QED BY <1>1, <2>1, <2>2, <2>3
<1> QED BY <1>3, <1>4 DEF u

(* One more than all so far, and one fewer. *)
LEMMA RisingAppend ==
  \A s \in Seq(Nat), n \in Nat :
    Rising(s) /\ Range(s) \subseteq 1..n
      => Rising(s \o <<n + 1>>) /\ Range(s \o <<n + 1>>) = Range(s) \cup {n + 1}
<1> SUFFICES ASSUME NEW s \in Seq(Nat), NEW n \in Nat, Rising(s), Range(s) \subseteq 1..n
             PROVE  Rising(s \o <<n + 1>>) /\ Range(s \o <<n + 1>>) = Range(s) \cup {n + 1}
  OBVIOUS
<1>1. Range(<<n + 1>>) = {n + 1} /\ <<n + 1>> \in Seq(Nat) /\ Rising(<<n + 1>>)
  BY DEF Range, Rising
<1>2. Range(s \o <<n + 1>>) = Range(s) \cup {n + 1}
  BY <1>1, RangeJoins
<1>4. \A x \in Range(s), y \in Range(<<n + 1>>) : x < y
  BY <1>1
<1>5. Rising(s \o <<n + 1>>)
  BY <1>1, <1>4, RisingParts
<1> QED BY <1>2, <1>5

LEMMA RisingWithout ==
  ASSUME NEW s \in Seq(Nat), NEW c \in Nat, NEW t \in Seq(Nat), Rising((s \o <<c>>) \o t)
  PROVE  Rising(s \o t) /\ Range(s \o t) = Range((s \o <<c>>) \o t) \ {c}
<1>1. <<c>> \in Seq(Nat) /\ Range(<<c>>) = {c} /\ s \o <<c>> \in Seq(Nat)
  BY DEF Range
<1>2. /\ Range(s \o <<c>>) = Range(s) \cup {c}
      /\ Range((s \o <<c>>) \o t) = Range(s \o <<c>>) \cup Range(t)
      /\ Range(s \o t) = Range(s) \cup Range(t)
  <2>1. Range(s \o <<c>>) = Range(s) \cup Range(<<c>>)
    BY <1>1, RangeJoins
  <2>2. Range((s \o <<c>>) \o t) = Range(s \o <<c>>) \cup Range(t)
    BY <1>1, RangeJoins, Zenon
  <2>3. Range(s \o t) = Range(s) \cup Range(t)
    BY RangeJoins
  <2> QED BY <1>1, <2>1, <2>2, <2>3, Zenon
<1>3. /\ Rising(s \o <<c>>) /\ Rising(t)
      /\ \A x \in Range(s \o <<c>>), y \in Range(t) : x < y
  BY <1>1, RisingParts
<1>4. Rising(s) /\ \A x \in Range(s) : x < c
  BY <1>1, <1>3, RisingParts
<1>5. Rising(s \o t)
  BY <1>2, <1>3, <1>4, RisingParts
<1>6. c \notin Range(s) /\ c \notin Range(t)
  BY <1>2, <1>3, <1>4
<1> QED BY <1>2, <1>5, <1>6

LEMMA CutInTwo ==
  ASSUME NEW chunks \in Seq(Nat), NEW cut \in 2..Len(chunks)
  PROVE  /\ SubSeq(chunks, 1, cut - 1) \in Seq(Nat) /\ SubSeq(chunks, cut, Len(chunks)) \in Seq(Nat)
         /\ SubSeq(chunks, 1, cut - 1) \o SubSeq(chunks, cut, Len(chunks)) = chunks
OBVIOUS

(* What the adapter keeps, one event more or one less. *)
Chunks(events) == [i \in DOMAIN events |-> ChunkOf(events[i])]

LEMMA ChunksAreSegments ==
  ASSUME NEW events \in Seq(Event)
  PROVE  /\ Chunks(events) \in Seq(Seq(Nat)) /\ Len(Chunks(events)) = Len(events)
         /\ \A i \in 1..Len(events) : Chunks(events)[i] = ChunkOf(events[i])
<1>1. \A e \in Event : ChunkOf(e) \in Seq(Nat)
  BY DEF ChunkOf, Event
<1>2. Len(events) \in Nat /\ DOMAIN events = 1..Len(events)
  OBVIOUS
<1>3. \A i \in 1..Len(events) : events[i] \in Event
  OBVIOUS
<1>4. Chunks(events) \in [1..Len(events) -> Seq(Nat)]
  BY <1>1, <1>2, <1>3 DEF Chunks
<1> QED BY <1>2, <1>4 DEF Chunks

LEMMA WaitingGrows ==
  ASSUME pending \in Seq(Event), NEW event \in Event, pending' = Append(pending, event)
  PROVE  Waiting' = Waiting \o ChunkOf(event) /\ Waiting \in Seq(Nat)
<1>1. ChunkOf(event) \in Seq(Nat) /\ Chunks(pending) \in Seq(Seq(Nat))
  BY ChunksAreSegments DEF ChunkOf, Event
<1>2. pending' \in Seq(Event) /\ Len(pending') = Len(pending) + 1
  OBVIOUS
<1>3. Chunks(pending') = Append(Chunks(pending), ChunkOf(event))
  <2>1. /\ Chunks(pending') \in Seq(Seq(Nat)) /\ Len(Chunks(pending')) = Len(pending) + 1
        /\ \A i \in 1..Len(pending') : Chunks(pending')[i] = ChunkOf(pending'[i])
    BY <1>2, ChunksAreSegments
  <2>2. /\ Len(Chunks(pending)) = Len(pending)
        /\ \A i \in 1..Len(pending) : Chunks(pending)[i] = ChunkOf(pending[i])
    BY ChunksAreSegments
  <2>3. \A i \in 1..Len(pending) : pending'[i] = pending[i]
    OBVIOUS
  <2>4. pending'[Len(pending) + 1] = event
    OBVIOUS
  <2> DEFINE s == Chunks(pending')
             t == Append(Chunks(pending), ChunkOf(event))
  <2>5. /\ t \in Seq(Seq(Nat)) /\ Len(t) = Len(pending) + 1 /\ t[Len(pending) + 1] = ChunkOf(event)
        /\ \A i \in 1..Len(pending) : t[i] = Chunks(pending)[i]
    BY <1>1, <2>2
  <2>6. \A i \in 1..Len(s) : s[i] = t[i]
    <3> HIDE DEF t
    <3> SUFFICES ASSUME NEW i \in 1..(Len(pending) + 1) PROVE s[i] = t[i]
      BY <2>1
    <3>1. CASE i = Len(pending) + 1
      BY <1>2, <2>1, <2>4, <2>5, <3>1
    <3>2. CASE i # Len(pending) + 1
      <4>1. i \in 1..Len(pending) /\ i \in 1..Len(pending')
        BY <1>2, <3>2
      <4> QED BY <2>1, <2>2, <2>3, <2>5, <4>1
    <3> QED BY <3>1, <3>2
  <2> HIDE DEF s, t
  <2>7. s = t
    BY <2>1, <2>5, <2>6, SeqEqual DEF s
  <2> QED BY <2>7 DEF s, t
<1>4. FlattenSeq(Append(Chunks(pending), ChunkOf(event))) = FlattenSeq(Chunks(pending)) \o ChunkOf(event)
  BY <1>1, FlattenAppend
<1> QED BY <1>1, <1>3, <1>4, FlattenType DEF Waiting, Chunks

LEMMA WaitingShrinks ==
  ASSUME pending \in Seq(Event), pending # <<>>, pending' = Tail(pending)
  PROVE  Waiting = ChunkOf(Head(pending)) \o Waiting' /\ Waiting' \in Seq(Nat)
<1>1. /\ pending' \in Seq(Event) /\ Len(pending) # 0 /\ Len(pending') = Len(pending) - 1
      /\ \A i \in 1..(Len(pending) - 1) : pending'[i] = pending[i + 1]
  OBVIOUS
<1>2. /\ Chunks(pending) \in Seq(Seq(Nat)) /\ Len(Chunks(pending)) = Len(pending)
      /\ \A i \in 1..Len(pending) : Chunks(pending)[i] = ChunkOf(pending[i])
  BY ChunksAreSegments
<1>3. /\ Chunks(pending') \in Seq(Seq(Nat)) /\ Len(Chunks(pending')) = Len(pending')
      /\ \A i \in 1..Len(pending') : Chunks(pending')[i] = ChunkOf(pending'[i])
  BY <1>1, ChunksAreSegments
<1>4. Chunks(pending) # <<>> /\ Head(Chunks(pending)) = ChunkOf(Head(pending))
  BY <1>1, <1>2
<1>5. Chunks(pending') = Tail(Chunks(pending))
  <2> DEFINE s == Chunks(pending')
             t == Tail(Chunks(pending))
  <2>1. /\ t \in Seq(Seq(Nat)) /\ Len(t) = Len(pending) - 1
        /\ \A i \in 1..(Len(pending) - 1) : t[i] = Chunks(pending)[i + 1]
    BY <1>2, <1>4
  <2>2. \A i \in 1..Len(s) : s[i] = t[i]
    <3> HIDE DEF t
    <3> SUFFICES ASSUME NEW i \in 1..(Len(pending) - 1) PROVE s[i] = t[i]
      BY <1>1, <1>3
    <3>1. i + 1 \in 1..Len(pending) /\ i \in 1..Len(pending')
      BY <1>1
    <3> QED BY <1>1, <1>2, <1>3, <2>1, <3>1
  <2> HIDE DEF s, t
  <2>3. s = t
    BY <1>1, <1>3, <2>1, <2>2, SeqEqual DEF s
  <2> QED BY <2>3 DEF s, t
<1>6. FlattenSeq(Chunks(pending)) = Head(Chunks(pending)) \o FlattenSeq(Tail(Chunks(pending)))
  BY <1>2, <1>4, FlattenHead DEF FlatStartsWithHead
<1>7. FlattenSeq(Chunks(pending')) \in Seq(Nat)
  BY <1>3, FlattenType
<1> QED BY <1>4, <1>5, <1>6, <1>7 DEF Waiting, Chunks

-----------------------------------------------------------------------------
(* What the pipeline has taken from the adapter, in the order it came. *)
Heard == (FlattenSeq(settled) \o FlattenSeq(queue)) \o buffer

(* A preview of the present phrase shows what is still in the buffer. *)
FreshPreview ==
  partial # None => /\ partial.epoch <= epoch
                    /\ partial.epoch = epoch => Range(partial.snapshot) \subseteq Range(buffer)

ShownOnce == Range(ui.partial) \cap Range(FlattenSeq(settled)) = {}

Copies == /\ ui.transcript = transcript
          /\ paused <=> ui.status = "paused"
          /\ filter <=> ui.draft.hallucination

DictationInv == TypeOK /\ NothingLost /\ skipped \subseteq 1..captured /\ FreshPreview /\ ShownOnce /\ Copies

LEMMA HeardTypes ==
  ASSUME TypeOK
  PROVE  /\ FlattenSeq(settled) \in Seq(Nat) /\ FlattenSeq(queue) \in Seq(Nat) /\ buffer \in Seq(Nat)
         /\ FlattenSeq(settled) \o FlattenSeq(queue) \in Seq(Nat)
         /\ Heard \in Seq(Nat) /\ Waiting \in Seq(Nat)
<1>1. FlattenSeq(settled) \in Seq(Nat) /\ FlattenSeq(queue) \in Seq(Nat) /\ buffer \in Seq(Nat)
  BY FlattenType DEF TypeOK
<1>2. Waiting \in Seq(Nat)
  BY ChunksAreSegments, FlattenType DEF TypeOK, Waiting, Chunks
<1> QED BY <1>1, <1>2 DEF Heard

(* A flush hands on all of what it is given, cut or whole. *)
LEMMA FlushKeepsAll ==
  ASSUME TypeOK, NEW chunks \in Seq(Nat), flushBuffer(chunks) \/ queueCapFlush(chunks), settled' = settled
  PROVE  Heard' = (FlattenSeq(settled) \o FlattenSeq(queue)) \o chunks
<1> DEFINE A == FlattenSeq(settled)
           Q == FlattenSeq(queue)
<1>0. A \in Seq(Nat) /\ Q \in Seq(Nat) /\ A \o Q \in Seq(Nat) /\ queue \in Seq(Seq(Nat))
  BY HeardTypes DEF TypeOK
<1>1. CASE flushBuffer(chunks) /\ chunks = <<>>
  <2>1. Heard' = (A \o Q) \o <<>>
    BY <1>1 DEF flushBuffer, Heard
  <2> QED BY <1>1, <2>1
<1>2. CASE flushBuffer(chunks) /\ chunks # <<>>
  <2>1. FlattenSeq(queue') = Q \o chunks /\ buffer' = <<>>
    BY <1>0, <1>2, FlattenAppend DEF flushBuffer
  <2>2. Heard' = (A \o (Q \o chunks)) \o <<>>
    BY <2>1 DEF Heard
  <2>3. (A \o Q) \o chunks = A \o (Q \o chunks)
    BY <1>0, NumbersAssociate
  <2>4. (A \o (Q \o chunks)) \o <<>> = A \o (Q \o chunks)
    <3>1. A \o (Q \o chunks) \in Seq(Nat)
      BY <1>0
    <3> QED BY <3>1, ConcatEmptySeq
  <2> QED BY <2>2, <2>3, <2>4
<1>3. CASE \E cut \in CutIndices(chunks) :
         /\ queue' = Append(queue, SubSeq(chunks, 1, cut - 1))
         /\ buffer' = SubSeq(chunks, cut, Len(chunks))
  <2>1. PICK cut \in 2..Len(chunks) : /\ queue' = Append(queue, SubSeq(chunks, 1, cut - 1))
                                      /\ buffer' = SubSeq(chunks, cut, Len(chunks))
    BY <1>3 DEF CutIndices
  <2> DEFINE s == SubSeq(chunks, 1, cut - 1)
             t == SubSeq(chunks, cut, Len(chunks))
  <2>0. s \in Seq(Nat) /\ t \in Seq(Nat)
    BY CutInTwo
  <2>2. s \in Seq(Nat) /\ t \in Seq(Nat) /\ s \o t = chunks
    BY CutInTwo
  <2> HIDE DEF s, t
  <2>3. FlattenSeq(queue') = Q \o s /\ buffer' = t
    BY <1>0, <2>1, <2>2, FlattenAppend DEF s, t
  <2>4. Heard' = (A \o (Q \o s)) \o t
    BY <2>3 DEF Heard
  <2> HIDE DEF A, Q
  <2>5. A \o (Q \o s) = (A \o Q) \o s
    BY <1>0, <2>0, NumbersAssociate, Zenon
  <2>6. ((A \o Q) \o s) \o t = (A \o Q) \o (s \o t)
    BY <1>0, <2>0, NumbersAssociate, Zenon
  <2>7. Heard' = (A \o Q) \o chunks
    BY <2>2, <2>4, <2>5, <2>6, Zenon
  <2> QED BY <2>7 DEF A, Q
<1> QED BY <1>1, <1>2, <1>3 DEF queueCapFlush

LEMMA NothingLostMeans ==
  NothingLost <=> Rising(Heard \o Waiting) /\ Range(Heard \o Waiting) = 1..captured \ skipped
BY Zenon DEF NothingLost, Heard

LEMMA HeldSame ==
  ASSUME NothingLost, Heard' \o Waiting' = Heard \o Waiting, UNCHANGED <<captured, skipped>>
  PROVE  NothingLost'
BY Zenon DEF NothingLost, Heard

LEMMA DeliverLosesNothing ==
  ASSUME TypeOK, NothingLost, skipped \subseteq 1..captured, Deliver
  PROVE  NothingLost' /\ skipped' \subseteq 1..captured'
<1> DEFINE event == Head(pending)
           c == event.chunk
<1>0. /\ pending \in Seq(Event) /\ pending # <<>> /\ pending' = Tail(pending) /\ event \in Event
      /\ buffer \in Seq(Nat) /\ Heard \in Seq(Nat) /\ Waiting \in Seq(Nat)
      /\ UNCHANGED <<captured, settled, paused>>
  <2>1. pending \in Seq(Event) /\ buffer \in Seq(Nat)
    BY DEF TypeOK
  <2>2. pending # <<>> /\ pending' = Tail(pending) /\ UNCHANGED <<captured, settled, paused>>
    BY DEF Deliver
  <2>3. event \in Event
    BY <2>1, <2>2
  <2> QED BY <2>1, <2>2, <2>3, HeardTypes
<1>1. Waiting = ChunkOf(event) \o Waiting' /\ Waiting' \in Seq(Nat)
  BY <1>0, WaitingShrinks
<1>2. c \in Nat /\ <<c>> \in Seq(Nat)
  BY <1>0 DEF Event
<1>u. /\ \/ event.kind = "data" /\ OnData(c)
         \/ event.kind = "silence" /\ OnSilence
         \/ event.kind \in {"end", "error"} /\ OnShutdown
  BY DEF Deliver
<1> HIDE DEF event, c
<1>3. ASSUME event.kind # "data", UNCHANGED <<skipped>>, Heard' = Heard PROVE NothingLost' /\ skipped' \subseteq 1..captured'
  <2>1. Waiting = <<>> \o Waiting'
    BY <1>1, <1>3 DEF ChunkOf
  <2>2. <<>> \o Waiting' = Waiting'
    BY <1>1, ConcatEmptySeq
  <2>3. Heard' \o Waiting' = Heard \o Waiting
    BY <1>3, <2>1, <2>2, Zenon
  <2> QED BY <1>0, <1>3, <2>3, HeldSame
<1>4. CASE event.kind = "data" /\ OnData(c)
  <2>1. Waiting = <<c>> \o Waiting'
    BY <1>1, <1>4 DEF ChunkOf, c
  <2>2. Heard \o Waiting = (Heard \o <<c>>) \o Waiting'
    <3>1. (Heard \o <<c>>) \o Waiting' = Heard \o (<<c>> \o Waiting')
      BY <1>0, <1>1, <1>2, NumbersAssociate, Zenon
    <3> QED BY <2>1, <3>1, Zenon
  <2>3. CASE paused
    <3>1. skipped' = skipped \cup {c} /\ UNCHANGED <<buffer, queue>>
      BY <1>4, <2>3 DEF OnData
    <3>2. Heard' = Heard
      BY <1>0, <3>1 DEF Heard
    <3>3. Rising((Heard \o <<c>>) \o Waiting') /\ Range((Heard \o <<c>>) \o Waiting') = 1..captured \ skipped
      BY <2>2, NothingLostMeans, Zenon
    <3>4. Rising(Heard \o Waiting') /\ Range(Heard \o Waiting') = Range((Heard \o <<c>>) \o Waiting') \ {c}
      BY <1>0, <1>1, <1>2, <3>3, RisingWithout
    <3>5. c \in Range((Heard \o <<c>>) \o Waiting')
      <4>1. Range((Heard \o <<c>>) \o Waiting') = Range(Heard \o <<c>>) \cup Range(Waiting')
        BY <1>0, <1>1, <1>2, RangeJoins, ConcatProperties
      <4>2. Range(Heard \o <<c>>) = Range(Heard) \cup Range(<<c>>)
        BY <1>0, <1>2, RangeJoins
      <4>3. c \in Range(<<c>>)
        BY DEF Range
      <4> QED BY <4>1, <4>2, <4>3, Zenon
    <3>6. Range(Heard \o Waiting') = 1..captured \ skipped'
      BY <3>1, <3>3, <3>4
    <3>7. NothingLost'
      <4>1. Rising(Heard' \o Waiting') /\ Range(Heard' \o Waiting') = 1..captured' \ skipped'
        BY <1>0, <3>2, <3>4, <3>6
      <4> QED BY <4>1, Zenon DEF NothingLost, Heard
    <3>8. skipped' \subseteq 1..captured'
      BY <1>0, <3>1, <3>3, <3>5
    <3> QED BY <3>7, <3>8
  <2>4. CASE ~paused
    <3> DEFINE chunks == Append(buffer, c)
    <3>1. skipped' = skipped
      BY <1>4, <2>4 DEF OnData
    <3>2. Heard' = (FlattenSeq(settled) \o FlattenSeq(queue)) \o chunks
      <4>1. chunks \in Seq(Nat)
        BY <1>0, <1>2
      <4>2. CASE queueCapFlush(chunks)
        BY <1>0, <4>1, <4>2, FlushKeepsAll
      <4>3. CASE buffer' = chunks /\ UNCHANGED <<queue, epoch>>
        BY <1>0, <4>3 DEF Heard
      <4> QED BY <1>4, <2>4, <4>2, <4>3 DEF OnData
    <3>3. chunks = buffer \o <<c>>
      BY <1>0, <1>2, AppendIsConcat
    <3>4. Heard' = Heard \o <<c>>
      <4>1. FlattenSeq(settled) \o FlattenSeq(queue) \in Seq(Nat)
        BY HeardTypes
      <4> HIDE DEF chunks
      <4> QED BY <1>0, <1>2, <3>2, <3>3, <4>1, NumbersAssociate, Zenon DEF Heard
    <3>5. Heard' \o Waiting' = Heard \o Waiting
      BY <2>2, <3>4, Zenon
    <3> QED BY <1>0, <3>1, <3>5, HeldSame
  <2> QED BY <2>3, <2>4
<1>5. CASE event.kind = "silence" /\ OnSilence
  <2>1. skipped' = skipped
    BY <1>5 DEF OnSilence
  <2>2. Heard' = Heard
    <3>1. CASE flushBuffer(buffer)
      BY <1>0, <3>1, FlushKeepsAll DEF Heard
    <3>2. CASE UNCHANGED <<buffer, queue, epoch>>
      BY <1>0, <3>2 DEF Heard
    <3> QED BY <1>5, <3>1, <3>2 DEF OnSilence
  <2> QED BY <1>3, <1>5, <2>1, <2>2
<1>6. CASE event.kind \in {"end", "error"} /\ OnShutdown
  <2>1. skipped' = skipped /\ flushBuffer(buffer)
    BY <1>6 DEF OnShutdown
  <2>2. Heard' = Heard
    BY <1>0, <2>1, FlushKeepsAll DEF Heard
  <2> QED BY <1>3, <1>6, <2>1, <2>2
<1> QED BY <1>u, <1>4, <1>5, <1>6

(* The present phrase gives way to the next when it is flushed. *)
LEMMA PreviewStaysFresh ==
  ASSUME TypeOK, FreshPreview, Deliver
  PROVE  FreshPreview'
<1> DEFINE event == Head(pending)
           c == event.chunk
<1>0. /\ buffer \in Seq(Nat) /\ epoch \in Nat /\ c \in Nat
      /\ partial \in [snapshot : Seq(Nat), epoch : Nat] \cup {None}
  <2>1. event \in Event
    BY DEF TypeOK, Deliver
  <2> QED BY <2>1 DEF TypeOK, Event
<1>u. \/ OnData(c) \/ OnSilence \/ OnShutdown
  BY DEF Deliver
<1> HIDE DEF event, c
<1>1. ASSUME NEW chunks \in Seq(Nat), flushBuffer(chunks) \/ queueCapFlush(chunks), UNCHANGED partial,
             chunks = buffer \/ chunks # <<>>
      PROVE  FreshPreview'
  <2>1. epoch' = epoch + 1 \/ (UNCHANGED epoch /\ chunks = <<>> /\ buffer' = <<>>)
    BY <1>1 DEF flushBuffer, queueCapFlush
  <2>2. CASE epoch' = epoch + 1
    BY <1>0, <1>1, <2>2 DEF FreshPreview
  <2>3. CASE UNCHANGED epoch /\ chunks = <<>> /\ buffer' = <<>>
    BY <1>1, <2>3 DEF FreshPreview
  <2> QED BY <2>1, <2>2, <2>3
<1>2. CASE OnSilence
  <2>1. CASE UNCHANGED <<buffer, queue, epoch, partial>>
    BY <2>1 DEF FreshPreview
  <2>2. CASE flushBuffer(buffer) /\ UNCHANGED partial
    BY <1>0, <1>1, <2>2
  <2> QED BY <1>2, <2>1, <2>2 DEF OnSilence
<1>3. CASE OnShutdown
  BY <1>0, <1>1, <1>3 DEF OnShutdown
<1>4. CASE OnData(c)
  <2> DEFINE chunks == Append(buffer, c)
  <2>0. chunks \in Seq(Nat) /\ chunks # <<>>
    BY <1>0, AppendProperties
  <2>1. CASE UNCHANGED <<buffer, queue, partial, epoch>>
    BY <2>1 DEF FreshPreview
  <2>2. CASE queueCapFlush(chunks) /\ UNCHANGED partial
    BY <1>1, <2>0, <2>2
  <2>3. CASE buffer' = chunks /\ UNCHANGED epoch /\ UNCHANGED partial
    <3>1. Range(buffer) \subseteq Range(buffer')
      <4>1. chunks = buffer \o <<c>> /\ <<c>> \in Seq(Nat)
        BY <1>0, AppendIsConcat
      <4>2. Range(buffer \o <<c>>) = Range(buffer) \cup Range(<<c>>)
        BY <1>0, <4>1, RangeJoins, Zenon
      <4> HIDE DEF chunks
      <4> QED BY <2>3, <4>1, <4>2
    <3> QED BY <2>3, <3>1 DEF FreshPreview
  <2>4. CASE buffer' = chunks /\ UNCHANGED epoch /\ partial' = [snapshot |-> chunks, epoch |-> epoch]
    <3> HIDE DEF chunks
    <3> QED BY <1>0, <2>4 DEF FreshPreview
  <2> QED BY <1>4, <2>1, <2>2, <2>3, <2>4 DEF OnData, tryEmitPartial
<1> QED BY <1>u, <1>2, <1>3, <1>4

(* A final decode moves a segment from the queue to what has settled. *)
LEMMA DecodeLosesNothing ==
  ASSUME TypeOK, NothingLost, NEW outcome \in Outcome, recognizeFinal(outcome)
  PROVE  NothingLost'
<1>1. queue \in Seq(Seq(Nat)) /\ settled \in Seq(Seq(Nat)) /\ queue # <<>>
  BY DEF TypeOK, recognizeFinal
<1>2. /\ queue' = Tail(queue) /\ settled' = Append(settled, Head(queue))
      /\ UNCHANGED <<captured, pending, buffer, skipped>>
  BY DEF recognizeFinal, deviceVars
<1> DEFINE A == FlattenSeq(settled)
           s == Head(queue)
           R == FlattenSeq(Tail(queue))
<1>3. s \in Seq(Nat) /\ Tail(queue) \in Seq(Seq(Nat))
  BY <1>1
<1>4. A \in Seq(Nat) /\ R \in Seq(Nat)
  BY <1>1, <1>3, FlattenType
<1>5. FlattenSeq(settled') = A \o s /\ FlattenSeq(queue') = R
  BY <1>1, <1>2, <1>3, FlattenAppend
<1>6. FlattenSeq(queue) = s \o R
  BY <1>1, FlattenHead DEF FlatStartsWithHead
<1> HIDE DEF A, s, R
<1>7. (A \o s) \o R = A \o (s \o R)
  BY <1>3, <1>4, NumbersAssociate, Zenon
<1>8. Heard' = ((A \o s) \o R) \o buffer /\ Heard = (A \o (s \o R)) \o buffer
  BY <1>2, <1>5, <1>6, Zenon DEF Heard, A
<1>9. Heard' = Heard /\ Waiting' = Waiting
  BY <1>2, <1>7, <1>8, Zenon DEF Waiting
<1> QED BY <1>2, <1>9, HeldSame, Zenon

(* What the buffer holds has not settled. *)
LEMMA BufferIsUnsettled ==
  ASSUME TypeOK, NothingLost
  PROVE  Range(buffer) \cap Range(FlattenSeq(settled)) = {}
<1>1. /\ FlattenSeq(settled) \in Seq(Nat) /\ FlattenSeq(queue) \in Seq(Nat) /\ buffer \in Seq(Nat)
      /\ FlattenSeq(settled) \o FlattenSeq(queue) \in Seq(Nat) /\ Heard \in Seq(Nat) /\ Waiting \in Seq(Nat)
  BY HeardTypes
<1>2. Rising(Heard \o Waiting)
  BY NothingLostMeans
<1>3. Rising(Heard)
  BY <1>1, <1>2, RisingParts
<1>4. \A x \in Range(FlattenSeq(settled) \o FlattenSeq(queue)), y \in Range(buffer) : x < y
  BY <1>1, <1>3, RisingParts DEF Heard
<1>5. Range(FlattenSeq(settled) \o FlattenSeq(queue)) = Range(FlattenSeq(settled)) \cup Range(FlattenSeq(queue))
  BY <1>1, RangeJoins
<1>6. Range(buffer) \subseteq Nat
  BY <1>1, RangeOfSeq
<1> QED BY <1>4, <1>5, <1>6

-----------------------------------------------------------------------------
(* Types. *)

LEMMA DeliverTypes ==
  ASSUME TypeOK, Deliver
  PROVE  TypeOK'
<1> DEFINE event == Head(pending)
           c == event.chunk
<1>0. /\ event \in Event /\ c \in Nat /\ pending' \in Seq(Event)
      /\ buffer \in Seq(Nat) /\ queue \in Seq(Seq(Nat)) /\ epoch \in Nat /\ settled \in Seq(Seq(Nat))
  <2>1. event \in Event /\ pending' \in Seq(Event)
    BY DEF TypeOK, Deliver
  <2> QED BY <2>1 DEF TypeOK, Event
<1>u. /\ \/ OnData(c) /\ UNCHANGED awaited
         \/ OnSilence /\ UNCHANGED awaited
         \/ OnShutdown
      /\ UNCHANGED <<device, captured, paused, filter, transcript, ui, config, command, settled>>
  BY DEF Deliver
<1> HIDE DEF event, c
<1> DEFINE Good == /\ buffer' \in Seq(Nat) /\ queue' \in Seq(Seq(Nat)) /\ epoch' \in Nat
                   /\ partial' \in [snapshot : Seq(Nat), epoch : Nat] \cup {None}
                   /\ skipped' \subseteq Nat /\ awaited' \in Nat \cup {None}
<1>1. ASSUME NEW chunks \in Seq(Nat), flushBuffer(chunks) \/ queueCapFlush(chunks)
      PROVE  buffer' \in Seq(Nat) /\ queue' \in Seq(Seq(Nat)) /\ epoch' \in Nat
  <2>1. CASE flushBuffer(chunks)
    <3>1. buffer' = <<>> /\ \/ queue' = queue /\ epoch' = epoch
                            \/ queue' = Append(queue, chunks) /\ epoch' = epoch + 1
      BY <2>1 DEF flushBuffer
    <3>2. Append(queue, chunks) \in Seq(Seq(Nat)) /\ epoch + 1 \in Nat
      BY <1>0
    <3>3. <<>> \in Seq(Nat)
      OBVIOUS
    <3> QED BY <1>0, <3>1, <3>2, <3>3, Zenon
  <2>2. CASE \E cut \in CutIndices(chunks) :
         /\ queue' = Append(queue, SubSeq(chunks, 1, cut - 1))
         /\ buffer' = SubSeq(chunks, cut, Len(chunks))
         /\ epoch' = epoch + 1
    <3>1. PICK cut \in 2..Len(chunks) : /\ queue' = Append(queue, SubSeq(chunks, 1, cut - 1))
                                        /\ buffer' = SubSeq(chunks, cut, Len(chunks))
                                        /\ epoch' = epoch + 1
      BY <2>2 DEF CutIndices
    <3>2. SubSeq(chunks, 1, cut - 1) \in Seq(Nat) /\ SubSeq(chunks, cut, Len(chunks)) \in Seq(Nat)
      BY CutInTwo
    <3> QED BY <1>0, <3>1, <3>2
  <2> QED BY <1>1, <2>1, <2>2 DEF queueCapFlush
<1>2. ASSUME OnData(c) /\ UNCHANGED awaited PROVE Good
  <2> DEFINE chunks == Append(buffer, c)
  <2>0. chunks \in Seq(Nat)
    BY <1>0
  <2> HIDE DEF chunks
  <2>1. \/ UNCHANGED <<buffer, queue, partial, epoch>>
        \/ queueCapFlush(chunks) /\ UNCHANGED partial
        \/ buffer' = chunks /\ UNCHANGED <<queue, epoch>> /\ UNCHANGED partial
        \/ buffer' = chunks /\ UNCHANGED <<queue, epoch>> /\ partial' = [snapshot |-> chunks, epoch |-> epoch]
    BY <1>2 DEF OnData, tryEmitPartial, chunks
  <2>2. skipped' \in {skipped, skipped \cup {c}}
    BY <1>2 DEF OnData
  <2>3. buffer' \in Seq(Nat) /\ queue' \in Seq(Seq(Nat)) /\ epoch' \in Nat
    BY <1>0, <1>1, <2>0, <2>1
  <2>4. partial' \in [snapshot : Seq(Nat), epoch : Nat] \cup {None}
    BY <1>0, <2>0, <2>1 DEF TypeOK
  <2>5. skipped' \subseteq Nat /\ awaited' \in Nat \cup {None}
    BY <1>0, <1>2, <2>2 DEF TypeOK
  <2> QED BY <2>3, <2>4, <2>5
<1>3. ASSUME OnSilence /\ UNCHANGED awaited PROVE Good
  BY <1>0, <1>1, <1>3 DEF OnSilence, TypeOK
<1>4. ASSUME OnShutdown PROVE Good
  <2>1. flushBuffer(buffer) /\ awaited' = Len(settled) + Len(queue') /\ UNCHANGED <<partial, skipped>>
    BY <1>4 DEF OnShutdown
  <2>2. buffer' \in Seq(Nat) /\ queue' \in Seq(Seq(Nat)) /\ epoch' \in Nat
    BY <1>0, <1>1, <2>1
  <2> QED BY <1>0, <2>1, <2>2 DEF TypeOK
<1>5. Good
  BY <1>u, <1>2, <1>3, <1>4
<1> HIDE DEF Good
<1> QED BY <1>0, <1>u, <1>5 DEF TypeOK, Good

LEMMA EmitTypes ==
  ASSUME TypeOK, NEW kind \in {"data", "silence", "end", "error"}, NEW chunk \in Nat, Emit(kind, chunk)
  PROVE  /\ pending' \in Seq(Event)
         /\ \E event \in Event : pending' = Append(pending, event) /\ event.kind = kind /\ event.chunk = chunk
<1> DEFINE event == [kind |-> kind, chunk |-> chunk]
<1>1. event \in Event /\ event.kind = kind /\ event.chunk = chunk
  BY DEF Event
<1>2. pending \in Seq(Event) /\ pending' = Append(pending, event)
  BY DEF TypeOK, Emit
<1> HIDE DEF event
<1> QED BY <1>1, <1>2

LEMMA MicrophoneTypes ==
  ASSUME TypeOK, Microphone
  PROVE  TypeOK'
<1>0. /\ device \in Device /\ command \in Command /\ captured \in 0..MaxChunks
  BY DEF TypeOK
<1>1. CASE OpenRefused
  <2>1. device' \in Device
    BY <1>0, <1>1, DictationAssumption DEF OpenRefused, Device
  <2>2. command' \in Command
    <3>1. command' = command \/ command' = [command EXCEPT !.at = "failed"]
      BY <1>1 DEF OpenRefused
    <3> QED BY <1>0, <3>1 DEF Command, CommandAt
  <2> QED BY <1>1, <2>1, <2>2 DEF OpenRefused, TypeOK, pipelineVars, historyVars
<1>2. ASSUME NEW byData \in BOOLEAN, Opened(byData) PROVE TypeOK'
  <2>1. device' \in Device
    <3>1. device' = [device EXCEPT !.at = "live", !.attempt = 1, !.inSpeech = byData]
      BY <1>2 DEF Opened
    <3>2. device' = [at |-> "live", attempt |-> 1, inSpeech |-> byData]
      BY <1>0, <3>1 DEF Device
    <3>3. 1 \in 1..Attempts
      BY DictationAssumption
    <3> QED BY <3>2, <3>3 DEF Device
  <2>2. captured' \in 0..MaxChunks /\ pending' \in Seq(Event)
    <3>1. CASE byData
      <4>1. captured' = captured + 1 /\ captured < MaxChunks /\ Emit("data", captured + 1)
        BY <1>2, <3>1 DEF Opened
      <4> QED BY <1>0, <4>1, EmitTypes, DictationAssumption
    <3>2. CASE ~byData
      BY <1>0, <1>2, <3>2 DEF Opened, TypeOK
    <3> QED BY <3>1, <3>2
  <2> QED BY <1>2, <2>1, <2>2 DEF Opened, TypeOK, pipelineVars, historyVars
<1>3. CASE Capture
  <2>1. device' \in Device
    BY <1>0, <1>3 DEF Capture, Device
  <2>2. captured' \in 0..MaxChunks /\ pending' \in Seq(Event)
    BY <1>0, <1>3, EmitTypes, DictationAssumption DEF Capture
  <2> QED BY <1>3, <2>1, <2>2 DEF Capture, TypeOK, pipelineVars, historyVars
<1>4. CASE Silence
  <2>1. device' \in Device
    BY <1>0, <1>4 DEF Silence, Device
  <2>2. pending' \in Seq(Event)
    BY <1>4, EmitTypes DEF Silence
  <2> QED BY <1>4, <2>1, <2>2 DEF Silence, TypeOK, pipelineVars, historyVars
<1>5. ASSUME NEW kind \in {"end", "error"}, DeviceEnds(kind) PROVE TypeOK'
  <2>1. device' \in Device
    BY <1>0, <1>5 DEF DeviceEnds, Device
  <2>2. pending' \in Seq(Event)
    BY <1>5, EmitTypes DEF DeviceEnds
  <2> QED BY <1>5, <2>1, <2>2 DEF DeviceEnds, TypeOK, pipelineVars, historyVars
<1> QED BY <1>1, <1>2, <1>3, <1>4, <1>5 DEF Microphone

LEMMA DecodeTypes ==
  ASSUME TypeOK, NEW outcome \in Outcome, recognizeFinal(outcome) \/ PartialSettles(outcome)
  PROVE  TypeOK'
<1>0. /\ ui \in VoiceState /\ queue \in Seq(Seq(Nat)) /\ settled \in Seq(Seq(Nat)) /\ transcript \in Seq(Nat)
      /\ partial \in [snapshot : Seq(Nat), epoch : Nat] \cup {None}
  BY DEF TypeOK
<1>1. CASE recognizeFinal(outcome)
  <2> DEFINE segment == Head(queue)
             text == IF IsText(outcome) THEN segment ELSE <<>>
  <2>1. /\ queue # <<>> /\ queue' = Tail(queue) /\ settled' = Append(settled, segment)
        /\ transcript' = transcript \o text /\ ui' = [ui EXCEPT !.transcript = ui.transcript \o text, !.partial = <<>>]
    BY <1>1 DEF recognizeFinal, audioTranscriptAppended
  <2>2. segment \in Seq(Nat) /\ text \in Seq(Nat) /\ Tail(queue) \in Seq(Seq(Nat))
    BY <1>0, <2>1
  <2> HIDE DEF segment, text
  <2>3. ui.transcript \o text \in Seq(Nat) /\ transcript \o text \in Seq(Nat)
    BY <1>0, <2>2 DEF VoiceState
  <2>4. ui' \in VoiceState
    <3> DEFINE tr == ui.transcript \o text
    <3>1. tr \in Seq(Nat) /\ ui' = [ui EXCEPT !.transcript = tr, !.partial = <<>>]
      BY <2>1, <2>3
    <3> HIDE DEF tr
    <3>2. ui' = [screen |-> ui.screen, status |-> ui.status, transcript |-> tr, partial |-> <<>>, draft |-> ui.draft]
      BY <1>0, <3>1 DEF VoiceState
    <3>3. <<>> \in Seq(Nat)
      OBVIOUS
    <3> QED BY <1>0, <3>1, <3>2, <3>3 DEF VoiceState
  <2>5. settled' \in Seq(Seq(Nat))
    BY <1>0, <2>1, <2>2
  <2> QED BY <1>1, <2>1, <2>2, <2>3, <2>4, <2>5 DEF recognizeFinal, TypeOK, deviceVars
<1>2. CASE PartialSettles(outcome)
  <2>1. partial # None /\ partial' = None
    BY <1>2 DEF PartialSettles
  <2>2. partial.snapshot \in Seq(Nat)
    BY <1>0, <2>1
  <2>3. \E text \in {partial.snapshot, <<>>, ui.partial} : ui' = [ui EXCEPT !.partial = text]
    <3>1. ui = [ui EXCEPT !.partial = ui.partial]
      BY <1>0 DEF VoiceState
    <3> QED BY <1>2, <3>1 DEF PartialSettles, audioPartialTranscriptSet
  <2>4. ui' \in VoiceState
    <3>1. PICK text \in Seq(Nat) : ui' = [ui EXCEPT !.partial = text]
      <4>1. ui.partial \in Seq(Nat) /\ <<>> \in Seq(Nat)
        BY <1>0 DEF VoiceState
      <4> QED BY <2>2, <2>3, <4>1
    <3> QED BY <1>0, <3>1 DEF VoiceState
  <2> QED BY <1>2, <2>1, <2>4 DEF PartialSettles, TypeOK, deviceVars, historyVars
<1> QED BY <1>1, <1>2

LEMMA CommandTypes ==
  ASSUME TypeOK, StartSession \/ Keys \/ Close
  PROVE  TypeOK'
<1>0. ui \in VoiceState /\ command \in Command /\ device \in Device /\ config \in SettingsDraft
  BY DEF TypeOK
<1>m. MicStopped \in Device
  BY <1>0 DEF MicStopped, Device
<1>1. CASE StartSession
  <2>1. command' \in Command
    BY <1>0, <1>1 DEF StartSession, Command, CommandAt
  <2> QED BY <1>1, <2>1 DEF StartSession, TypeOK, deviceVars, pipelineVars, historyVars
<1>2. CASE togglePause
  <2>1. ui' \in VoiceState /\ paused' \in BOOLEAN
    BY <1>0, <1>2 DEF togglePause, VoiceState
  <2> QED BY <1>2, <2>1 DEF togglePause, TypeOK, deviceVars, historyVars
<1>3. CASE commit
  <2>1. command' \in Command
    <3> DEFINE text == ui.transcript \o ui.partial
    <3>1. text \in Seq(Nat) /\ command' = [command EXCEPT !.at = "closing", !.intent = "commit", !.text = text]
      BY <1>0, <1>3 DEF commit, VoiceState
    <3> HIDE DEF text
    <3> QED BY <1>0, <3>1 DEF Command, CommandAt
  <2> QED BY <1>3, <2>1 DEF commit, TypeOK, deviceVars, pipelineVars, historyVars
<1>4. CASE cancel
  <2>1. command' \in Command
    BY <1>0, <1>4 DEF cancel, Command, CommandAt
  <2>2. device' \in Device
    BY <1>0, <1>m, <1>4 DEF cancel, Abort
  <2> QED BY <1>4, <2>1, <2>2 DEF cancel, TypeOK, pipelineVars, historyVars
<1>5. CASE openSettings
  <2>1. ui' \in VoiceState
    BY <1>0, <1>5 DEF openSettings, VoiceState
  <2> QED BY <1>5, <2>1 DEF openSettings, TypeOK, deviceVars, pipelineVars, historyVars
<1>6. ASSUME NEW saved \in BOOLEAN, closeSettings(saved) PROVE TypeOK'
  <2>1. ui' \in VoiceState /\ config' \in SettingsDraft
    BY <1>0, <1>6 DEF closeSettings, VoiceState
  <2> QED BY <1>6, <2>1 DEF closeSettings, TypeOK, deviceVars, pipelineVars, historyVars
<1>7. ASSUME NEW saved \in BOOLEAN, settingsSave(saved) PROVE TypeOK'
  <2>1. config' \in SettingsDraft
    BY <1>0, <1>7 DEF settingsSave, VoiceState
  <2> QED BY <1>7, <2>1 DEF settingsSave, TypeOK, deviceVars, pipelineVars, historyVars
<1>8. CASE toggleFocusedSetting
  <2>1. ui.draft \in SettingsDraft /\ ui.draft.hallucination \in BOOLEAN
    BY <1>0 DEF VoiceState, SettingsDraft
  <2> DEFINE draft == [ui.draft EXCEPT !.hallucination = ~ui.draft.hallucination]
  <2>2. draft \in SettingsDraft /\ (draft.hallucination \in BOOLEAN)
    BY <2>1 DEF SettingsDraft
  <2>3. ui' = [ui EXCEPT !.draft = draft]
    BY <1>8 DEF toggleFocusedSetting
  <2> HIDE DEF draft
  <2>4. ui' \in VoiceState /\ ui'.draft = draft
    BY <1>0, <2>2, <2>3 DEF VoiceState
  <2>5. filter' = ui'.draft.hallucination
    BY <1>8 DEF toggleFocusedSetting
  <2>6. filter' \in BOOLEAN
    BY <2>2, <2>4, <2>5, Zenon
  <2> QED BY <1>8, <2>4, <2>6 DEF toggleFocusedSetting, TypeOK, deviceVars, historyVars
<1>9. CASE Close
  <2>1. command' \in Command
    <3> DEFINE text == IF command.intent = "commit" THEN command.text ELSE <<>>
    <3>1. text \in Seq(Nat) /\ command' = [command EXCEPT !.at = "closed", !.aborted = TRUE, !.pasted = text]
      BY <1>0, <1>9 DEF Close, Command
    <3> HIDE DEF text
    <3> QED BY <1>0, <3>1 DEF Command, CommandAt
  <2>2. device' \in Device
    BY <1>0, <1>m, <1>9 DEF Close, Abort
  <2> QED BY <1>9, <2>1, <2>2 DEF Close, TypeOK, pipelineVars, historyVars
<1> QED BY <1>1, <1>2, <1>3, <1>4, <1>5, <1>6, <1>7, <1>8, <1>9 DEF Keys

-----------------------------------------------------------------------------
(* What the microphone does changes nothing that was heard. *)
LEMMA MicrophoneLosesNothing ==
  ASSUME DictationInv, Microphone
  PROVE  NothingLost' /\ skipped' \subseteq 1..captured'
         /\ UNCHANGED <<buffer, queue, partial, epoch, paused, filter, transcript, ui, settled>>
<1>0. /\ TypeOK /\ NothingLost /\ skipped \subseteq 1..captured /\ captured \in Nat
      /\ Heard \in Seq(Nat) /\ Waiting \in Seq(Nat)
  BY HeardTypes DEF DictationInv, TypeOK
<1>1. UNCHANGED <<buffer, queue, partial, epoch, paused, filter, transcript, ui, settled, skipped>>
  BY DEF Microphone, OpenRefused, Opened, Capture, Silence, DeviceEnds, pipelineVars, historyVars
<1>2. Heard' = Heard
  BY <1>1 DEF Heard
<1>3. ASSUME captured' = captured + 1, Emit("data", captured + 1) PROVE NothingLost' /\ skipped' \subseteq 1..captured'
  <2>1. PICK event \in Event : pending' = Append(pending, event) /\ event.kind = "data" /\ event.chunk = captured + 1
    BY <1>0, <1>3, EmitTypes
  <2>2. Waiting' = Waiting \o <<captured + 1>>
    BY <1>0, <2>1, WaitingGrows DEF TypeOK, ChunkOf
  <2>3. Heard' \o Waiting' = (Heard \o Waiting) \o <<captured + 1>>
    <3>1. <<captured + 1>> \in Seq(Nat)
      BY <1>0
    <3>2. (Heard \o Waiting) \o <<captured + 1>> = Heard \o (Waiting \o <<captured + 1>>)
      BY <1>0, <3>1, NumbersAssociate, Zenon
    <3> QED BY <1>2, <2>2, <3>2, Zenon
  <2>4. Heard \o Waiting \in Seq(Nat) /\ captured + 1 \notin skipped
    BY <1>0
  <2>5. Rising(Heard \o Waiting) /\ Range(Heard \o Waiting) = 1..captured \ skipped
    BY <1>0, NothingLostMeans, Zenon
  <2>6. /\ Rising((Heard \o Waiting) \o <<captured + 1>>)
        /\ Range((Heard \o Waiting) \o <<captured + 1>>) = 1..(captured + 1) \ skipped
    <3> DEFINE held == Heard \o Waiting
    <3>1. held \in Seq(Nat) /\ Rising(held) /\ Range(held) = 1..captured \ skipped
      BY <2>4, <2>5
    <3> HIDE DEF held
    <3>2. Range(held) \subseteq 1..captured
      BY <3>1
    <3>3. Rising(held \o <<captured + 1>>) /\ Range(held \o <<captured + 1>>) = Range(held) \cup {captured + 1}
      BY <1>0, <3>1, <3>2, RisingAppend
    <3>4. Range(held) \cup {captured + 1} = 1..(captured + 1) \ skipped
      BY <1>0, <2>4, <3>1
    <3> QED BY <3>3, <3>4 DEF held
  <2>7. Rising(Heard' \o Waiting') /\ Range(Heard' \o Waiting') = 1..captured' \ skipped'
    BY <1>1, <1>3, <2>3, <2>6
  <2>8. NothingLost'
    BY <2>7, Zenon DEF NothingLost, Heard
  <2>9. skipped' \subseteq 1..captured'
    BY <1>0, <1>1, <1>3
  <2> QED BY <2>8, <2>9
<1>4. ASSUME captured' = captured, UNCHANGED pending PROVE NothingLost' /\ skipped' \subseteq 1..captured'
  <2>1. Waiting' = Waiting
    BY <1>4 DEF Waiting
  <2> QED BY <1>0, <1>1, <1>2, <1>4, <2>1, HeldSame
<1>5. ASSUME NEW kind \in {"silence", "end", "error"}, captured' = captured, Emit(kind, 0)
      PROVE  NothingLost' /\ skipped' \subseteq 1..captured'
  <2>1. PICK event \in Event : pending' = Append(pending, event) /\ event.kind = kind
    BY <1>0, <1>5, EmitTypes
  <2>2. Waiting' = Waiting \o <<>>
    BY <1>0, <2>1, WaitingGrows DEF TypeOK, ChunkOf
  <2>3. Waiting' = Waiting
    BY <1>0, <2>2, ConcatEmptySeq
  <2> QED BY <1>0, <1>1, <1>2, <1>5, <2>3, HeldSame
<1>6. \/ captured' = captured + 1 /\ Emit("data", captured + 1)
      \/ captured' = captured /\ UNCHANGED pending
      \/ captured' = captured /\ \E kind \in {"silence", "end", "error"} : Emit(kind, 0)
  BY DEF Microphone, OpenRefused, Opened, Capture, Silence, DeviceEnds
<1> QED BY <1>1, <1>3, <1>4, <1>5, <1>6

LEMMA DictationStep == DictationInv /\ [Next]_vars => DictationInv'
<1> SUFFICES ASSUME DictationInv, [Next]_vars PROVE DictationInv'
  OBVIOUS
<1>0. TypeOK /\ NothingLost /\ skipped \subseteq 1..captured /\ FreshPreview /\ ShownOnce /\ Copies
  BY DEF DictationInv
<1>f. ASSUME UNCHANGED <<captured, pending, buffer, queue, settled, skipped>>
      PROVE  NothingLost' /\ skipped' \subseteq 1..captured'
  <2>1. Heard' = Heard /\ Waiting' = Waiting
    BY <1>f DEF Heard, Waiting
  <2> QED BY <1>0, <1>f, <2>1, HeldSame
<1>g. ASSUME UNCHANGED <<buffer, partial, epoch>> PROVE FreshPreview'
  BY <1>0, <1>g DEF FreshPreview
<1>1. CASE Deliver
  <2>1. UNCHANGED <<paused, filter, transcript, ui, settled>>
    BY <1>1 DEF Deliver
  <2>2. ShownOnce' /\ Copies'
    BY <1>0, <2>1 DEF ShownOnce, Copies
  <2> QED BY <1>0, <1>1, <2>2, DeliverTypes, DeliverLosesNothing, PreviewStaysFresh DEF DictationInv
<1>2. CASE Microphone
  <2>1. UNCHANGED <<buffer, queue, partial, epoch, paused, filter, transcript, ui, settled>>
    BY <1>2, MicrophoneLosesNothing
  <2>2. ShownOnce' /\ Copies' /\ FreshPreview'
    BY <1>0, <1>g, <2>1 DEF ShownOnce, Copies
  <2> QED BY <1>0, <1>2, <2>2, MicrophoneTypes, MicrophoneLosesNothing DEF DictationInv
<1>3. ASSUME NEW outcome \in Outcome, recognizeFinal(outcome) PROVE DictationInv'
  <2>1. UNCHANGED <<captured, pending, buffer, partial, epoch, paused, filter, skipped>>
    BY <1>3 DEF recognizeFinal, deviceVars
  <2>2. ui \in VoiceState
    BY <1>0 DEF TypeOK
  <2>3. PICK text : transcript' = transcript \o text /\ ui' = [ui EXCEPT !.transcript = ui.transcript \o text, !.partial = <<>>]
    BY <1>3 DEF recognizeFinal, audioTranscriptAppended
  <2>4. /\ ui'.transcript = ui.transcript \o text /\ ui'.partial = <<>>
        /\ ui'.status = ui.status /\ ui'.draft = ui.draft
    BY <2>2, <2>3 DEF VoiceState
  <2>5. Copies'
    BY <1>0, <2>1, <2>3, <2>4 DEF Copies
  <2>6. ShownOnce'
    BY <2>4 DEF ShownOnce, Range
  <2> QED BY <1>0, <1>3, <1>g, <2>1, <2>5, <2>6, DecodeTypes, DecodeLosesNothing DEF DictationInv
<1>4. ASSUME NEW outcome \in Outcome, PartialSettles(outcome) PROVE DictationInv'
  <2>1. /\ UNCHANGED <<captured, pending, buffer, queue, epoch, paused, filter, transcript, settled, skipped>>
        /\ partial # None /\ partial' = None
    BY <1>4 DEF PartialSettles, deviceVars, historyVars
  <2>2. ui \in VoiceState
    BY <1>0 DEF TypeOK
  <2>3. FreshPreview'
    BY <2>1 DEF FreshPreview
  <2>4. CASE ui' = ui
    <3>1. ShownOnce' /\ Copies'
      BY <1>0, <2>1, <2>4 DEF ShownOnce, Copies
    <3> QED BY <1>0, <1>4, <1>f, <2>1, <2>3, <3>1, DecodeTypes DEF DictationInv
  <2>5. CASE partial.epoch = epoch /\ \E text \in {partial.snapshot, <<>>} : ui' = [ui EXCEPT !.partial = text]
    <3>1. PICK text \in {partial.snapshot, <<>>} : ui' = [ui EXCEPT !.partial = text]
      BY <2>5
    <3>2. /\ ui'.transcript = ui.transcript /\ ui'.partial = text
          /\ ui'.status = ui.status /\ ui'.draft = ui.draft
      BY <2>2, <3>1 DEF VoiceState
    <3>3. Copies'
      BY <1>0, <2>1, <3>2 DEF Copies
    <3>4. Range(text) \subseteq Range(buffer)
      <4>1. CASE text = partial.snapshot
        BY <1>0, <2>1, <2>5, <4>1 DEF FreshPreview
      <4>2. CASE text = <<>>
        BY <4>2 DEF Range
      <4> QED BY <3>1, <4>1, <4>2
    <3>5. ShownOnce'
      <4>1. Range(buffer) \cap Range(FlattenSeq(settled)) = {}
        BY <1>0, BufferIsUnsettled
      <4>2. Range(ui'.partial) \subseteq Range(buffer) /\ settled' = settled
        BY <2>1, <3>2, <3>4
      <4> QED BY <4>1, <4>2 DEF ShownOnce
    <3> QED BY <1>0, <1>4, <1>f, <2>1, <2>3, <3>3, <3>5, DecodeTypes DEF DictationInv
  <2> QED BY <1>4, <2>4, <2>5 DEF PartialSettles, audioPartialTranscriptSet
<1>5. CASE StartSession \/ Keys \/ Close
  <2>1. UNCHANGED <<captured, pending, buffer, queue, partial, epoch, transcript, settled, skipped>>
    BY <1>5 DEF StartSession, Keys, Close, togglePause, commit, cancel, openSettings, closeSettings, settingsSave,
                toggleFocusedSetting, deviceVars, pipelineVars, historyVars
  <2>2. ui \in VoiceState
    BY <1>0 DEF TypeOK
  <2>3. /\ ui'.partial = ui.partial /\ ui'.transcript = ui.transcript
        /\ (paused' <=> ui'.status = "paused") /\ (filter' <=> ui'.draft.hallucination)
    <3>1. CASE togglePause
      <4>1. paused' = (ui'.status = "paused") /\ UNCHANGED filter
        BY <3>1 DEF togglePause
      <4>2. ui'.partial = ui.partial /\ ui'.transcript = ui.transcript /\ ui'.draft = ui.draft
        BY <2>2, <3>1 DEF togglePause, VoiceState
      <4> QED BY <1>0, <4>1, <4>2 DEF Copies
    <3>2. CASE toggleFocusedSetting
      <4>1. filter' = ui'.draft.hallucination /\ UNCHANGED paused
        BY <3>2 DEF toggleFocusedSetting
      <4>2. ui'.partial = ui.partial /\ ui'.transcript = ui.transcript /\ ui'.status = ui.status
        BY <2>2, <3>2 DEF toggleFocusedSetting, VoiceState
      <4> QED BY <1>0, <4>1, <4>2 DEF Copies
    <3>3. CASE openSettings \/ \E saved \in BOOLEAN : closeSettings(saved)
      <4>1. UNCHANGED <<paused, filter>>
        BY <3>3 DEF openSettings, closeSettings, pipelineVars
      <4>2. \E screen \in {"settings", "dictation"} : ui' = [ui EXCEPT !.screen = screen]
        BY <3>3 DEF openSettings, closeSettings
      <4>3. /\ ui'.partial = ui.partial /\ ui'.transcript = ui.transcript
            /\ ui'.status = ui.status /\ ui'.draft = ui.draft
        BY <2>2, <4>2 DEF VoiceState
      <4> QED BY <1>0, <4>1, <4>3 DEF Copies
    <3>4. CASE UNCHANGED <<paused, filter, ui>>
      BY <1>0, <3>4 DEF Copies
    <3> QED BY <1>5, <3>1, <3>2, <3>3, <3>4
            DEF StartSession, Keys, Close, commit, cancel, settingsSave, pipelineVars
  <2>4. ShownOnce' /\ Copies'
    BY <1>0, <2>1, <2>3 DEF ShownOnce, Copies
  <2> QED BY <1>0, <1>5, <1>f, <1>g, <2>1, <2>4, CommandTypes DEF DictationInv
<1>6. CASE UNCHANGED vars
  <2>1. TypeOK'
    BY <1>0, <1>6 DEF TypeOK, vars, deviceVars, pipelineVars, historyVars
  <2>2. ShownOnce' /\ Copies'
    BY <1>0, <1>6 DEF ShownOnce, Copies, vars, deviceVars, pipelineVars, historyVars
  <2>3. UNCHANGED <<captured, pending, buffer, queue, partial, epoch, settled, skipped>>
    BY <1>6 DEF vars, deviceVars, pipelineVars, historyVars
  <2> QED BY <1>f, <1>g, <2>1, <2>2, <2>3 DEF DictationInv
<1> QED BY <1>1, <1>2, <1>3, <1>4, <1>5, <1>6 DEF Next, Decode

LEMMA DictationInitInv == Init => DictationInv
<1> SUFFICES ASSUME Init PROVE DictationInv
  OBVIOUS
<1>1. TypeOK
  <2>0. <<>> \in Seq(Nat) /\ <<>> \in Seq(Seq(Nat)) /\ <<>> \in Seq(Event)
    OBVIOUS
  <2>1. device \in Device /\ captured \in 0..MaxChunks /\ pending \in Seq(Event)
    BY <2>0, DictationAssumption DEF Init, Device
  <2>2. config \in SettingsDraft /\ filter \in BOOLEAN
    BY DEF Init, SettingsDraft
  <2>3. ui \in VoiceState
    BY <2>0, <2>2 DEF Init, initialVoiceState, VoiceState
  <2>4. command \in Command
    BY <2>0 DEF Init, Command, CommandAt
  <2> QED BY <2>0, <2>1, <2>2, <2>3, <2>4 DEF Init, TypeOK
<1>2. FlattenSeq(settled) = <<>> /\ FlattenSeq(queue) = <<>> /\ buffer = <<>> /\ captured = 0 /\ skipped = {}
  BY FlattenEmpty DEF Init
<1>3. Waiting = <<>>
  <2>1. Chunks(pending) = <<>>
    BY DEF Init, Chunks
  <2> QED BY <2>1, FlattenEmpty DEF Waiting, Chunks
<1>4. Heard \o Waiting = <<>>
  BY <1>2, <1>3 DEF Heard
<1>5. Rising(<<>>) /\ Range(<<>>) = {}
  BY DEF Rising, Range
<1>6. NothingLost
  <2>1. 1..captured \ skipped = {}
    BY <1>2
  <2> QED BY <1>4, <1>5, <2>1, NothingLostMeans, Zenon
<1>7. FreshPreview
  BY DEF Init, FreshPreview
<1>8. ui = initialVoiceState(config) /\ config \in SettingsDraft /\ filter = config.hallucination /\ paused = FALSE /\ transcript = <<>>
  BY DEF Init
<1>9. Copies
  BY <1>8 DEF Copies, initialVoiceState
<1>10. ShownOnce
  BY <1>8 DEF ShownOnce, initialVoiceState, Range
<1> QED BY <1>1, <1>2, <1>6, <1>7, <1>9, <1>10 DEF DictationInv

(* Nothing the microphone delivers is lost, decoded twice or out of order, *)
(* whatever is paused, cut, cancelled or closed meanwhile, for any cap on  *)
(* the buffer and any number of rates to try (pipeline-runner.ts).         *)
THEOREM NothingIsEverLost == DictationSpec => []NothingLost
<1>1. DictationInv => NothingLost
  BY DEF DictationInv
<1> QED BY <1>1, DictationInitInv, DictationStep, PTL DEF DictationSpec

(* The overlay never shows what the pipeline no longer holds, and never    *)
(* again what was settled: pressing Enter pastes each phrase once          *)
(* (voice-session.ts:133-180).                                             *)
THEOREM OverlayAlwaysAgrees == DictationSpec => []OverlayAgrees
<1>1. DictationInv => OverlayAgrees
  BY DEF DictationInv, OverlayAgrees, ShownOnce, Copies
<1> QED BY <1>1, DictationInitInv, DictationStep, PTL DEF DictationSpec
=============================================================================
