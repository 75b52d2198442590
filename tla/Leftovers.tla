------------------------------- MODULE Leftovers -------------------------------
(***************************************************************************)
(* rpiv-pi: what earlier versions left in a project, and what every new    *)
(* session does about it.  thoughts/shared is copied to .rpiv/artifacts    *)
(* and removed; .pi/agents is removed when all of it is what the package   *)
(* put there.  Both walk the file system, may fail and may be killed       *)
(* half-way; the next session tries again.  The user writes files between  *)
(* two sessions; somebody who writes while a session starts is left out.   *)
(***************************************************************************)
EXTENDS Integers, FiniteSets, Absence

CONSTANTS
  Entry,      \* what thoughts/shared may hold: files and directories
  AgentName,  \* what .pi/agents may hold
  MaxWrites   \* bound: the user's writes

ASSUME OwnerAssumption == None \notin {"current", "outdated", "user"}

VARIABLES
  shared, artifacts, \* thoughts/shared and .rpiv/artifacts: the version of each entry
  perCwd,     \* .pi/agents: whose each file is
  listed,     \* the names in its manifest
  bundled,    \* the names in the package
  chore,      \* what the session that starts is at
  todo,       \* the entries still to be copied
  writes,
  latest      \* history: the last version written to shared, unless artifacts has a newer one

leftoverVars == <<shared, artifacts, perCwd, listed, bundled, chore, todo, writes, latest>>

Partial == -1

LeftoverInit ==
  /\ shared = [e \in Entry |-> None] /\ artifacts = [e \in Entry |-> None]
  /\ perCwd \in [AgentName -> {None, "current", "outdated", "user"}]
  /\ listed \in SUBSET AgentName /\ bundled \in SUBSET AgentName
  /\ \A n \in AgentName : perCwd[n] \in {"current", "outdated"} => n \in listed
  /\ chore = "none" /\ todo = {} /\ writes = 0
  /\ latest = [e \in Entry |-> None]

-----------------------------------------------------------------------------
(* The user, between two sessions. *)
WriteShared(e) ==
  /\ chore = "none" /\ writes < MaxWrites /\ writes' = writes + 1
  /\ shared' = [shared EXCEPT ![e] = writes'] /\ latest' = [latest EXCEPT ![e] = writes']
  /\ UNCHANGED <<artifacts, perCwd, listed, bundled, chore, todo>>

WriteArtifacts(e) ==
  /\ chore = "none" /\ writes < MaxWrites /\ writes' = writes + 1
  /\ artifacts' = [artifacts EXCEPT ![e] = writes'] /\ latest' = [latest EXCEPT ![e] = None]
  /\ UNCHANGED <<shared, perCwd, listed, bundled, chore, todo>>

WriteAgent(n) ==
  /\ chore = "none" /\ perCwd' = [perCwd EXCEPT ![n] = "user"]
  /\ UNCHANGED <<shared, artifacts, listed, bundled, chore, todo, writes, latest>>

-----------------------------------------------------------------------------
Present(dir) == {x \in DOMAIN dir : dir[x] # None}

migrateThoughtsToArtifacts ==
  /\ chore = "none" /\ Present(shared) # {}
  /\ chore' = "copying" /\ todo' = Present(shared)
  /\ UNCHANGED <<shared, artifacts, perCwd, listed, bundled, writes, latest>>

(* cpSync overwrites what is there; a directory may be half-copied. *)
cpSync(e) ==
  /\ chore = "copying" /\ e \in todo
  /\ artifacts' = [artifacts EXCEPT ![e] = IF @ = Partial THEN shared[e] ELSE Partial]
  /\ todo' = IF artifacts[e] = Partial THEN todo \ {e} ELSE todo
  /\ UNCHANGED <<shared, perCwd, listed, bundled, chore, writes, latest>>

(* Mutant: one entry that was copied is enough. *)
copiesVerifiedOne == todo # Present(shared)

copiesVerified == todo = {}

(* Entry by entry; what is left is migrated again. *)
rmSync(e) ==
  /\ \/ chore = "copying" /\ copiesVerified
     \/ chore = "purging"
  /\ shared[e] # None /\ shared' = [shared EXCEPT ![e] = None]
  /\ chore' = IF Present(shared) = {e} THEN "none" ELSE "purging"
  /\ todo' = {}
  /\ UNCHANGED <<artifacts, perCwd, listed, bundled, writes, latest>>

-----------------------------------------------------------------------------
(* Every listed file is the bundle's, as the models of its agents make it. *)
ManagedMatch == \A n \in listed : n \in bundled /\ perCwd[n] = "current"

NoCustomFiles == Present(perCwd) \subseteq listed

cleanupPerCwdAgents ==
  /\ chore = "none" /\ listed # {} /\ ManagedMatch /\ NoCustomFiles
  /\ chore' = "removing"
  /\ UNCHANGED <<shared, artifacts, perCwd, listed, bundled, todo, writes, latest>>

(* The manifest goes like any other file of the directory. *)
RemoveAgents ==
  /\ chore = "removing"
  /\ \/ \E n \in Present(perCwd) : perCwd' = [perCwd EXCEPT ![n] = None] /\ UNCHANGED <<listed, chore>>
     \/ listed # {} /\ listed' = {} /\ UNCHANGED <<perCwd, chore>>
     \/ listed = {} /\ Present(perCwd) = {} /\ chore' = "none" /\ UNCHANGED <<perCwd, listed>>
  /\ UNCHANGED <<shared, artifacts, bundled, todo, writes, latest>>

(* An error ends the chore and the session goes on; a kill ends both. *)
ChoreStops ==
  /\ chore # "none" /\ chore' = "none" /\ todo' = {}
  /\ UNCHANGED <<shared, artifacts, perCwd, listed, bundled, writes, latest>>

LeftoverNext ==
  \/ \E e \in Entry : WriteShared(e) \/ WriteArtifacts(e) \/ cpSync(e) \/ rmSync(e)
  \/ \E n \in AgentName : WriteAgent(n)
  \/ migrateThoughtsToArtifacts \/ cleanupPerCwdAgents \/ RemoveAgents \/ ChoreStops

LeftoverSpec == LeftoverInit /\ [][LeftoverNext]_leftoverVars

-----------------------------------------------------------------------------
(* The user loses nothing, wherever a session that starts is stopped: what *)
(* was last written to thoughts/shared is there or in .rpiv/artifacts, in  *)
(* whole, and an agent the user wrote or edited is not being removed.      *)
UserFilesSurvive ==
  /\ \A e \in Entry : latest[e] # None => latest[e] \in {shared[e], artifacts[e]}
  /\ chore = "removing" => \A n \in AgentName : perCwd[n] # "user"
=============================================================================
