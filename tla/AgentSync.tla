------------------------------- MODULE AgentSync -------------------------------
(***************************************************************************)
(* rpiv-pi: the copy of the bundled agents into ~/.pi/agent/agents.  A     *)
(* manifest says which content was last installed; the file of an agent    *)
(* the user has edited differs from it and is left alone.  A kill may come *)
(* between any two writes.  Contents are versions (with the model settings *)
(* already injected), hashes are contents.  The user edits files between   *)
(* syncs, not during one: a sync is a single synchronous call.  Several Pi *)
(* processes syncing at once are left out: agents.ts says it is not safe.  *)
(***************************************************************************)
EXTENDS Integers, FiniteSets, Absence

CONSTANTS
  AgentFile,   \* names of agents
  MaxVersion,  \* bound: contents the package ships
  Faults,      \* of "crash", "write", "corrupt": what may go wrong
  MaxFaults    \* bound

ASSUME AgentAssumption == MaxVersion \in Nat \ {0} /\ None \notin Int

Version == 1..MaxVersion
Mine == 0          \* what the user wrote
Unknown == -1      \* the hash of an entry of the old manifest format

VARIABLES
  bundle,      \* BUNDLED_AGENTS_DIR: the content of each agent shipped
  installed,   \* the target directory
  manifest,    \* .rpiv-managed.json
  v2Marker,    \* .rpiv-managed.v2 exists
  sync,        \* the call of syncBundledAgents
  faults,      \* history: what went wrong so far
  userEdits    \* history: files the user edited, by the marker at that time

agentVars == <<bundle, installed, manifest, v2Marker, sync, faults, userEdits>>

NoFile == [a \in AgentFile |-> None]

NoSync == [pc |-> "idle", apply |-> FALSE, hasV2 |-> FALSE, left |-> {}, known |-> NoFile,
           new |-> NoFile, unlink |-> {}, failed |-> {}]

(* A first install, or one of the old format that an older Pi left. *)
AgentInit ==
  /\ bundle \in [AgentFile -> {1, None}]
  /\ \/ installed = NoFile /\ manifest = NoFile
     \/ /\ installed \in [AgentFile -> {1, Mine, None}]
        /\ manifest = [a \in AgentFile |-> IF installed[a] = None THEN None ELSE Unknown]
  /\ v2Marker = FALSE /\ sync = NoSync /\ faults = 0 /\ userEdits = {}

-----------------------------------------------------------------------------
Go(pc) == sync' = [sync EXCEPT !.pc = pc]

MayFail(kind) == kind \in Faults /\ faults < MaxFaults

(* A write that lands, or one that does not and is reported. *)
Lands == faults' = faults
Fails == MayFail("write") /\ faults' = faults + 1

(* Mutant: v2 is what the manifest looks like, not what the marker says. *)
hasV2FromManifest == \E a \in AgentFile : manifest[a] \notin {None, Unknown}

hasV2Marker == v2Marker

syncBundledAgents(apply) ==
  /\ sync.pc \in {"idle", "killed"}
  /\ sync' = [NoSync EXCEPT !.pc = "copy", !.apply = apply, !.hasV2 = hasV2Marker,
                            !.left = {a \in AgentFile : bundle[a] # None},
                            !.known = manifest]
  /\ userEdits' = IF apply THEN {} ELSE userEdits
  /\ UNCHANGED <<bundle, installed, manifest, v2Marker, faults>>

KnownHash(a) == IF sync.known[a] = None THEN Unknown ELSE sync.known[a]

isSafeDestructiveOp(a) ==
  \/ KnownHash(a) # Unknown /\ installed[a] = KnownHash(a)
  \/ ~sync.hasV2 /\ KnownHash(a) = Unknown

MayOverwrite(a) == sync.apply \/ isSafeDestructiveOp(a)

(* Mutant: an update keeps the hash that was known before it. *)
RecordOld(a, hash) ==
  sync' = [sync EXCEPT !.left = @ \ {a},
                       !.new[a] = IF installed[a] = None THEN hash ELSE KnownHash(a)]

(* The entry of the new manifest: what is on disk, or what was known. *)
Record(a, hash) == sync' = [sync EXCEPT !.left = @ \ {a}, !.new[a] = hash]

processSourceEntry(a) ==
  /\ sync.pc = "copy" /\ a \in sync.left
  /\ \/ /\ installed[a] = None \/ (installed[a] # bundle[a] /\ MayOverwrite(a))
        /\ \/ /\ Lands
              /\ installed' = [installed EXCEPT ![a] = bundle[a]]
              /\ Record(a, bundle[a])
           \/ Fails /\ UNCHANGED installed /\ Record(a, KnownHash(a))
     \/ /\ installed[a] = bundle[a]
        /\ Lands /\ UNCHANGED installed /\ Record(a, bundle[a])
     \/ /\ installed[a] \notin {None, bundle[a]} /\ ~MayOverwrite(a)
        /\ Lands /\ UNCHANGED installed /\ Record(a, KnownHash(a))
  /\ UNCHANGED <<bundle, manifest, v2Marker, userEdits>>

(* Entries that left the bundle: gone already, to be unlinked, or kept. *)
classifyStaleEntries ==
  /\ sync.pc = "copy" /\ sync.left = {}
  /\ LET stale == {a \in AgentFile : sync.known[a] # None /\ bundle[a] = None /\ installed[a] # None}
         unlink == {a \in stale : MayOverwrite(a)}
     IN sync' = [sync EXCEPT !.pc = "manifest", !.unlink = unlink,
                   !.new = [a \in AgentFile |-> IF a \in stale \ unlink THEN sync.known[a]
                                                ELSE sync.new[a]]]
  /\ UNCHANGED <<bundle, installed, manifest, v2Marker, faults, userEdits>>

(* writeManifest renames a complete file into place, or leaves the old one. *)
writeManifest ==
  /\ sync.pc = "manifest"
  /\ \/ Lands /\ manifest' = sync.new /\ Go(IF sync.hasV2 THEN "unlink" ELSE "marker")
     \/ Fails /\ UNCHANGED manifest /\ Go("unlink")
  /\ UNCHANGED <<bundle, installed, v2Marker, userEdits>>

writeV2Marker ==
  /\ sync.pc = "marker" /\ Go("unlink")
  /\ (Lands /\ v2Marker' = TRUE) \/ (Fails /\ UNCHANGED v2Marker)
  /\ UNCHANGED <<bundle, installed, manifest, userEdits>>

commitStaleUnlink(a) ==
  /\ sync.pc = "unlink" /\ a \in sync.unlink \ sync.failed
  /\ \/ /\ Lands /\ installed' = [installed EXCEPT ![a] = None]
        /\ sync' = [sync EXCEPT !.unlink = @ \ {a}]
     \/ /\ Fails /\ UNCHANGED installed
        /\ sync' = [sync EXCEPT !.failed = @ \cup {a}, !.new[a] = sync.known[a]]
  /\ UNCHANGED <<bundle, manifest, v2Marker, userEdits>>

(* The manifest is written again if a file could not be unlinked. *)
syncEnds ==
  /\ sync.pc = "unlink" /\ sync.unlink = sync.failed /\ Go("idle")
  /\ IF sync.failed = {} THEN Lands /\ UNCHANGED manifest
     ELSE (Lands /\ manifest' = sync.new) \/ (Fails /\ UNCHANGED manifest)
  /\ UNCHANGED <<bundle, installed, v2Marker, userEdits>>

-----------------------------------------------------------------------------
Kill ==
  /\ MayFail("crash") /\ sync.pc \notin {"idle", "killed"}
  /\ faults' = faults + 1 /\ Go("killed")
  /\ UNCHANGED <<bundle, installed, manifest, v2Marker, userEdits>>

AtRest == sync.pc \in {"idle", "killed"}

(* Somebody else makes a mess of the file; it reads as an empty manifest. *)
Corrupt ==
  /\ MayFail("corrupt") /\ AtRest /\ manifest # NoFile
  /\ faults' = faults + 1 /\ manifest' = NoFile
  /\ UNCHANGED <<bundle, installed, v2Marker, sync, userEdits>>

Upgrade ==
  /\ AtRest
  /\ \E a \in AgentFile, v \in Version \cup {None} :
       /\ IF bundle[a] = None THEN v = 1 ELSE v \in {bundle[a] + 1, None}
       /\ bundle' = [bundle EXCEPT ![a] = v]
  /\ sync' = NoSync
  /\ UNCHANGED <<installed, manifest, v2Marker, faults, userEdits>>

UserEdits(a) ==
  /\ AtRest /\ installed[a] \in Version
  /\ installed' = [installed EXCEPT ![a] = Mine]
  /\ userEdits' = userEdits \cup {<<a, v2Marker>>}
  /\ UNCHANGED <<bundle, manifest, v2Marker, sync, faults>>

UserDeletes(a) ==
  /\ AtRest /\ installed[a] # None
  /\ installed' = [installed EXCEPT ![a] = None]
  /\ userEdits' = {e \in userEdits : e[1] # a}
  /\ UNCHANGED <<bundle, manifest, v2Marker, sync, faults>>

AgentNext ==
  \/ \E apply \in BOOLEAN : syncBundledAgents(apply)
  \/ \E a \in AgentFile :
       processSourceEntry(a) \/ commitStaleUnlink(a) \/ UserEdits(a) \/ UserDeletes(a)
  \/ classifyStaleEntries \/ writeManifest \/ writeV2Marker \/ syncEnds
  \/ Kill \/ Corrupt \/ Upgrade

AgentSpec == AgentInit /\ [][AgentNext]_agentVars

-----------------------------------------------------------------------------
(* What the user wrote into an agent's file once the migration was over is *)
(* still there, whatever was killed, failed or corrupted since, until the  *)
(* user deletes it or asks for an update by force.                         *)
EditsSurvive == \A a \in AgentFile : <<a, TRUE>> \in userEdits => installed[a] = Mine

(* As long as nothing went wrong, a sync ends with every file the user     *)
(* left alone as the package ships it: updates are never held back, and    *)
(* agents that left the package are gone.                                  *)
SyncConverges ==
  sync.pc = "unlink" /\ sync.unlink = {} /\ faults = 0
    => \A a \in AgentFile : installed[a] \in {Mine, bundle[a]}

(* A stale file that a killed sync was about to unlink is still named by   *)
(* the manifest, so that the next sync finds it.  agents.ts says so of a   *)
(* kill between the manifest and the unlinks.                              *)
UnlinksAreRetried ==
  sync.pc = "killed" => \A a \in sync.unlink : installed[a] # None => manifest[a] # None
=============================================================================
