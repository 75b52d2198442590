----------------------------- MODULE ModelInstall -----------------------------
(***************************************************************************)
(* rpiv-voice: what /voice does before it listens.  The model is fetched   *)
(* as one archive, unpacked, trimmed, and marked with a sentinel; a        *)
(* failure wipes the directory.  Every process may be killed between two   *)
(* writes, and somebody may delete a file.  The splash takes no input, so  *)
(* a process installs one model at a time and nobody aborts it.  Progress  *)
(* and messages are left out.                                              *)
(***************************************************************************)
EXTENDS Integers, FiniteSets

CONSTANTS
  Process,        \* Pi processes that share ~/.pi/models
  Needed, Spare,  \* REQUIRED_FILES and FP32_DUPLICATE_FILES
  Archive,        \* the tarball
  MaxMishaps      \* bound: kills and deletions

ASSUME ArchiveAssumption == Archive \notin Needed \cup Spare

VARIABLES
  disk,       \* the model directory: each file absent, partial or whole
  sentinel,   \* .download-complete
  preflight,  \* where each process's runPreflight is
  members,    \* what the archive on the server holds
  unpacking,  \* what tar has not yet written
  engine,     \* history: the state of the files the recognizer was given
  mishaps

installVars == <<disk, sentinel, preflight, members, unpacking, engine, mishaps>>

File == Needed \cup Spare \cup {Archive}

InstallInit ==
  /\ disk = [f \in File |-> "absent"] /\ sentinel = FALSE
  /\ preflight = [p \in Process |-> "idle"]
  /\ unpacking = [p \in Process |-> {}]
  /\ members \in {m \in SUBSET (Needed \cup Spare) : Cardinality((Needed \cup Spare) \ m) <= 1}
  /\ engine = {} /\ mishaps = 0

-----------------------------------------------------------------------------
MoveTo(p, pc) == preflight' = [preflight EXCEPT ![p] = pc]

(* Mutant: the files themselves are looked for, and not the mark. *)
isModelDownloadedByFiles == \A f \in Needed : disk[f] # "absent"

isModelDownloaded == sentinel

(* handleVoiceCommand and the first lines of ensureModelDownloaded. *)
runPreflight(p) ==
  /\ preflight[p] = "idle"
  /\ MoveTo(p, IF isModelDownloaded THEN "checking" ELSE "fetching")
  /\ UNCHANGED <<disk, sentinel, unpacking, engine, mishaps>>

(* The server answers, and the archive's file is opened and filled; what   *)
(* arrives need not be a tarball.                                          *)
downloadArchive(p) ==
  /\ \/ preflight[p] = "fetching" /\ disk' = [disk EXCEPT ![Archive] = "partial"] /\ MoveTo(p, "piping")
     \/ preflight[p] = "piping" /\ disk' = [disk EXCEPT ![Archive] = "whole"] /\ MoveTo(p, "fetched")
  /\ UNCHANGED <<sentinel, unpacking, engine, mishaps>>

extractArchive(p) ==
  /\ preflight[p] = "fetched" /\ disk[Archive] = "whole"
  /\ MoveTo(p, "unpacking") /\ unpacking' = [unpacking EXCEPT ![p] = members]
  /\ UNCHANGED <<disk, sentinel, engine, mishaps>>

TarWrites(p, f) ==
  /\ preflight[p] = "unpacking" /\ f \in unpacking[p]
  /\ \/ disk' = [disk EXCEPT ![f] = "partial"] /\ UNCHANGED unpacking
     \/ disk' = [disk EXCEPT ![f] = "whole"] /\ unpacking' = [unpacking EXCEPT ![p] = @ \ {f}]
  /\ UNCHANGED <<sentinel, preflight, engine, mishaps>>

pruneFp32Duplicates(p) ==
  /\ preflight[p] = "unpacking" /\ unpacking[p] = {}
  /\ disk' = [f \in File |-> IF f \in Needed THEN disk[f] ELSE "absent"]
  /\ MoveTo(p, "verifying")
  /\ UNCHANGED <<sentinel, unpacking, engine, mishaps>>

verifyModelFiles == \A f \in Needed : disk[f] # "absent"

writeSentinel(p) ==
  /\ preflight[p] = "verifying"
  /\ IF verifyModelFiles THEN sentinel' = TRUE /\ MoveTo(p, "checking")
     ELSE MoveTo(p, "wiping") /\ UNCHANGED sentinel
  /\ UNCHANGED <<disk, unpacking, engine, mishaps>>

(* A refused or broken download, an archive tar cannot read, a full disk. *)
InstallFails(p) ==
  /\ preflight[p] \in {"fetching", "piping", "fetched", "unpacking"}
  /\ MoveTo(p, "wiping") /\ unpacking' = [unpacking EXCEPT ![p] = {}]
  /\ UNCHANGED <<disk, sentinel, engine, mishaps>>


(* One entry of the directory after the other, the sentinel among them. *)
removeModelInstall(p) ==
  /\ preflight[p] = "wiping"
  /\ \/ \E f \in File : /\ disk[f] # "absent" /\ disk' = [disk EXCEPT ![f] = "absent"]
                        /\ UNCHANGED <<sentinel, preflight>>
     \/ sentinel /\ sentinel' = FALSE /\ UNCHANGED <<disk, preflight>>
     \/ /\ ~sentinel /\ \A f \in File : disk[f] = "absent"
        /\ MoveTo(p, "idle") /\ UNCHANGED <<disk, sentinel>>
  /\ UNCHANGED <<unpacking, engine, mishaps>>

assertModelIntact(p) ==
  /\ preflight[p] = "checking"
  /\ MoveTo(p, IF verifyModelFiles THEN "importing" ELSE "wiping")
  /\ UNCHANGED <<disk, sentinel, unpacking, engine, mishaps>>

(* The native module is imported first; the recognizer then reads what is  *)
(* on disk.  The engine or the microphone may fail, and dictation ends.    *)
createSttEngine(p) ==
  /\ preflight[p] = "importing"
  /\ engine' = {disk[f] : f \in Needed}
  /\ MoveTo(p, "idle")
  /\ UNCHANGED <<disk, sentinel, unpacking, mishaps>>

-----------------------------------------------------------------------------
Mishap == mishaps < MaxMishaps /\ mishaps' = mishaps + 1

ProcessKilled(p) ==
  /\ Mishap /\ preflight[p] # "idle"
  /\ MoveTo(p, "idle") /\ unpacking' = [unpacking EXCEPT ![p] = {}]
  /\ UNCHANGED <<disk, sentinel, engine>>

Delete(f) ==
  /\ Mishap /\ disk[f] # "absent"
  /\ disk' = [disk EXCEPT ![f] = "absent"]
  /\ UNCHANGED <<sentinel, preflight, unpacking, engine>>

InstallNext ==
  /\ \/ \E p \in Process :
          \/ runPreflight(p) \/ downloadArchive(p) \/ extractArchive(p)
          \/ \E f \in members : TarWrites(p, f)
          \/ pruneFp32Duplicates(p) \/ writeSentinel(p) \/ InstallFails(p)
          \/ removeModelInstall(p) \/ assertModelIntact(p) \/ createSttEngine(p) \/ ProcessKilled(p)
     \/ \E f \in File : Delete(f)
  /\ UNCHANGED members

InstallSpec == InstallInit /\ [][InstallNext]_installVars

-----------------------------------------------------------------------------
(* A file cut short by a kill or a failure never reaches the recognizer,   *)
(* which does not survive it: neither the sentinel nor the check looks at  *)
(* more than a file's existence.                                           *)
EngineLoadsWholeFiles == "partial" \notin engine
=============================================================================
