------------------------------ MODULE CloneCache ------------------------------
(***************************************************************************)
(* rpiv-web-tools: the GitHub interceptor of web_fetch.  Fetches run       *)
(* concurrently; the first one to want a repository clones it, those that  *)
(* come while the clone runs wait for it, and later ones read what it left *)
(* on disk.  A clone's directory is removed before it starts and when it   *)
(* fails.  A step ends where the code awaits.  Whatever is printed of a    *)
(* clone or of an API answer is left out, and so is reset(), which only    *)
(* tests call.                                                             *)
(***************************************************************************)
EXTENDS Integers, FiniteSets, Absence

CONSTANTS
  Fetch,    \* calls of web_fetch
  Repo,     \* what URLs name: repository and ref (cacheKey)
  ShaRepo   \* those whose ref is a full commit hash

ASSUME FetchAssumption == None \notin Fetch

VARIABLES
  fetch,     \* the calls: where each awaits, and what it was asked
  answer,    \* what the call returned
  clone,     \* the clone a call started
  cloneCache,\* for each repository, the call whose clonePromise is cached
  dir,       \* the repository's directory under clonePath
  ghAvailable

cloneVars == <<fetch, answer, clone, cloneCache, dir, ghAvailable>>

Idle == [pc |-> "idle", repo |-> None, aborted |-> FALSE, on |-> None]

CloneInit ==
  /\ fetch = [f \in Fetch |-> Idle]
  /\ answer = [f \in Fetch |-> None]
  /\ clone = [f \in Fetch |-> "none"]
  /\ cloneCache = [r \in Repo |-> None]
  /\ dir = [r \in Repo |-> "absent"]
  /\ ghAvailable = "unknown"

-----------------------------------------------------------------------------
At(f, pc) == fetch' = [fetch EXCEPT ![f].pc = pc]

Return(f, result) ==
  /\ At(f, "done")
  /\ answer' = [answer EXCEPT ![f] = result]

(* awaitCachedClone: the call waits on the promise of another. *)
awaitCachedClone(f, repo) ==
  /\ fetch' = [fetch EXCEPT ![f] = [@ EXCEPT !.pc = "waiting", !.repo = repo,
                                             !.on = cloneCache[repo]]]
  /\ UNCHANGED <<answer, clone, cloneCache, dir>>

(* The directory goes before the probe for gh is awaited; the entry is     *)
(* cached in the same step, before anyone else can look.                   *)
cloneRepo(f, repo) ==
  /\ dir' = [dir EXCEPT ![repo] = "absent"]
  /\ clone' = [clone EXCEPT ![f] = "probing"]
  /\ cloneCache' = [cloneCache EXCEPT ![repo] = f]
  /\ fetch' = [fetch EXCEPT ![f] = [@ EXCEPT !.pc = "cloning", !.repo = repo]]
  /\ UNCHANGED answer

intercept(f, repo, forceClone) ==
  /\ fetch[f].pc = "idle"
  /\ UNCHANGED ghAvailable
  /\ IF cloneCache[repo] # None THEN awaitCachedClone(f, repo)
     ELSE IF repo \notin ShaRepo /\ forceClone THEN cloneRepo(f, repo)
     ELSE /\ fetch' = [fetch EXCEPT ![f].repo = repo,
                         ![f].pc = IF repo \in ShaRepo THEN "api" ELSE "sizing"]
          /\ UNCHANGED <<answer, clone, cloneCache, dir>>

(* checkGhAvailable: the answer of the probe is kept for good. *)
Probed(available) ==
  /\ ghAvailable \in {"unknown", available}
  /\ ghAvailable' = available

SizeKnown(f, tooBig) ==
  /\ fetch[f].pc = "sizing"
  /\ \E available \in {"yes", "no"} :
       /\ Probed(available)
       /\ tooBig => available = "yes"

TooBigOrAborted(f, tooBig) ==
  /\ fetch[f].aborted \/ tooBig
  /\ IF fetch[f].aborted THEN Return(f, "null") ELSE At(f, "api") /\ UNCHANGED answer
  /\ UNCHANGED <<clone, cloneCache, dir>>

(* Mutant: the cache is not looked at again after the size is known.       *)
checkRepoSizeNoRecheck(f, tooBig) ==
  /\ SizeKnown(f, tooBig)
  /\ \/ TooBigOrAborted(f, tooBig)
     \/ ~fetch[f].aborted /\ ~tooBig /\ cloneRepo(f, fetch[f].repo)

(* Another call may have started the clone while the size was awaited. *)
checkRepoSize(f, tooBig) ==
  /\ SizeKnown(f, tooBig)
  /\ \/ TooBigOrAborted(f, tooBig)
     \/ /\ ~fetch[f].aborted /\ ~tooBig
        /\ IF cloneCache[fetch[f].repo] # None
           THEN awaitCachedClone(f, fetch[f].repo)
           ELSE cloneRepo(f, fetch[f].repo)

-----------------------------------------------------------------------------
(* execClone: a child process that fills the directory, ends at its        *)
(* timeout at the latest, and takes the directory with it when it fails.   *)
execClone(f) ==
  /\ clone[f] = "probing"
  /\ \E available \in {"yes", "no"} : Probed(available)
  /\ clone' = [clone EXCEPT ![f] = "running"]
  /\ dir' = [dir EXCEPT ![fetch[f].repo] = "partial"]
  /\ UNCHANGED <<fetch, answer, cloneCache>>

(* Mutant: a failed clone leaves its promise pending. *)
cloneSettlesOnSuccess(f, ok) ==
  /\ clone[f] = "running"
  /\ clone' = [clone EXCEPT ![f] = IF ok THEN "whole" ELSE "pending"]
  /\ dir' = [dir EXCEPT ![fetch[f].repo] = IF ok THEN "whole" ELSE "absent"]
  /\ UNCHANGED <<fetch, answer, cloneCache, ghAvailable>>

cloneSettles(f, ok) ==
  /\ clone[f] = "running"
  /\ clone' = [clone EXCEPT ![f] = IF ok THEN "whole" ELSE "failed"]
  /\ dir' = [dir EXCEPT ![fetch[f].repo] = IF ok THEN "whole" ELSE "absent"]
  /\ UNCHANGED <<fetch, answer, cloneCache, ghAvailable>>

(* The caller gives up.  A child that runs is killed: cloneSettles may say *)
(* so, or that it had just ended.  One still to be spawned runs all the    *)
(* same: its listener comes too late for the signal.                       *)
abort(f) ==
  /\ fetch[f].pc \notin {"idle", "done"} /\ ~fetch[f].aborted
  /\ fetch' = [fetch EXCEPT ![f].aborted = TRUE]
  /\ UNCHANGED <<answer, clone, cloneCache, dir, ghAvailable>>

Settled(f) == clone[f] \in {"whole", "failed"}

(* The call that cloned goes on. *)
fetchGitHub(f) ==
  /\ fetch[f].pc = "cloning" /\ Settled(f)
  /\ cloneCache' = IF clone[f] = "failed"
                   THEN [cloneCache EXCEPT ![fetch[f].repo] = None]
                   ELSE cloneCache
  /\ IF fetch[f].aborted THEN Return(f, "null")
     ELSE IF clone[f] = "failed" THEN At(f, "api") /\ UNCHANGED answer
     ELSE Return(f, "clone")
  /\ UNCHANGED <<clone, dir, ghAvailable>>

(* A call that waited for it goes on. *)
cachedCloneSettles(f) ==
  /\ fetch[f].pc = "waiting" /\ Settled(fetch[f].on)
  /\ IF fetch[f].aborted THEN Return(f, "null")
     ELSE IF clone[fetch[f].on] = "failed" THEN At(f, "api") /\ UNCHANGED answer
     ELSE Return(f, "clone")
  /\ UNCHANGED <<clone, cloneCache, dir, ghAvailable>>

(* Everything the API is asked for goes through gh; null sends web_fetch   *)
(* on to the provider's own fetch and to the generic one.                  *)
fetchViaApi(f, view) ==
  /\ fetch[f].pc = "api"
  /\ \E available \in {"yes", "no"} :
       /\ Probed(available)
       /\ view => available = "yes"
  /\ Return(f, IF view THEN "api" ELSE "null")
  /\ UNCHANGED <<clone, cloneCache, dir>>

fetchStep(f) ==
  \/ \E b \in BOOLEAN : checkRepoSize(f, b) \/ cloneSettles(f, b) \/ fetchViaApi(f, b)
  \/ execClone(f) \/ fetchGitHub(f) \/ cachedCloneSettles(f)

CloneNext ==
  \E f \in Fetch :
    \/ \E repo \in Repo, force \in BOOLEAN : intercept(f, repo, force)
    \/ abort(f)
    \/ fetchStep(f)

CloneSpec == CloneInit /\ [][CloneNext]_cloneVars

(* gh, git and the API calls all run under a timeout. *)
CloneFairness == \A f \in Fetch : WF_cloneVars(fetchStep(f))

-----------------------------------------------------------------------------
(* A call about to report a clone finds all of it on disk: nobody else     *)
(* removed the directory, or is filling it, since the clone it waited for. *)
ReportsWholeClone ==
  \A f \in Fetch :
    LET owner == IF fetch[f].pc = "cloning" THEN f ELSE fetch[f].on IN
    fetch[f].pc \in {"cloning", "waiting"} /\ clone[owner] = "whole"
      => dir[fetch[f].repo] = "whole"

(* Every fetch is answered, also when the call whose clone it waits for    *)
(* was aborted or failed.                                                  *)
FetchesAreAnswered ==
  \A f \in Fetch : [](fetch[f].pc # "idle" => <>(fetch[f].pc = "done"))
=============================================================================
