--------------------------------- MODULE Loader ---------------------------------
(***************************************************************************)
(* loadWorkflows: the files of the user and of the project are imported    *)
(* one after the other over the built-ins, through a cache keyed by the    *)
(* time of modification.  Loads overlap (a command, a completion, a        *)
(* resume), and the files are edited meanwhile.  A helper module that a    *)
(* file imports has no entry in the cache: editing it alone is not seen.   *)
(***************************************************************************)
EXTENDS Integers, Sequences, Absence

CONSTANTS
  Overlay,    \* the files, as userOverlayPaths and projectOverlayPaths name them
  LoadOrder,  \* user packs, user config, project packs, project config
  Load,       \* calls of loadWorkflows
  MaxEdits    \* bound

ASSUME OverlayAssumption ==
  /\ LoadOrder \in Seq(Overlay) /\ None \notin Overlay
  /\ \A f \in Overlay : \E i \in 1..Len(LoadOrder) : LoadOrder[i] = f

(* A default export: does normalizeDefaultExport take it, does it replace  *)
(* the built-in workflow or add one, and which one is its default.         *)
Workflows == {"builtIn", "extra"}
Export(version) ==
  {[ok |-> TRUE, names |-> ns, default |-> d, version |-> version] :
     ns \in {{"builtIn"}, {"extra"}}, d \in {"extra", None}}
  \cup {[ok |-> FALSE, names |-> {}, default |-> None, version |-> version]}

VARIABLES
  file,   \* per overlay: its time of modification (0: no file) and content
  overlayCache,
  load,   \* the calls under way
  edits   \* the number of edits, which is the clock

loaderVars == <<file, overlayCache, load, edits>>

Absent == [mtime |-> 0, export |-> [ok |-> FALSE, names |-> {}, default |-> None, version |-> 0]]

NotLoading == [pc |-> "idle", at |-> 1, stat |-> 0, read |-> Absent,
               sources |-> [w \in Workflows |-> None], defaults |-> <<>>,
               used |-> [f \in Overlay |-> 0], since |-> [f \in Overlay |-> 0], default |-> None]

LoaderInit ==
  /\ file = [f \in Overlay |-> Absent]
  /\ overlayCache = [f \in Overlay |-> Absent]
  /\ load = [l \in Load |-> NotLoading] /\ edits = 0

-----------------------------------------------------------------------------
(* since: history, what the files are when the call begins.                *)
loadWorkflows(l) ==
  /\ load[l].pc \in {"idle", "loaded"}
  /\ load' = [load EXCEPT ![l] = [NotLoading EXCEPT
                !.pc = "layers", !.sources["builtIn"] = "built-in",
                !.since = [f \in Overlay |-> file[f].mtime]]]
  /\ UNCHANGED <<file, overlayCache, edits>>

Current(l) == LoadOrder[load[l].at]

(* mergeOverlay: last write wins; a file that does not parse adds nothing. *)
Merged(call, f, content) ==
  LET export == content.export
  IN  [call EXCEPT !.pc = "layers", !.at = @ + 1, !.used[f] = export.version,
        !.sources = [w \in Workflows |-> IF w \in export.names THEN f ELSE call.sources[w]],
        !.defaults = IF export.default = None THEN @ ELSE <<export.default>> \o @]

Skipped(call) == [call EXCEPT !.pc = "layers", !.at = @ + 1]

(* loadOverlayFile and cachedImport up to the await.                       *)
cachedImport(l) ==
  /\ load[l].pc = "layers" /\ load[l].at <= Len(LoadOrder)
  /\ LET f == Current(l) IN
       load' = [load EXCEPT ![l] =
         IF file[f].mtime = 0 THEN Skipped(@)
         ELSE IF overlayCache[f].mtime = file[f].mtime THEN Merged(@, f, overlayCache[f])
         ELSE [@ EXCEPT !.pc = "import", !.stat = file[f].mtime]]
  /\ UNCHANGED <<file, overlayCache, edits>>

(* jiti opens the file at some moment of the import.                       *)
jitiReads(l) ==
  /\ load[l].pc = "import"
  /\ load' = [load EXCEPT ![l].pc = "imported", ![l].read = file[Current(l)]]
  /\ UNCHANGED <<file, overlayCache, edits>>

(* Mutant: the time of modification is looked up once more.                *)
CachedAtEnd(l, export) == [mtime |-> file[Current(l)].mtime, export |-> export]

(* The entry: the time from before the import, what the import returned.   *)
Cached(l, export) == [mtime |-> load[l].stat, export |-> export]

(* A module that threw, or a file that is gone, is reported, not cached.   *)
importSettles(l) ==
  /\ load[l].pc = "imported"
  /\ LET f == Current(l) IN
     \/ /\ load[l].read.mtime # 0
        /\ overlayCache' = [overlayCache EXCEPT ![f] = Cached(l, load[l].read.export)]
        /\ load' = [load EXCEPT ![l] = Merged(@, f, load[l].read)]
     \/ /\ ~load[l].read.export.ok
        /\ load' = [load EXCEPT ![l] = Skipped(@)] /\ UNCHANGED overlayCache
  /\ UNCHANGED <<file, edits>>

Names(call) == {w \in Workflows : call.sources[w] # None}

(* The project's default, then the user's, then the first workflow.        *)
resolveDefault(call) ==
  LET known == {i \in 1..Len(call.defaults) : call.defaults[i] \in Names(call)}
  IN  IF known # {} THEN call.defaults[CHOOSE i \in known : \A j \in known : i <= j]
      ELSE IF Names(call) = {} THEN None ELSE CHOOSE w \in Names(call) : TRUE

loadReturns(l) ==
  /\ load[l].pc = "layers" /\ load[l].at > Len(LoadOrder)
  /\ load' = [load EXCEPT ![l] = [@ EXCEPT !.pc = "loaded", !.default = resolveDefault(load[l])]]
  /\ UNCHANGED <<file, overlayCache, edits>>

(* An edit gives the file a new time of modification; it may be removed.   *)
Edit(f) ==
  /\ edits < MaxEdits /\ edits' = edits + 1
  /\ \/ \E e \in Export(edits + 1) : file' = [file EXCEPT ![f] = [mtime |-> edits + 1, export |-> e]]
     \/ file[f].mtime # 0 /\ file' = [file EXCEPT ![f] = Absent]
  /\ UNCHANGED <<overlayCache, load>>

LoaderNext ==
  \/ \E l \in Load : \/ loadWorkflows(l) \/ cachedImport(l) \/ jitiReads(l)
                     \/ importSettles(l) \/ loadReturns(l)
  \/ \E f \in Overlay : Edit(f)

LoaderSpec == LoaderInit /\ [][LoaderNext]_loaderVars

-----------------------------------------------------------------------------
(* What a load returns is no older than the load: a file that was there    *)
(* when it began is used in that version or in a later one, whatever other *)
(* loads put into the cache meanwhile, unless it was removed or does not   *)
(* load.                                                                   *)
LoadIsFresh ==
  \A l \in Load, f \in Overlay :
    load[l].used[f] # 0 => load[l].used[f] >= load[l].since[f]
=============================================================================
