---------------------------- MODULE PackageProofs ----------------------------
(***************************************************************************)
(* Theorems about the components that MCPackages explores, each about one  *)
(* component for every value of its constants.                             *)
(***************************************************************************)
EXTENDS AgentSync, TaskList, SessionHooks, Validation, Loader, Questionnaire,
        ModelInstall, Warp, Btw, Leftovers, Advisor, TLAPS, SequenceTheorems,
        FiniteSetTheorems

-----------------------------------------------------------------------------
(* Loader.  Whatever overlaps and whoever edits, loadWorkflows never       *)
(* returns a file older than the call.  The entry of the cache is the one  *)
(* thing that calls share; it may name a time of modification older than   *)
(* its content, since the time is taken before the import, and never a     *)
(* newer one.                                                              *)

Exported == [ok : BOOLEAN, names : SUBSET Workflows, default : {"extra", None}, version : Nat]
Content == [mtime : Nat, export : Exported]

LoadFields == {"pc", "at", "stat", "read", "sources", "defaults", "used", "since", "default"}

CallOK(c) ==
  /\ DOMAIN c = LoadFields
  /\ c.at \in Nat \ {0} /\ c.stat \in Nat /\ c.read \in Content
  /\ c.used \in [Overlay -> Nat] /\ c.since \in [Overlay -> Nat]

LoaderTypes ==
  /\ file \in [Overlay -> Content] /\ overlayCache \in [Overlay -> Content] /\ edits \in Nat
  /\ DOMAIN load = Load
  /\ \A l \in Load : CallOK(load[l])

(* A file is as old as its last edit. *)
Dated == \A f \in Overlay : file[f].mtime <= edits /\ file[f].export.version = file[f].mtime

(* The content of an entry is not older than the time it goes by. *)
Honest == \A f \in Overlay : overlayCache[f].mtime <= overlayCache[f].export.version

(* No file is older than it was when the call began. *)
NoOlder(f, then) == file[f].mtime = 0 \/ then <= file[f].mtime

Since == \A l \in Load, f \in Overlay : load[l].since[f] <= edits /\ NoOlder(f, load[l].since[f])

Importing(c) == c.pc \in {"import", "imported"}

Imports ==
  \A l \in Load :
    Importing(load[l]) =>
      /\ load[l].at <= Len(LoadOrder)
      /\ load[l].stat <= edits /\ NoOlder(Current(l), load[l].stat)
      /\ load[l].pc = "imported" =>
           /\ load[l].read.export.version = load[l].read.mtime
           /\ load[l].read.mtime # 0 =>
                /\ load[l].stat <= load[l].read.mtime
                /\ load[l].since[Current(l)] <= load[l].read.mtime

LoaderInv == LoaderTypes /\ Dated /\ Honest /\ Since /\ Imports /\ LoadIsFresh

-----------------------------------------------------------------------------
LEMMA CurrentIsOverlay ==
  ASSUME NEW l \in Load, LoaderTypes, load[l].at <= Len(LoadOrder)
  PROVE  Current(l) \in Overlay
<1>1. load[l].at \in 1..Len(LoadOrder)
  BY DEF LoaderTypes, CallOK
<1> QED
  BY <1>1, OverlayAssumption DEF Current

LEMMA ExportsAreTyped ==
  ASSUME NEW version \in Nat, NEW e \in Export(version)
  PROVE  e \in Exported /\ e.version = version
<1>1. \/ \E ns \in {{"builtIn"}, {"extra"}}, d \in {"extra", None} :
            e = [ok |-> TRUE, names |-> ns, default |-> d, version |-> version]
      \/ e = [ok |-> FALSE, names |-> {}, default |-> None, version |-> version]
  BY DEF Export
<1>2. ASSUME NEW ns \in SUBSET Workflows, NEW d \in {"extra", None}, NEW ok \in BOOLEAN,
             e = [ok |-> ok, names |-> ns, default |-> d, version |-> version]
      PROVE  e \in Exported /\ e.version = version
  BY <1>2 DEF Exported
<1>3. {"builtIn"} \in SUBSET Workflows /\ {"extra"} \in SUBSET Workflows /\ {} \in SUBSET Workflows
  BY DEF Workflows
<1> QED
  BY <1>1, <1>2, <1>3

(* What merging one file, or passing over it, does to a call.              *)
LEMMA MergedCall ==
  ASSUME NEW c, CallOK(c), NEW f \in Overlay, NEW content \in Content
  PROVE  LET merged == Merged(c, f, content) IN
           /\ CallOK(merged) /\ merged.pc = "layers" /\ merged.since = c.since
           /\ merged.used = [c.used EXCEPT ![f] = content.export.version]
BY DEF CallOK, LoadFields, Merged, Content, Exported

LEMMA SkippedCall ==
  ASSUME NEW c, CallOK(c)
  PROVE  LET skipped == Skipped(c) IN
           /\ CallOK(skipped) /\ skipped.pc = "layers"
           /\ skipped.since = c.since /\ skipped.used = c.used
BY DEF CallOK, LoadFields, Skipped

-----------------------------------------------------------------------------
LEMMA LoaderInitInv == LoaderInit => LoaderInv
<1> SUFFICES ASSUME LoaderInit PROVE LoaderInv
  OBVIOUS
<1>1. Absent \in Content /\ Absent.mtime = 0 /\ Absent.export.version = 0
  BY DEF Absent, Content, Exported, Workflows
<1>2. CallOK(NotLoading) /\ NotLoading.pc = "idle"
  BY <1>1 DEF NotLoading, CallOK, LoadFields
<1>3. \A f \in Overlay : NotLoading.used[f] = 0 /\ NotLoading.since[f] = 0
  BY DEF NotLoading
<1> QED
  BY <1>1, <1>2, <1>3
     DEF LoaderInit, LoaderInv, LoaderTypes, Dated, Honest, Since, NoOlder, Imports, Importing, LoadIsFresh

(* A step of one call that leaves the files and the clock alone keeps the  *)
(* invariant if it keeps it for that call and the cache honest.            *)
LEMMA OneCall ==
  ASSUME LoaderInv, NEW l \in Load, NEW c, CallOK(c),
         UNCHANGED <<file, edits>>, load' = [load EXCEPT ![l] = c],
         overlayCache' \in [Overlay -> Content], Honest',
         \A f \in Overlay : c.since[f] <= edits /\ NoOlder(f, c.since[f]),
         \A f \in Overlay : c.used[f] # 0 => c.used[f] >= c.since[f],
         Importing(c) =>
           /\ c.at <= Len(LoadOrder)
           /\ c.stat <= edits /\ NoOlder(LoadOrder[c.at], c.stat)
           /\ c.pc = "imported" =>
                /\ c.read.export.version = c.read.mtime
                /\ c.read.mtime # 0 =>
                     /\ c.stat <= c.read.mtime
                     /\ c.since[LoadOrder[c.at]] <= c.read.mtime
  PROVE  LoaderInv'
<1>1. load'[l] = c /\ DOMAIN load' = Load /\ \A k \in Load \ {l} : load'[k] = load[k]
  BY DEF LoaderInv, LoaderTypes
<1>2. LoaderTypes'
  BY <1>1 DEF LoaderInv, LoaderTypes, CallOK
<1>3. Dated'
  BY DEF LoaderInv, Dated
<1>4. Since'
  BY <1>1 DEF LoaderInv, Since, NoOlder
<1>5. Imports'
  <2> SUFFICES ASSUME NEW k \in Load, Importing(load'[k])
               PROVE  /\ load'[k].at <= Len(LoadOrder)
                      /\ load'[k].stat <= edits /\ NoOlder(LoadOrder[load'[k].at], load'[k].stat)
                      /\ load'[k].pc = "imported" =>
                           /\ load'[k].read.export.version = load'[k].read.mtime
                           /\ load'[k].read.mtime # 0 =>
                                /\ load'[k].stat <= load'[k].read.mtime
                                /\ load'[k].since[LoadOrder[load'[k].at]] <= load'[k].read.mtime
    BY DEF Imports, Importing, NoOlder, Current
  <2>1. CASE k = l
    BY <2>1, <1>1
  <2>2. CASE k # l
    BY <2>2, <1>1 DEF LoaderInv, Imports, Current
  <2> QED
    BY <2>1, <2>2
<1>6. LoadIsFresh'
  BY <1>1 DEF LoaderInv, LoadIsFresh
<1> QED
  BY <1>2, <1>3, <1>4, <1>5, <1>6 DEF LoaderInv

LEMMA LoaderStep == LoaderInv /\ [LoaderNext]_loaderVars => LoaderInv'
<1> SUFFICES ASSUME LoaderInv, [LoaderNext]_loaderVars PROVE LoaderInv'
  OBVIOUS
<1>typed. LoaderTypes /\ Dated /\ Honest /\ Since /\ Imports /\ LoadIsFresh
  BY DEF LoaderInv
<1>1. ASSUME NEW l \in Load, loadWorkflows(l) PROVE LoaderInv'
  <2> DEFINE c == [NotLoading EXCEPT !.pc = "layers", !.sources["builtIn"] = "built-in",
                                        !.since = [f \in Overlay |-> file[f].mtime]]
  <2>1. /\ CallOK(c) /\ ~Importing(c)
        /\ \A f \in Overlay : c.since[f] = file[f].mtime /\ c.used[f] = 0
    <3>1. Absent \in Content
      BY DEF Absent, Content, Exported, Workflows
    <3> QED
      BY <1>typed, <3>1 DEF LoaderTypes, Content, NotLoading, CallOK, LoadFields, Importing
  <2>2. load' = [load EXCEPT ![l] = c] /\ UNCHANGED <<file, overlayCache, edits>>
    BY <1>1 DEF loadWorkflows
  <2>3. \A f \in Overlay : c.since[f] <= edits /\ NoOlder(f, c.since[f])
    BY <1>typed, <2>1 DEF LoaderTypes, Content, Dated, NoOlder
  <2>4. overlayCache' \in [Overlay -> Content] /\ Honest'
    BY <1>typed, <2>2 DEF LoaderTypes, Honest
  <2> HIDE DEF c
  <2> QED
    BY <2>1, <2>2, <2>3, <2>4, OneCall
<1>2. ASSUME NEW l \in Load, cachedImport(l) PROVE LoaderInv'
  <2> DEFINE f == Current(l)
             skipped == Skipped(load[l])
             merged == Merged(load[l], f, overlayCache[f])
             importing == [load[l] EXCEPT !.pc = "import", !.stat = file[f].mtime]
  <2>1. f \in Overlay /\ CallOK(load[l]) /\ load[l].at <= Len(LoadOrder)
    BY <1>typed, <1>2, CurrentIsOverlay DEF cachedImport, LoaderTypes
  <2>2. UNCHANGED <<file, edits>> /\ overlayCache' \in [Overlay -> Content] /\ Honest'
    BY <1>typed, <1>2 DEF cachedImport, LoaderTypes, Honest
  <2>3. \/ load' = [load EXCEPT ![l] = skipped]
        \/ overlayCache[f].mtime = file[f].mtime /\ file[f].mtime # 0
             /\ load' = [load EXCEPT ![l] = merged]
        \/ file[f].mtime # 0 /\ load' = [load EXCEPT ![l] = importing]
    BY <1>2, <1>typed DEF cachedImport, LoaderTypes
  <2>4. \A g \in Overlay : /\ load[l].since[g] <= edits /\ NoOlder(g, load[l].since[g])
                           /\ load[l].used[g] # 0 => load[l].used[g] >= load[l].since[g]
    BY <1>typed DEF Since, LoadIsFresh
  <2>5. CASE load' = [load EXCEPT ![l] = skipped]
    <3>1. /\ CallOK(skipped) /\ skipped.pc = "layers"
          /\ skipped.since = load[l].since /\ skipped.used = load[l].used
      BY <2>1, SkippedCall
    <3> HIDE DEF skipped
    <3> QED
      BY <2>2, <2>4, <2>5, <3>1, OneCall DEF Importing
  <2>6. CASE overlayCache[f].mtime = file[f].mtime /\ file[f].mtime # 0
               /\ load' = [load EXCEPT ![l] = merged]
    <3>1. overlayCache[f] \in Content
      BY <1>typed, <2>1 DEF LoaderTypes
    <3>2. /\ CallOK(merged) /\ merged.pc = "layers" /\ merged.since = load[l].since
          /\ merged.used = [load[l].used EXCEPT ![f] = overlayCache[f].export.version]
      BY <2>1, <3>1, MergedCall
    <3>3. load[l].since[f] <= overlayCache[f].export.version
      <4>1. load[l].since[f] <= overlayCache[f].mtime
        BY <2>1, <2>4, <2>6 DEF NoOlder
      <4>2. overlayCache[f].mtime <= overlayCache[f].export.version
        BY <2>1, <1>typed DEF Honest
      <4> QED
        BY <2>1, <3>1, <4>1, <4>2 DEF CallOK, Content, Exported
    <3>4. \A g \in Overlay : merged.used[g] # 0 => merged.used[g] >= merged.since[g]
      BY <2>1, <2>4, <3>1, <3>2, <3>3 DEF CallOK, Content, Exported
    <3> HIDE DEF merged
    <3> QED
      BY <2>2, <2>4, <2>6, <3>2, <3>4, OneCall DEF Importing
  <2>7. CASE file[f].mtime # 0 /\ load' = [load EXCEPT ![l] = importing]
    <3>1. /\ CallOK(importing) /\ importing.pc = "import" /\ importing.at = load[l].at
          /\ importing.since = load[l].since /\ importing.used = load[l].used
          /\ importing.stat = file[f].mtime
      BY <2>1, <1>typed DEF CallOK, LoadFields, LoaderTypes, Content
    <3>2. importing.stat <= edits /\ NoOlder(LoadOrder[importing.at], importing.stat)
      BY <2>1, <3>1, <1>typed DEF Dated, NoOlder, Current, LoaderTypes, Content
    <3> HIDE DEF importing
    <3> QED
      BY <2>1, <2>2, <2>4, <2>7, <3>1, <3>2, OneCall DEF Importing
  <2> QED
    BY <2>3, <2>5, <2>6, <2>7
<1>3. ASSUME NEW l \in Load, jitiReads(l) PROVE LoaderInv'
  <2> DEFINE f == Current(l)
             c == [load[l] EXCEPT !.pc = "imported", !.read = file[f]]
  <2>1. load[l].pc = "import" /\ Importing(load[l]) /\ load[l].at <= Len(LoadOrder)
    BY <1>typed, <1>3 DEF jitiReads, Imports, Importing
  <2>2. f \in Overlay /\ CallOK(load[l]) /\ file[f] \in Content
    BY <1>typed, <2>1, CurrentIsOverlay DEF LoaderTypes
  <2>3. load' = [load EXCEPT ![l] = c] /\ UNCHANGED <<file, overlayCache, edits>>
    BY <1>3, <1>typed, <2>2 DEF jitiReads, LoaderTypes, CallOK, LoadFields
  <2>4. /\ CallOK(c) /\ c.pc = "imported" /\ c.read = file[f] /\ c.at = load[l].at
        /\ c.stat = load[l].stat /\ c.since = load[l].since /\ c.used = load[l].used
    BY <2>2 DEF CallOK, LoadFields
  <2>5. \A g \in Overlay : /\ c.since[g] <= edits /\ NoOlder(g, c.since[g])
                           /\ c.used[g] # 0 => c.used[g] >= c.since[g]
    BY <1>typed, <2>4 DEF Since, LoadIsFresh
  <2>6. /\ c.stat <= edits /\ NoOlder(f, c.stat) /\ f = LoadOrder[c.at]
        /\ c.read.export.version = c.read.mtime
        /\ c.read.mtime # 0 =>
             c.stat <= c.read.mtime /\ c.since[f] <= c.read.mtime
    BY <1>typed, <2>1, <2>2, <2>4, <2>5 DEF Imports, Dated, NoOlder, Current
  <2>7. overlayCache' \in [Overlay -> Content] /\ Honest'
    BY <1>typed, <2>3 DEF LoaderTypes, Honest
  <2> HIDE DEF c
  <2> QED
    BY <2>1, <2>3, <2>4, <2>5, <2>6, <2>7, OneCall
<1>4. ASSUME NEW l \in Load, importSettles(l) PROVE LoaderInv'
  <2> DEFINE f == Current(l)
             merged == Merged(load[l], f, load[l].read)
             skipped == Skipped(load[l])
  <2>1. load[l].pc = "imported" /\ Importing(load[l]) /\ load[l].at <= Len(LoadOrder)
    BY <1>typed, <1>4 DEF importSettles, Imports, Importing
  <2>2. f \in Overlay /\ CallOK(load[l]) /\ load[l].read \in Content
    BY <1>typed, <2>1, CurrentIsOverlay DEF LoaderTypes, CallOK
  <2>3. \A g \in Overlay : /\ load[l].since[g] <= edits /\ NoOlder(g, load[l].since[g])
                           /\ load[l].used[g] # 0 => load[l].used[g] >= load[l].since[g]
    BY <1>typed DEF Since, LoadIsFresh
  <2>4. UNCHANGED <<file, edits>>
    BY <1>4 DEF importSettles
  <2>5. CASE /\ load[l].read.mtime # 0
             /\ overlayCache' = [overlayCache EXCEPT ![f] = Cached(l, load[l].read.export)]
             /\ load' = [load EXCEPT ![l] = merged]
    <3>1. /\ load[l].read.export.version = load[l].read.mtime
          /\ load[l].stat <= load[l].read.mtime /\ load[l].since[f] <= load[l].read.mtime
      BY <1>typed, <2>1, <2>5 DEF Imports
    <3>2. /\ Cached(l, load[l].read.export) \in Content
          /\ Cached(l, load[l].read.export).mtime <= Cached(l, load[l].read.export).export.version
      BY <2>2, <3>1 DEF Cached, Content, CallOK
    <3>3. overlayCache' \in [Overlay -> Content] /\ Honest'
      BY <1>typed, <2>2, <2>5, <3>2 DEF LoaderTypes, Honest
    <3>4. /\ CallOK(merged) /\ merged.pc = "layers" /\ merged.since = load[l].since
          /\ merged.used = [load[l].used EXCEPT ![f] = load[l].read.export.version]
      BY <2>2, MergedCall
    <3>5. \A g \in Overlay : merged.used[g] # 0 => merged.used[g] >= merged.since[g]
      BY <2>2, <2>3, <3>1, <3>4 DEF CallOK, Content, Exported
    <3> HIDE DEF merged
    <3> QED
      BY <2>3, <2>4, <2>5, <3>3, <3>4, <3>5, OneCall DEF Importing
  <2>6. CASE load' = [load EXCEPT ![l] = skipped] /\ UNCHANGED overlayCache
    <3>1. /\ CallOK(skipped) /\ skipped.pc = "layers"
          /\ skipped.since = load[l].since /\ skipped.used = load[l].used
      BY <2>2, SkippedCall
    <3>2. overlayCache' \in [Overlay -> Content] /\ Honest'
      BY <1>typed, <2>6 DEF LoaderTypes, Honest
    <3> HIDE DEF skipped
    <3> QED
      BY <2>3, <2>4, <2>6, <3>1, <3>2, OneCall DEF Importing
  <2> QED
    BY <1>4, <1>typed, <2>5, <2>6 DEF importSettles, LoaderTypes
<1>5. ASSUME NEW l \in Load, loadReturns(l) PROVE LoaderInv'
  <2> DEFINE c == [load[l] EXCEPT !.pc = "loaded", !.default = resolveDefault(load[l])]
  <2>1. CallOK(load[l])
    BY <1>typed DEF LoaderTypes
  <2>2. /\ CallOK(c) /\ ~Importing(c)
        /\ c.since = load[l].since /\ c.used = load[l].used
    BY <2>1 DEF CallOK, LoadFields, Importing
  <2>3. load' = [load EXCEPT ![l] = c] /\ UNCHANGED <<file, overlayCache, edits>>
    BY <1>5, <1>typed DEF loadReturns, LoaderTypes
  <2>4. \A f \in Overlay : /\ c.since[f] <= edits /\ NoOlder(f, c.since[f])
                           /\ c.used[f] # 0 => c.used[f] >= c.since[f]
    BY <1>typed, <2>2 DEF Since, LoadIsFresh
  <2>5. overlayCache' \in [Overlay -> Content] /\ Honest'
    BY <1>typed, <2>3 DEF LoaderTypes, Honest
  <2> HIDE DEF c
  <2> QED
    BY <2>2, <2>3, <2>4, <2>5, OneCall
<1>6. ASSUME NEW f \in Overlay, Edit(f) PROVE LoaderInv'
  <2>1. edits' = edits + 1 /\ edits \in Nat /\ UNCHANGED <<overlayCache, load>>
    BY <1>typed, <1>6 DEF Edit, LoaderTypes
  <2>2. PICK content \in Content : /\ file' = [file EXCEPT ![f] = content]
                                   /\ content.export.version = content.mtime
                                   /\ content.mtime \in {0, edits + 1}
    <3>1. CASE file' = [file EXCEPT ![f] = Absent]
      <4>1. Absent \in Content /\ Absent.export.version = Absent.mtime /\ Absent.mtime = 0
        BY DEF Absent, Content, Exported, Workflows
      <4> QED
        BY <3>1, <4>1
    <3>2. CASE \E e \in Export(edits + 1) :
                 file' = [file EXCEPT ![f] = [mtime |-> edits + 1, export |-> e]]
      <4>1. PICK e \in Export(edits + 1) :
               file' = [file EXCEPT ![f] = [mtime |-> edits + 1, export |-> e]]
        BY <3>2
      <4>2. e \in Exported /\ e.version = edits + 1
        BY <2>1, ExportsAreTyped
      <4>3. [mtime |-> edits + 1, export |-> e] \in Content
        BY <2>1, <4>2 DEF Content
      <4> QED
        BY <2>1, <4>1, <4>2, <4>3
    <3> QED
      BY <1>6, <3>1, <3>2 DEF Edit
  <2>3. /\ file' \in [Overlay -> Content] /\ file'[f] = content
        /\ \A g \in Overlay \ {f} : file'[g] = file[g]
    BY <1>typed, <2>2 DEF LoaderTypes
  <2>4. LoaderTypes' /\ Honest' /\ LoadIsFresh'
    BY <1>typed, <2>1, <2>3 DEF LoaderTypes, Honest, LoadIsFresh
  <2>5. Dated'
    BY <1>typed, <2>1, <2>2, <2>3 DEF LoaderTypes, Dated, Content
  <2>6. ASSUME NEW g \in Overlay, NEW then \in Nat, then <= edits, NoOlder(g, then)
        PROVE  NoOlder(g, then)'
    BY <2>1, <2>2, <2>3, <2>6 DEF NoOlder
  <2>7. Since'
    BY <1>typed, <2>1, <2>6 DEF Since, LoaderTypes, CallOK
  <2>8. Imports'
    <3> SUFFICES ASSUME NEW l \in Load, Importing(load[l])
                 PROVE  load[l].stat <= edits + 1 /\ NoOlder(Current(l), load[l].stat)'
      BY <1>typed, <2>1 DEF Imports, Importing, Current
    <3>1. /\ load[l].at <= Len(LoadOrder) /\ load[l].stat <= edits
          /\ NoOlder(Current(l), load[l].stat) /\ load[l].stat \in Nat
      BY <1>typed DEF Imports, LoaderTypes, CallOK
    <3>2. Current(l) \in Overlay /\ Current(l)' = Current(l)
      BY <1>typed, <2>1, <3>1, CurrentIsOverlay DEF Current
    <3> QED
      BY <2>1, <2>6, <3>1, <3>2 DEF NoOlder
  <2> QED
    BY <2>4, <2>5, <2>7, <2>8 DEF LoaderInv
<1>7. CASE UNCHANGED loaderVars
  BY <1>7 DEF loaderVars, LoaderInv, LoaderTypes, Dated, Honest, Since, NoOlder, Imports, Importing, Current,
             LoadIsFresh
<1> QED
  BY <1>1, <1>2, <1>3, <1>4, <1>5, <1>6, <1>7 DEF LoaderNext

-----------------------------------------------------------------------------
(* No load returns a version of a file older than the one that was there   *)
(* when it began (load/cache.ts:28-35), for any number of files, of edits  *)
(* and of loads under way.                                                 *)
THEOREM LoadsAreFresh == LoaderSpec => []LoadIsFresh
<1>1. LoaderInit => LoaderInv
  BY LoaderInitInv
<1>2. LoaderInv /\ [LoaderNext]_loaderVars => LoaderInv'
  BY LoaderStep
<1>3. LoaderInv => LoadIsFresh
  BY DEF LoaderInv
<1> QED
  BY <1>1, <1>2, <1>3, PTL DEF LoaderSpec

-----------------------------------------------------------------------------
(* AgentSync.  A user's edit of an installed agent survives every sync.    *)
(* Two facts carry it: no manifest ever holds the hash of what a user      *)
(* wrote, and a sync that began after the marker was there knows that it   *)
(* was, so it takes an unknown hash for a reason to leave the file alone.  *)

Hash == Version \cup {None, Unknown}

SyncSteps == {"idle", "copy", "manifest", "marker", "unlink", "killed"}

Sync == [pc : SyncSteps, apply : BOOLEAN, hasV2 : BOOLEAN, left : SUBSET AgentFile,
         known : [AgentFile -> Hash], new : [AgentFile -> Hash],
         unlink : SUBSET AgentFile, failed : SUBSET AgentFile]

AgentTypes ==
  /\ bundle \in [AgentFile -> Version \cup {None}]
  /\ installed \in [AgentFile -> Version \cup {Mine, None}]
  /\ manifest \in [AgentFile -> Hash]
  /\ v2Marker \in BOOLEAN
  /\ sync \in Sync

Edited(a) == <<a, TRUE>> \in userEdits

(* The sync under way is not by force, knows the marker and spares a.      *)
Spared(a) == sync.hasV2 /\ ~sync.apply /\ a \notin sync.unlink

EditsKept ==
  \A a \in AgentFile :
    Edited(a) => installed[a] = Mine /\ v2Marker /\ (~AtRest => Spared(a))

AgentInv == AgentTypes /\ EditsKept

-----------------------------------------------------------------------------
LEMMA HashFacts ==
  /\ Version \subseteq Nat /\ 1 \in Version
  /\ Mine \notin Hash /\ Mine # None /\ None \notin Version
BY AgentAssumption DEF Version, Hash, Mine, Unknown

LEMMA AgentInitInv == AgentInit => AgentInv
<1> SUFFICES ASSUME AgentInit PROVE AgentInv
  OBVIOUS
<1>1. NoFile \in [AgentFile -> Hash] /\ NoFile \in [AgentFile -> Version \cup {Mine, None}]
  BY DEF NoFile, Hash
<1>2. bundle \in [AgentFile -> Version \cup {None}]
  BY HashFacts DEF AgentInit
<1>3. manifest \in [AgentFile -> Hash] /\ installed \in [AgentFile -> Version \cup {Mine, None}]
  BY <1>1, HashFacts DEF AgentInit, Hash
<1>4. sync \in Sync
  BY <1>1 DEF AgentInit, NoSync, Sync, SyncSteps
<1> QED
  BY <1>2, <1>3, <1>4 DEF AgentInit, AgentInv, AgentTypes, EditsKept, Edited

(* A file the user edited is none that a sync may touch.                   *)
LEMMA EditedIsKept ==
  ASSUME AgentInv, NEW a \in AgentFile, Edited(a), ~AtRest
  PROVE  installed[a] = Mine /\ installed[a] # None /\ ~MayOverwrite(a)
<1>1. installed[a] = Mine /\ sync.hasV2 /\ ~sync.apply
  BY DEF AgentInv, EditsKept, Spared
<1>2. KnownHash(a) \in Hash
  BY DEF AgentInv, AgentTypes, Sync, KnownHash, Hash
<1> QED
  BY <1>1, <1>2, HashFacts DEF MayOverwrite, isSafeDestructiveOp

LEMMA KnownIsHash ==
  ASSUME AgentTypes, NEW a \in AgentFile
  PROVE  KnownHash(a) \in Hash
BY DEF AgentTypes, Sync, KnownHash, Hash

(* A step of a sync that touches none of the files the user edited, and    *)
(* spares what was spared.                                                 *)
LEMMA Untouched ==
  ASSUME AgentInv, ~AtRest, AgentTypes', UNCHANGED userEdits, v2Marker => v2Marker',
         \A a \in AgentFile : Edited(a) => installed'[a] = installed[a],
         sync'.hasV2 = sync.hasV2 /\ sync'.apply = sync.apply,
         \A a \in AgentFile : a \in sync'.unlink /\ Edited(a) => a \in sync.unlink
  PROVE  AgentInv'
BY DEF AgentInv, EditsKept, Edited, Spared, AtRest

LEMMA AgentStep == AgentInv /\ [AgentNext]_agentVars => AgentInv'
<1> SUFFICES ASSUME AgentInv, [AgentNext]_agentVars PROVE AgentInv'
  OBVIOUS
<1>typed. AgentTypes /\ EditsKept
  BY DEF AgentInv
<1>1. ASSUME NEW force \in BOOLEAN, syncBundledAgents(force) PROVE AgentInv'
  <2>1. /\ sync' = [NoSync EXCEPT !.pc = "copy", !.apply = force, !.hasV2 = v2Marker,
                                  !.left = {a \in AgentFile : bundle[a] # None}, !.known = manifest]
        /\ userEdits' = (IF force THEN {} ELSE userEdits)
        /\ UNCHANGED <<bundle, installed, manifest, v2Marker>>
    BY <1>1 DEF syncBundledAgents, hasV2Marker
  <2>2. NoFile \in [AgentFile -> Hash]
    BY DEF NoFile, Hash
  <2>3. /\ sync' \in Sync /\ sync'.hasV2 = v2Marker /\ sync'.apply = force /\ sync'.unlink = {}
    BY <1>typed, <2>1, <2>2 DEF AgentTypes, NoSync, Sync, SyncSteps
  <2>4. AgentTypes'
    BY <1>typed, <2>1, <2>3 DEF AgentTypes
  <2>5. EditsKept'
    BY <1>typed, <2>1, <2>3 DEF EditsKept, Edited, Spared
  <2> QED
    BY <2>4, <2>5 DEF AgentInv
<1>2. ASSUME NEW a \in AgentFile, processSourceEntry(a) PROVE AgentInv'
  <2>1. /\ sync.pc = "copy" /\ ~AtRest /\ a \in sync.left
        /\ UNCHANGED <<bundle, manifest, v2Marker, userEdits>>
    BY <1>2 DEF processSourceEntry, AtRest
  <2>2. PICK hash \in {bundle[a], KnownHash(a)} : Record(a, hash)
    BY <1>2 DEF processSourceEntry
  <2>3. \/ UNCHANGED installed
        \/ /\ installed' = [installed EXCEPT ![a] = bundle[a]]
           /\ installed[a] = None \/ MayOverwrite(a)
    BY <1>2 DEF processSourceEntry
  <2>4. hash \in Hash
    BY <1>typed, <2>2, KnownIsHash DEF AgentTypes, Hash
  <2>5. sync' \in Sync /\ sync'.hasV2 = sync.hasV2 /\ sync'.apply = sync.apply
        /\ sync'.unlink = sync.unlink
    BY <1>typed, <2>2, <2>4 DEF Record, AgentTypes, Sync, SyncSteps
  <2>6. installed' \in [AgentFile -> Version \cup {Mine, None}]
    BY <1>typed, <2>3 DEF AgentTypes
  <2>7. AgentTypes'
    BY <1>typed, <2>1, <2>5, <2>6 DEF AgentTypes
  <2>8. \A b \in AgentFile : Edited(b) => installed'[b] = installed[b]
    BY <1>typed, <2>1, <2>3, EditedIsKept DEF AgentTypes
  <2> QED
    BY <2>1, <2>5, <2>7, <2>8, Untouched
<1>3. ASSUME classifyStaleEntries PROVE AgentInv'
  <2> DEFINE stale == {a \in AgentFile :
                         sync.known[a] # None /\ bundle[a] = None /\ installed[a] # None}
             unlink == {a \in stale : MayOverwrite(a)}
             new == [a \in AgentFile |-> IF a \in stale \ unlink THEN sync.known[a]
                                         ELSE sync.new[a]]
  <2>1. /\ sync.pc = "copy" /\ ~AtRest
        /\ sync' = [sync EXCEPT !.pc = "manifest", !.unlink = unlink, !.new = new]
        /\ UNCHANGED <<bundle, installed, manifest, v2Marker, userEdits>>
    BY <1>3 DEF classifyStaleEntries, AtRest
  <2>2. unlink \subseteq AgentFile /\ new \in [AgentFile -> Hash]
    BY <1>typed DEF AgentTypes, Sync, SyncSteps
  <2>3. \A a \in unlink : ~Edited(a)
    BY <2>1, EditedIsKept
  <2> HIDE DEF unlink, new
  <2>4. /\ sync' \in Sync /\ sync'.hasV2 = sync.hasV2 /\ sync'.apply = sync.apply
        /\ sync'.unlink = unlink
    BY <1>typed, <2>1, <2>2 DEF AgentTypes, Sync, SyncSteps
  <2>5. AgentTypes'
    BY <1>typed, <2>1, <2>4 DEF AgentTypes
  <2> QED
    BY <2>1, <2>3, <2>4, <2>5, Untouched
<1>4. ASSUME writeManifest PROVE AgentInv'
  <2>1. /\ ~AtRest /\ UNCHANGED <<bundle, installed, v2Marker, userEdits>>
        /\ manifest' \in {manifest, sync.new}
        /\ \E pc \in {"unlink", "marker"} : sync' = [sync EXCEPT !.pc = pc]
    BY <1>4 DEF writeManifest, AtRest, Go
  <2>2. /\ sync' \in Sync /\ sync'.hasV2 = sync.hasV2 /\ sync'.apply = sync.apply
        /\ sync'.unlink = sync.unlink /\ manifest' \in [AgentFile -> Hash]
    BY <1>typed, <2>1 DEF AgentTypes, Sync, SyncSteps
  <2>3. AgentTypes'
    BY <1>typed, <2>1, <2>2 DEF AgentTypes
  <2> QED
    BY <2>1, <2>2, <2>3, Untouched
<1>5. ASSUME writeV2Marker PROVE AgentInv'
  <2>1. /\ ~AtRest /\ UNCHANGED <<bundle, installed, manifest, userEdits>>
        /\ v2Marker' \in {v2Marker, TRUE} /\ sync' = [sync EXCEPT !.pc = "unlink"]
    BY <1>5 DEF writeV2Marker, AtRest, Go
  <2>2. /\ sync' \in Sync /\ sync'.hasV2 = sync.hasV2 /\ sync'.apply = sync.apply
        /\ sync'.unlink = sync.unlink
    BY <1>typed, <2>1 DEF AgentTypes, Sync, SyncSteps
  <2>3. v2Marker' \in BOOLEAN /\ (v2Marker => v2Marker')
    <3>1. v2Marker' = v2Marker \/ v2Marker' = TRUE
      BY <2>1
    <3>2. CASE v2Marker' = v2Marker
      BY <1>typed, <3>2 DEF AgentTypes
    <3>3. CASE v2Marker' = TRUE
      BY <3>3
    <3> QED
      BY <3>1, <3>2, <3>3
  <2>4. AgentTypes'
    BY <1>typed, <2>1, <2>2, <2>3 DEF AgentTypes
  <2> QED
    BY <2>1, <2>2, <2>3, <2>4, Untouched
<1>6. ASSUME NEW a \in AgentFile, commitStaleUnlink(a) PROVE AgentInv'
  <2>1. /\ ~AtRest /\ a \in sync.unlink /\ UNCHANGED <<bundle, manifest, v2Marker, userEdits>>
    BY <1>6 DEF commitStaleUnlink, AtRest
  <2>2. ~Edited(a)
    BY <1>typed, <2>1 DEF EditsKept, Spared
  <2>3. /\ installed' \in [AgentFile -> Version \cup {Mine, None}]
        /\ \A b \in AgentFile \ {a} : installed'[b] = installed[b]
    BY <1>typed, <1>6 DEF commitStaleUnlink, AgentTypes
  <2>4. /\ sync' \in Sync /\ sync'.hasV2 = sync.hasV2 /\ sync'.apply = sync.apply
        /\ sync'.unlink \subseteq sync.unlink
    <3>1. \/ sync' = [sync EXCEPT !.unlink = @ \ {a}]
          \/ sync' = [sync EXCEPT !.failed = @ \cup {a}, !.new[a] = sync.known[a]]
      BY <1>6 DEF commitStaleUnlink
    <3>2. sync.known[a] \in Hash /\ a \in AgentFile
      BY <1>typed DEF AgentTypes, Sync
    <3>3. CASE sync' = [sync EXCEPT !.unlink = @ \ {a}]
      BY <1>typed, <3>3 DEF AgentTypes, Sync
    <3>4. CASE sync' = [sync EXCEPT !.failed = @ \cup {a}, !.new[a] = sync.known[a]]
      <4> DEFINE new == [sync.new EXCEPT ![a] = sync.known[a]]
                 failed == sync.failed \cup {a}
      <4>1. new \in [AgentFile -> Hash] /\ failed \in SUBSET AgentFile
        BY <1>typed, <3>2 DEF AgentTypes, Sync
      <4>2. sync' = [sync EXCEPT !.failed = failed, !.new = new]
        BY <1>typed, <3>4 DEF AgentTypes, Sync
      <4> HIDE DEF new, failed
      <4> QED
        BY <1>typed, <4>1, <4>2 DEF AgentTypes, Sync
    <3> QED
      BY <3>1, <3>3, <3>4
  <2>5. AgentTypes'
    BY <1>typed, <2>1, <2>3, <2>4 DEF AgentTypes
  <2> QED
    BY <2>1, <2>2, <2>3, <2>4, <2>5, Untouched
<1>7. ASSUME syncEnds PROVE AgentInv'
  <2>1. /\ ~AtRest /\ UNCHANGED <<bundle, installed, v2Marker, userEdits>>
        /\ manifest' \in {manifest, sync.new} /\ sync' = [sync EXCEPT !.pc = "idle"]
    BY <1>7 DEF syncEnds, AtRest, Go
  <2>2. /\ sync' \in Sync /\ sync'.hasV2 = sync.hasV2 /\ sync'.apply = sync.apply
        /\ sync'.unlink = sync.unlink /\ manifest' \in [AgentFile -> Hash]
    BY <1>typed, <2>1 DEF AgentTypes, Sync, SyncSteps
  <2>3. AgentTypes'
    BY <1>typed, <2>1, <2>2 DEF AgentTypes
  <2> QED
    BY <2>1, <2>2, <2>3, Untouched
<1>8. ASSUME Kill PROVE AgentInv'
  <2>1. /\ ~AtRest /\ UNCHANGED <<bundle, installed, manifest, v2Marker, userEdits>>
        /\ sync' = [sync EXCEPT !.pc = "killed"]
    BY <1>8 DEF Kill, AtRest, Go
  <2>2. /\ sync' \in Sync /\ sync'.hasV2 = sync.hasV2 /\ sync'.apply = sync.apply
        /\ sync'.unlink = sync.unlink
    BY <1>typed, <2>1 DEF AgentTypes, Sync, SyncSteps
  <2>3. AgentTypes'
    BY <1>typed, <2>1, <2>2 DEF AgentTypes
  <2> QED
    BY <2>1, <2>2, <2>3, Untouched
<1>9. ASSUME Corrupt PROVE AgentInv'
  <2>1. NoFile \in [AgentFile -> Hash]
    BY DEF NoFile, Hash
  <2> QED
    BY <1>typed, <1>9, <2>1 DEF Corrupt, AgentInv, AgentTypes, EditsKept, Edited, Spared, AtRest
<1>10. ASSUME Upgrade PROVE AgentInv'
  <2>1. /\ sync' = NoSync /\ UNCHANGED <<installed, manifest, v2Marker, userEdits>>
    BY <1>10 DEF Upgrade
  <2>2. bundle' \in [AgentFile -> Version \cup {None}]
    BY <1>typed, <1>10 DEF Upgrade, AgentTypes
  <2>3. sync' \in Sync /\ AtRest'
    BY <2>1 DEF NoSync, NoFile, Sync, SyncSteps, Hash, AtRest
  <2>4. AgentTypes'
    BY <1>typed, <2>1, <2>2, <2>3 DEF AgentTypes
  <2>5. EditsKept'
    BY <1>typed, <2>1, <2>3 DEF EditsKept, Edited
  <2> QED
    BY <2>4, <2>5 DEF AgentInv
<1>11. ASSUME NEW a \in AgentFile, UserEdits(a) PROVE AgentInv'
  <2>1. /\ AtRest /\ installed' = [installed EXCEPT ![a] = Mine]
        /\ userEdits' = userEdits \cup {<<a, v2Marker>>}
        /\ UNCHANGED <<bundle, manifest, v2Marker, sync>>
    BY <1>11 DEF UserEdits
  <2>2. AgentTypes' /\ AtRest'
    BY <1>typed, <2>1 DEF AgentTypes, AtRest
  <2>3. EditsKept'
    BY <1>typed, <2>1, <2>2 DEF AgentTypes, EditsKept, Edited
  <2> QED
    BY <2>2, <2>3 DEF AgentInv
<1>12. ASSUME NEW a \in AgentFile, UserDeletes(a) PROVE AgentInv'
  <2>1. /\ AtRest /\ installed' = [installed EXCEPT ![a] = None]
        /\ userEdits' = {e \in userEdits : e[1] # a}
        /\ UNCHANGED <<bundle, manifest, v2Marker, sync>>
    BY <1>12 DEF UserDeletes
  <2>2. AgentTypes' /\ AtRest'
    BY <1>typed, <2>1 DEF AgentTypes, AtRest
  <2>3. \A b \in AgentFile : <<b, TRUE>> \in userEdits' => b # a /\ Edited(b)
    BY <2>1 DEF Edited
  <2>4. EditsKept'
    BY <1>typed, <2>1, <2>2, <2>3 DEF AgentTypes, EditsKept, Edited
  <2> QED
    BY <2>2, <2>4 DEF AgentInv
<1>13. CASE UNCHANGED agentVars
  BY <1>typed, <1>13 DEF agentVars, AgentInv, AgentTypes, EditsKept, Edited, Spared, AtRest
<1> QED
  BY <1>1, <1>2, <1>3, <1>4, <1>5, <1>6, <1>7, <1>8, <1>9, <1>10, <1>11, <1>12, <1>13 DEF AgentNext

-----------------------------------------------------------------------------
(* What the user wrote into an agent's file once the marker was there      *)
(* survives every sync that is not by force, through any number of kills,  *)
(* failed writes, corrupted manifests and upgrades (agents.ts:307-312).    *)
THEOREM EditsAlwaysSurvive == AgentSpec => []EditsSurvive
<1>1. AgentInit => AgentInv
  BY AgentInitInv
<1>2. AgentInv /\ [AgentNext]_agentVars => AgentInv'
  BY AgentStep
<1>3. AgentInv => EditsSurvive
  BY DEF AgentInv, EditsKept, Edited, EditsSurvive
<1> QED
  BY <1>1, <1>2, <1>3, PTL DEF AgentSpec
-----------------------------------------------------------------------------
(* Warp.  What the tab shows follows what the agent does.                  *)

Badge == {"none", "in progress", "blocked", "success"}

WarpTypes ==
  /\ agent \in {"none", "idle", "running"} /\ badge \in Badge
  /\ spinner \in BOOLEAN /\ heartbeat \in BOOLEAN /\ heartbeats \in BOOLEAN
  /\ idleTimer \in BOOLEAN /\ overtaken \in BOOLEAN /\ abandoned \in BOOLEAN

(* A badge that says "blocked" is of a call that is kept as pending, so the*)
(* drain at the end of the agent frees it.  The badge says "in progress"   *)
(* again only through a call that ended, or a tick, and nothing ticks while*)
(* a call is asked that none has overtaken.                                *)
WarpInv ==
  /\ WarpTypes
  /\ titles = IF spinner THEN 1 ELSE 0
  /\ agent # "running" =>
       /\ ~heartbeat /\ ~spinner /\ pendingBlockingCalls = {} /\ asked = {} /\ ~overtaken
       /\ ~abandoned => badge \in {"none", "success"}
  /\ agent = "running" =>
       /\ badge \in {"in progress", "blocked"} /\ ~idleTimer
       /\ pendingBlockingCalls = asked
       /\ badge = "blocked" => asked # {}
       /\ asked # {} /\ ~overtaken => badge = "blocked" /\ ~heartbeat

(* What each message does to a badge. *)
LEMMA Receipts ==
  \A b \in Badge :
    /\ Receives(b, "prompt_submit") = "in progress"
    /\ Receives(b, "question_asked") = "blocked"
    /\ Receives(b, "tool_complete") \in Badge \ {"blocked"}
    /\ b \in {"in progress", "blocked"} => Receives(b, "tool_complete") = "in progress"
    /\ b # "blocked" => Receives(b, "stop") = "success"
    /\ Receives(b, "idle_prompt") = b
BY DEF Receives, Badge

(* At the end of an agent the badge is free, and the stop shows.           *)
LEMMA StopShows ==
  ASSUME WarpInv, agent = "running"
  PROVE  Receives(drained, "stop") = "success"
<1>1. badge \in {"in progress", "blocked"}
  BY DEF WarpInv
<1>2. CASE pendingBlockingCalls = {}
  <2>1. badge # "blocked"
    BY <1>2 DEF WarpInv
  <2> QED BY <1>1, <1>2, <2>1, Receipts DEF drained, Badge
<1>3. CASE pendingBlockingCalls # {}
  <2>1. drained = "in progress"
    BY <1>1, <1>3, Receipts DEF drained, Badge
  <2> QED BY <2>1, Receipts DEF Badge
<1> QED BY <1>2, <1>3

(* The badge says what the agent does, however its turn ends, for any      *)
(* number of calls that wait for the user at once, and no badge outlives   *)
(* its agent but one whose session is shut down around it.                 *)
THEOREM TabAlwaysTellsTheTruth == WarpSpec => []TabTellsTheTruth
<1>1. WarpInit => WarpInv
  BY DEF WarpInit, WarpInv, WarpTypes, Badge
<1>2. WarpInv /\ [WarpNext]_warpVars => WarpInv'
  <2> SUFFICES ASSUME WarpInv, [WarpNext]_warpVars PROVE WarpInv'
    OBVIOUS
  <2>count. 0 + 1 = 1 /\ 1 - 1 = 0
    OBVIOUS
  <2>badge. badge \in Badge
    BY DEF WarpInv, WarpTypes
  <2>1. CASE session_start
    BY <2>1, Zenon DEF session_start, WarpInv, WarpTypes
  <2>2. CASE agent_start
    <3>1. badge' = "in progress"
      BY <2>2, <2>badge, Receipts DEF agent_start, emit
    <3> QED BY <2>count, <2>2, <3>1, Zenon
      DEF agent_start, startSpinner, startHeartbeat, WarpInv, WarpTypes, Badge
  <2>3. ASSUME NEW c \in BlockingCall, tool_call(c) PROVE WarpInv'
    <3>1. badge' = "blocked"
      BY <2>3, <2>badge, Receipts DEF tool_call, emit
    <3> QED BY <2>count, <2>3, <3>1, Zenon
      DEF tool_call, captureBlockingCall, stopSpinner, WarpInv, WarpTypes, Badge
  <2>4. ASSUME NEW c \in BlockingCall, tool_execution_end(c) PROVE WarpInv'
    <3>1. badge' = "in progress"
      BY <2>4, <2>badge, Receipts DEF tool_execution_end, emit, WarpInv
    <3> QED BY <2>count, <2>4, <3>1, Zenon
      DEF tool_execution_end, consumeBlockingCall, startSpinner, startHeartbeat,
          WarpInv, WarpTypes, Badge
  <2>5. CASE agent_end
    <3>1. badge' = "success"
      BY <2>5, StopShows DEF agent_end
    <3> QED BY <2>count, <2>5, <3>1, Zenon DEF agent_end, stopSpinner, WarpInv, WarpTypes, Badge
  <2>6. CASE session_shutdown
    BY <2>count, <2>6, Zenon DEF session_shutdown, stopSpinner, WarpInv, WarpTypes
  <2>7. CASE idleTimerFires
    <3>1. badge' = badge
      BY <2>7, <2>badge, Receipts DEF idleTimerFires, emit
    <3> QED BY <2>7, <3>1, Zenon DEF idleTimerFires, WarpInv, WarpTypes
  <2>8. CASE heartbeatTicks
    <3>1. badge' = "in progress"
      BY <2>8, <2>badge, Receipts DEF heartbeatTicks, emit
    <3> QED BY <2>8, <3>1, Zenon DEF heartbeatTicks, WarpInv, WarpTypes, Badge
  <2>9. CASE UNCHANGED warpVars
    BY <2>9, Zenon DEF warpVars, WarpInv, WarpTypes
  <2> QED BY <2>1, <2>2, <2>3, <2>4, <2>5, <2>6, <2>7, <2>8, <2>9 DEF WarpNext
<1>3. WarpInv => TabTellsTheTruth
  BY DEF WarpInv, TabTellsTheTruth
<1> QED BY <1>1, <1>2, <1>3, PTL DEF WarpSpec
-----------------------------------------------------------------------------
(* TaskList.  Every state that is anywhere - in the store, on the branch,  *)
(* in a result under way - is one whose tasks wait for tasks there and     *)
(* never for themselves, and the store is the last of them.                *)

State == [todos : Seq(Task), nextId : Nat]

Blockers(list) == [n \in DOMAIN list |-> list[n].blockedBy]

Sane(list) ==
  /\ ~HasCycle(Blockers(list))
  /\ \A n \in DOMAIN list : list[n].blockedBy \subseteq DOMAIN list

SaneState == {s \in State : Sane(s.todos)}

TaskInv ==
  /\ Live \in SaneState /\ branch \in Seq(SaneState) /\ results \in Seq(SaneState)
  /\ Live = IF results = <<>> THEN replayFromBranch(branch) ELSE Last(results)

(* Fewer edges have no more cycles.                                        *)
LEMMA FewerEdges ==
  ASSUME NEW D, NEW e, NEW f, DOMAIN e = D, DOMAIN f = D,
         \A n \in D : e[n] \subseteq f[n], HasCycle(e)
  PROVE  HasCycle(f)
<1>1. PICK stuck \in SUBSET D : stuck # {} /\ \A n \in stuck : e[n] \cap stuck # {}
  BY DEF HasCycle
<1>2. \A n \in stuck : f[n] \cap stuck # {}
  BY <1>1
<1> QED BY <1>1, <1>2 DEF HasCycle

LEMMA CreateSane ==
  ASSUME Live \in SaneState, NEW deps \in SUBSET DOMAIN todos
  PROVE  create(deps) \in SaneState
<1> DEFINE task == [status |-> "pending", blockedBy |-> deps]
           list == Append(todos, task)
           n == Len(todos)
<1>1. /\ todos \in Seq(Task) /\ nextId \in Nat /\ Sane(todos) /\ n \in Nat /\ DOMAIN todos = 1..n
  BY DEF SaneState, State, Live
<1>2. task \in Task
  BY <1>1 DEF Task, Status
<1>3. /\ list \in Seq(Task) /\ DOMAIN list = 1..(n + 1) /\ list[n + 1] = task
      /\ \A i \in 1..n : list[i] = todos[i]
  BY <1>1, <1>2
<1> HIDE DEF list
<1>4. \A i \in DOMAIN list : list[i].blockedBy \subseteq 1..n
  <2> SUFFICES ASSUME NEW i \in DOMAIN list PROVE list[i].blockedBy \subseteq 1..n
    OBVIOUS
  <2>1. CASE i \in 1..n
    BY <1>1, <1>3, <2>1 DEF Sane
  <2>2. CASE i = n + 1
    BY <1>1, <1>3, <2>2
  <2> QED BY <1>1, <1>3, <2>1, <2>2
<1>5. ~HasCycle(Blockers(list))
  <2> SUFFICES ASSUME HasCycle(Blockers(list)) PROVE FALSE
    OBVIOUS
  <2>1. PICK stuck \in SUBSET DOMAIN list :
          stuck # {} /\ \A i \in stuck : list[i].blockedBy \cap stuck # {}
    BY DEF HasCycle, Blockers
  <2> DEFINE old == stuck \cap (1..n)
  <2>2. \A i \in stuck : list[i].blockedBy \cap old # {}
    BY <1>4, <2>1
  <2>3. old # {} /\ old \in SUBSET DOMAIN todos
    BY <1>1, <2>1, <2>2
  <2>4. \A i \in old : todos[i].blockedBy \cap old # {}
    BY <1>3, <2>2
  <2>5. HasCycle(Blockers(todos))
    <3> HIDE DEF old
    <3> QED BY <2>3, <2>4 DEF HasCycle, Blockers
  <2> QED BY <1>1, <2>5 DEF Sane
<1>6. Sane(list)
  BY <1>1, <1>3, <1>4, <1>5 DEF Sane
<1>7. create(deps) \in {Live, [todos |-> list, nextId |-> nextId + 1]}
  BY DEF create, list
<1> QED BY <1>1, <1>3, <1>6, <1>7 DEF SaneState, State

LEMMA UpdateSane ==
  ASSUME Live \in SaneState, NEW id \in DOMAIN todos, NEW status \in Status,
         NEW add \in SUBSET DOMAIN todos, NEW remove \in SUBSET DOMAIN todos
  PROVE  update(id, status, add, remove) \in SaneState
<1> DEFINE deps == (todos[id].blockedBy \ remove) \cup add
           task == [status |-> status, blockedBy |-> deps]
           list == [todos EXCEPT ![id] = task]
           next == [todos |-> list, nextId |-> nextId]
<1>1. /\ todos \in Seq(Task) /\ nextId \in Nat /\ Sane(todos)
      /\ todos[id] \in Task /\ todos[id].blockedBy \subseteq DOMAIN todos
      /\ DOMAIN todos \subseteq Nat
  BY DEF SaneState, State, Live, Sane
<1>2. update(id, status, add, remove) # Live =>
        /\ update(id, status, add, remove) = next
        /\ add = {} \/ ~detectCycle(id, deps)
  <2>1. [Live EXCEPT !.todos[id] = [status |-> status, blockedBy |-> (@.blockedBy \ remove) \cup add]]
          = next
    BY DEF Live
  <2> QED BY <2>1 DEF update
<1>3. task \in Task /\ deps \subseteq DOMAIN todos
  BY <1>1 DEF Task
<1>4. /\ list \in Seq(Task) /\ DOMAIN list = DOMAIN todos
      /\ \A n \in DOMAIN todos : list[n] = IF n = id THEN task ELSE todos[n]
  BY <1>1, <1>3
<1> HIDE DEF list
<1>5. \A n \in DOMAIN list : list[n].blockedBy \subseteq DOMAIN list
  BY <1>1, <1>3, <1>4 DEF Sane
<1>6. \A n \in DOMAIN todos : Blockers(list)[n] = IF n = id THEN deps ELSE todos[n].blockedBy
  <2>1. task.blockedBy = deps
    OBVIOUS
  <2> HIDE DEF task, deps
  <2> QED BY <1>4, <2>1 DEF Blockers
<1>7. ASSUME add = {} \/ ~detectCycle(id, deps) PROVE ~HasCycle(Blockers(list))
  <2>1. CASE add = {}
    <3>1. \A n \in DOMAIN todos : Blockers(list)[n] \subseteq Blockers(todos)[n]
      BY <1>6, <2>1 DEF Blockers
    <3>2. ~HasCycle(Blockers(todos))
      BY <1>1 DEF Sane
    <3> QED BY <1>4, <3>1, <3>2, FewerEdges DEF Blockers
  <2>2. CASE ~detectCycle(id, deps)
    <3> DEFINE all == [BlockedBy EXCEPT ![id] = @ \cup deps]
    <3>1. ~HasCycle(all)
      BY <2>2 DEF detectCycle
    <3>2. DOMAIN all = DOMAIN todos /\ DOMAIN Blockers(list) = DOMAIN todos
      BY <1>4 DEF BlockedBy, Blockers
    <3>3. \A n \in DOMAIN todos : Blockers(list)[n] \subseteq all[n]
      BY <1>6 DEF BlockedBy
    <3> HIDE DEF all
    <3> QED BY <3>1, <3>2, <3>3, FewerEdges
  <2> QED BY <1>7, <2>1, <2>2
<1>8. add = {} \/ ~detectCycle(id, deps) => next \in SaneState
  BY <1>1, <1>4, <1>5, <1>7 DEF SaneState, State, Sane
<1> QED BY <1>2, <1>8

LEMMA DeleteSane ==
  ASSUME Live \in SaneState, NEW id \in DOMAIN todos
  PROVE  delete(id) \in SaneState
<1> DEFINE list == [todos EXCEPT ![id].status = "deleted"]
<1>1. /\ todos \in Seq(Task) /\ nextId \in Nat /\ Sane(todos) /\ todos[id] \in Task
  BY DEF SaneState, State, Live
<1>2. /\ list \in Seq(Task) /\ DOMAIN list = DOMAIN todos
      /\ \A n \in DOMAIN todos : list[n].blockedBy = todos[n].blockedBy
  BY <1>1 DEF Task, Status
<1>3. delete(id) \in {Live, [todos |-> list, nextId |-> nextId]}
  BY DEF delete, Live
<1> HIDE DEF list
<1>4. Blockers(list) = Blockers(todos)
  BY <1>2 DEF Blockers
<1>5. Sane(list)
  BY <1>1, <1>2, <1>4 DEF Sane
<1> QED BY <1>1, <1>2, <1>3, <1>5 DEF SaneState, State

LEMMA EmptySane == EmptyState \in SaneState
BY DEF EmptyState, SaneState, State, Sane, HasCycle, Blockers

LEMMA ReplaySane ==
  ASSUME NEW entries \in Seq(SaneState)
  PROVE  replayFromBranch(entries) \in SaneState
BY EmptySane DEF replayFromBranch, Last

(* What a call commits is its result, and the last one.                    *)
LEMMA ExecuteInv ==
  ASSUME TaskInv, NEW state \in SaneState, Execute(state)
  PROVE  TaskInv'
<1>1. Live' = state
  BY DEF Execute, Live, SaneState, State
<1>2. results' = Append(results, state) /\ results \in Seq(SaneState) /\ UNCHANGED branch
      /\ branch \in Seq(SaneState)
  BY DEF Execute, TaskInv
<1>3. results' \in Seq(SaneState) /\ results' # <<>> /\ Last(results') = state
  BY <1>2 DEF Last
<1> QED BY <1>1, <1>2, <1>3 DEF TaskInv

LEMMA ReplayInv ==
  ASSUME branch' \in Seq(SaneState), results' = <<>>, Replay(branch')
  PROVE  TaskInv'
<1>1. replayFromBranch(branch') \in SaneState
  BY ReplaySane
<1>2. Live' = replayFromBranch(branch')
  BY <1>1 DEF Replay, Live, SaneState, State
<1> QED BY <1>1, <1>2 DEF TaskInv

LEMMA TaskStep ==
  ASSUME TaskInv, [TaskNext]_taskVars
  PROVE  TaskInv'
<1>1. Live \in SaneState /\ branch \in Seq(SaneState) /\ results \in Seq(SaneState)
  BY DEF TaskInv
<1>2. CASE TodoTool
  BY <1>1, <1>2, CreateSane, UpdateSane, DeleteSane, EmptySane, ExecuteInv DEF TodoTool, Ids
<1>3. CASE messageEnd
  <2>1. /\ results # <<>> /\ branch' = Append(branch, Head(results)) /\ results' = Tail(results)
        /\ Live' = Live
    BY <1>3 DEF messageEnd, Live
  <2>2. branch' \in Seq(SaneState) /\ results' \in Seq(SaneState)
    BY <1>1, <2>1
  <2>3. results' = <<>> => Last(branch') = Last(results)
    BY <1>1, <2>1 DEF Last
  <2>4. results' # <<>> => Last(results') = Last(results)
    BY <1>1, <2>1 DEF Last
  <2>5. branch' # <<>>
    BY <1>1, <2>1
  <2> QED BY <1>1, <2>1, <2>2, <2>3, <2>4, <2>5 DEF TaskInv, replayFromBranch
<1>4. CASE \E stale \in BOOLEAN : sessionCompact(stale)
  <2>1. results = <<>> /\ results' = <<>> /\ branch' = branch
    BY <1>4 DEF sessionCompact
  <2>2. CASE Replay(branch)
    BY <1>1, <2>1, <2>2, ReplayInv
  <2>3. CASE UNCHANGED <<todos, nextId>>
    BY <1>1, <2>1, <2>3 DEF TaskInv, Live
  <2> QED BY <1>4, <2>2, <2>3 DEF sessionCompact
<1>5. CASE sessionTree
  <2>1. PICK k \in 0..Len(branch) - 1 : branch' = SubSeq(branch, 1, k) /\ Replay(branch')
    BY <1>5 DEF sessionTree
  <2>2. branch' \in Seq(SaneState) /\ results' = <<>>
    BY <1>1, <1>5, <2>1 DEF sessionTree
  <2> QED BY <2>1, <2>2, ReplayInv
<1>6. CASE sessionStart
  BY <1>1, <1>6, ReplayInv DEF sessionStart
<1>7. CASE renderWidget \/ hideCompletedTasksFromPreviousTurn \/ UNCHANGED taskVars
  BY <1>1, <1>7 DEF renderWidget, hideCompletedTasksFromPreviousTurn, taskVars, TaskInv, Live
<1> QED BY <1>2, <1>3, <1>4, <1>5, <1>6, <1>7 DEF TaskNext

LEMMA TaskInitInv == TaskInit => TaskInv
BY EmptySane DEF TaskInit, TaskInv, Live, replayFromBranch, EmptyState

(* Wherever the user goes in the tree of the session, the store is what    *)
(* the branch says once the results executed have reached it.              *)
THEOREM StoreAlwaysMatches == TaskSpec => []StoreMatchesBranch
<1>1. TaskInv => StoreMatchesBranch
  BY DEF TaskInv, StoreMatchesBranch
<1> QED BY <1>1, TaskInitInv, TaskStep, PTL DEF TaskSpec

(* No sequence of updates, deletions and moves in the tree makes a task    *)
(* wait for itself or for a task that was never there, however long the    *)
(* list.                                                                   *)
THEOREM NoTaskDeadlocks == TaskSpec => []NoDeadlockedTasks
<1>1. TaskInv => NoDeadlockedTasks
  BY DEF TaskInv, SaneState, Sane, Live, NoDeadlockedTasks, BlockedBy, Blockers
<1> QED BY <1>1, TaskInitInv, TaskStep, PTL DEF TaskSpec
-----------------------------------------------------------------------------
(* AgentSync, as long as nothing went wrong.  Of a file that the user left *)
(* alone the manifest names the content, or nothing is known of it and the *)
(* migration is not over: either way the next sync may change it.          *)

Changeable(a, hash, v2) == installed[a] \in Version => hash = installed[a] \/ (hash = Unknown /\ ~v2)

UpToDate(a) ==
  /\ installed[a] \in {Mine, bundle[a]}
  /\ installed[a] \in Version => sync.new[a] = installed[a]

Converging ==
  /\ sync.failed = {} /\ sync.pc # "killed"
  /\ sync.pc = "idle" => \A a \in AgentFile : Changeable(a, manifest[a], v2Marker)
  /\ sync.pc = "copy" =>
       \A a \in AgentFile : IF bundle[a] = None \/ a \in sync.left
                            THEN Changeable(a, sync.known[a], sync.hasV2) ELSE UpToDate(a)
  /\ sync.pc \in {"manifest", "marker", "unlink"} =>
       \A a \in AgentFile : IF a \in sync.unlink THEN bundle[a] = None ELSE UpToDate(a)
  /\ sync.pc \in {"marker", "unlink"} => manifest = sync.new

ConvergeInv == faults \in Nat /\ (faults = 0 => Converging)

(* What is not the user's may be changed.                                  *)
LEMMA ChangeableIsSafe ==
  ASSUME AgentTypes, NEW a \in AgentFile, Changeable(a, sync.known[a], sync.hasV2), installed[a] \in Version
  PROVE  MayOverwrite(a) /\ sync.known[a] # None
<1>1. Unknown \notin Version /\ None \notin Version /\ Unknown # None
  BY AgentAssumption DEF Version, Unknown
<1> QED BY <1>1 DEF Changeable, MayOverwrite, isSafeDestructiveOp, KnownHash

LEMMA ConvergeStep ==
  ASSUME AgentTypes, AgentTypes', ConvergeInv, [AgentNext]_agentVars
  PROVE  ConvergeInv'
<1> USE HashFacts
<1>0. CASE UNCHANGED agentVars
  BY <1>0 DEF agentVars, ConvergeInv, Converging, Changeable, UpToDate
<1>f. ASSUME faults' \in {faults, faults + 1} PROVE faults' \in Nat /\ (faults' = 0 => faults = 0 /\ faults' = faults)
  BY <1>f DEF ConvergeInv
<1>1. ASSUME NEW force \in BOOLEAN, syncBundledAgents(force) PROVE ConvergeInv'
  <2>1. /\ sync'.pc = "copy" /\ sync'.left = {a \in AgentFile : bundle[a] # None} /\ sync'.known = manifest
        /\ sync'.hasV2 = v2Marker /\ sync'.failed = {}
    BY <1>1 DEF syncBundledAgents, NoSync, hasV2Marker
  <2>2. UNCHANGED <<bundle, installed, manifest, v2Marker, faults>> /\ sync.pc \in {"idle", "killed"}
    BY <1>1 DEF syncBundledAgents
  <2> QED BY <2>1, <2>2 DEF ConvergeInv, Converging, Changeable
<1>2. ASSUME NEW a \in AgentFile, processSourceEntry(a) PROVE ConvergeInv'
  <2>1. sync.pc = "copy" /\ a \in sync.left /\ UNCHANGED <<bundle, manifest, v2Marker>>
    BY <1>2 DEF processSourceEntry
  <2>2. faults' \in {faults, faults + 1}
    BY <1>2 DEF processSourceEntry, Lands, Fails
  <2>3. PICK hash : Record(a, hash)
    BY <1>2 DEF processSourceEntry
  <2>4. /\ sync'.pc = "copy" /\ sync'.left = sync.left \ {a} /\ sync'.known = sync.known
        /\ sync'.hasV2 = sync.hasV2 /\ sync'.failed = sync.failed
        /\ \A b \in AgentFile : sync'.new[b] = IF b = a THEN hash ELSE sync.new[b]
    BY <2>1, <2>3 DEF Record, AgentTypes, Sync
  <2>5. \A b \in AgentFile \ {a} : installed'[b] = installed[b]
    BY <1>2 DEF processSourceEntry, AgentTypes
  <2>6. SUFFICES ASSUME faults' = 0 PROVE Converging'
    BY <1>f, <2>2 DEF ConvergeInv
  <2>7. faults = 0 /\ faults' = faults /\ Converging
    BY <1>f, <2>2, <2>6 DEF ConvergeInv
  <2>8. Changeable(a, sync.known[a], sync.hasV2)
    BY <2>1, <2>7 DEF Converging
  <2>9. installed[a] \in Version => MayOverwrite(a)
    BY <2>8, ChangeableIsSafe
  <2>10. UpToDate(a)'
    <3>1. \/ installed'[a] = bundle[a] /\ Record(a, bundle[a])
          \/ installed'[a] = installed[a] /\ installed[a] \notin {None, bundle[a]} /\ ~MayOverwrite(a)
      <4>1. ~Fails
        BY <2>7 DEF Fails
      <4> QED BY <1>2, <4>1 DEF processSourceEntry, AgentTypes
    <3>2. CASE installed'[a] = bundle[a] /\ Record(a, bundle[a])
      <4>1. sync'.new[a] = bundle[a]
        BY <3>2 DEF Record, AgentTypes, Sync
      <4> QED BY <2>1, <3>2, <4>1 DEF UpToDate
    <3>3. CASE installed'[a] = installed[a] /\ installed[a] \notin {None, bundle[a]} /\ ~MayOverwrite(a)
      <4>1. installed'[a] = Mine /\ Mine \notin Version
        BY <2>9, <3>3 DEF AgentTypes, Version, Mine
      <4> QED BY <4>1 DEF UpToDate
    <3> QED BY <3>1, <3>2, <3>3
  <2>11. bundle[a] = None => Changeable(a, sync.known[a], sync.hasV2)'
    BY <2>1, <2>10 DEF UpToDate, Changeable, Hash
  <2>12. ASSUME NEW b \in AgentFile \ {a}
         PROVE  (IF bundle[b] = None \/ b \in sync.left
                 THEN Changeable(b, sync.known[b], sync.hasV2) ELSE UpToDate(b))'
    BY <2>1, <2>4, <2>5, <2>7 DEF Converging, Changeable, UpToDate
  <2> QED BY <2>1, <2>4, <2>7, <2>10, <2>11, <2>12 DEF Converging
<1>3. CASE classifyStaleEntries
  <2> DEFINE stale == {a \in AgentFile : sync.known[a] # None /\ bundle[a] = None /\ installed[a] # None}
             unlink == {a \in stale : MayOverwrite(a)}
  <2>1. /\ sync.pc = "copy" /\ sync.left = {} /\ UNCHANGED <<bundle, installed, manifest, v2Marker, faults>>
        /\ sync'.pc = "manifest" /\ sync'.unlink = unlink /\ sync'.failed = sync.failed
        /\ \A a \in AgentFile : sync'.new[a] = IF a \in stale \ unlink THEN sync.known[a] ELSE sync.new[a]
    BY <1>3 DEF classifyStaleEntries, AgentTypes, Sync
  <2>2. SUFFICES ASSUME faults = 0 PROVE Converging'
    BY <2>1 DEF ConvergeInv
  <2>3. ASSUME NEW a \in AgentFile, a \notin unlink PROVE UpToDate(a)'
    <3>1. CASE bundle[a] # None
      BY <2>1, <2>2, <3>1 DEF ConvergeInv, Converging, UpToDate
    <3>2. CASE bundle[a] = None
      <4>1. installed[a] \notin Version
        BY <2>1, <2>2, <2>3, <3>2, ChangeableIsSafe DEF ConvergeInv, Converging
      <4>2. installed[a] \in {Mine, None}
        BY <4>1 DEF AgentTypes
      <4> QED BY <2>1, <3>2, <4>1, <4>2 DEF UpToDate
    <3> QED BY <3>1, <3>2
  <2> HIDE DEF unlink
  <2>4. \A a \in AgentFile : a \in unlink => bundle[a] = None
    BY DEF unlink
  <2> QED BY <2>1, <2>2, <2>3, <2>4 DEF ConvergeInv, Converging
<1>4. CASE writeManifest
  <2>1. /\ sync'.left = sync.left /\ sync'.unlink = sync.unlink /\ sync'.new = sync.new /\ sync'.failed = sync.failed
        /\ sync'.pc \in {"marker", "unlink"} /\ sync.pc = "manifest"
        /\ UNCHANGED <<bundle, installed, v2Marker>> /\ faults' \in {faults, faults + 1}
    BY <1>4 DEF writeManifest, Go, Lands, Fails, AgentTypes, Sync
  <2>2. faults' = faults => manifest' = sync.new \/ faults # 0
    BY <1>4 DEF writeManifest, Fails, ConvergeInv
  <2> QED BY <1>f, <2>1, <2>2 DEF ConvergeInv, Converging, UpToDate
<1>5. CASE writeV2Marker
  <2>1. /\ sync'.left = sync.left /\ sync'.unlink = sync.unlink /\ sync'.new = sync.new /\ sync'.failed = sync.failed
        /\ sync'.pc = "unlink" /\ sync.pc = "marker"
        /\ UNCHANGED <<bundle, installed, manifest>> /\ faults' \in {faults, faults + 1}
    BY <1>5 DEF writeV2Marker, Go, Lands, Fails, AgentTypes, Sync
  <2> QED BY <1>f, <2>1 DEF ConvergeInv, Converging, UpToDate
<1>6. ASSUME NEW a \in AgentFile, commitStaleUnlink(a) PROVE ConvergeInv'
  <2>1. /\ sync'.pc = "unlink" /\ sync.pc = "unlink" /\ a \in sync.unlink /\ UNCHANGED <<bundle, manifest>>
        /\ faults' \in {faults, faults + 1}
    BY <1>6 DEF commitStaleUnlink, Lands, Fails, AgentTypes, Sync
  <2>2. faults' = faults /\ faults = 0 =>
          /\ sync'.unlink = sync.unlink \ {a} /\ sync'.failed = sync.failed /\ sync'.new = sync.new
          /\ installed' = [installed EXCEPT ![a] = None]
    BY <1>6 DEF commitStaleUnlink, Fails, AgentTypes, Sync
  <2>3. SUFFICES ASSUME faults' = 0 PROVE Converging'
    BY <1>f, <2>1 DEF ConvergeInv
  <2>4. faults = 0 /\ Converging /\ faults' = faults
    BY <1>f, <2>1, <2>3 DEF ConvergeInv
  <2>5. bundle[a] = None /\ installed'[a] = None
    BY <2>1, <2>2, <2>4 DEF Converging, AgentTypes
  <2>6. UpToDate(a)'
    BY <2>1, <2>5 DEF UpToDate
  <2>7. ASSUME NEW b \in AgentFile \ {a}, b \notin sync.unlink PROVE UpToDate(b)'
    BY <2>1, <2>2, <2>4, <2>7 DEF Converging, UpToDate, AgentTypes
  <2> QED BY <2>1, <2>2, <2>4, <2>6, <2>7 DEF Converging
<1>7. CASE syncEnds
  <2>1. /\ sync'.pc = "idle" /\ sync.pc = "unlink" /\ sync.unlink = sync.failed /\ sync'.failed = sync.failed
        /\ UNCHANGED <<bundle, installed, v2Marker>> /\ faults' \in {faults, faults + 1}
        /\ sync.failed = {} => manifest' = manifest
    BY <1>7 DEF syncEnds, Go, Lands, Fails, AgentTypes, Sync
  <2> QED BY <1>f, <2>1 DEF ConvergeInv, Converging, UpToDate, Changeable
<1>8. CASE Kill \/ Corrupt
  BY <1>8 DEF Kill, Corrupt, ConvergeInv
<1>9. CASE Upgrade
  <2>1. sync'.pc = "idle" /\ sync'.failed = {} /\ UNCHANGED <<installed, manifest, v2Marker, faults>>
    BY <1>9 DEF Upgrade, NoSync
  <2>2. sync.pc \in {"idle", "killed"}
    BY <1>9 DEF Upgrade, AtRest
  <2> QED BY <2>1, <2>2 DEF ConvergeInv, Converging, Changeable
<1>10. ASSUME NEW a \in AgentFile, UserEdits(a) \/ UserDeletes(a) PROVE ConvergeInv'
  <2>1. /\ UNCHANGED <<bundle, manifest, v2Marker, sync, faults>> /\ sync.pc \in {"idle", "killed"}
        /\ \A b \in AgentFile : installed'[b] \in {installed[b], Mine, None}
    BY <1>10 DEF UserEdits, UserDeletes, AtRest, AgentTypes
  <2>2. Mine \notin Version /\ None \notin Version
    BY DEF Version, Mine
  <2> QED BY <2>1, <2>2 DEF ConvergeInv, Converging, Changeable
<1> QED BY <1>0, <1>1, <1>2, <1>3, <1>4, <1>5, <1>6, <1>7, <1>8, <1>9, <1>10 DEF AgentNext

(* As long as nothing goes wrong every sync ends with what the package     *)
(* ships, but for what the user wrote, however often the package changes   *)
(* and the user edits and deletes in between.                              *)
THEOREM SyncAlwaysConverges == AgentSpec => []SyncConverges
<1>1. AgentInit => ConvergeInv
  <2> SUFFICES ASSUME AgentInit PROVE ConvergeInv
    OBVIOUS
  <2>1. \A a \in AgentFile : Changeable(a, manifest[a], v2Marker)
    BY HashFacts DEF AgentInit, Changeable, NoFile
  <2> QED BY <2>1 DEF AgentInit, ConvergeInv, Converging, NoSync
<1>2. AgentInv /\ AgentInv' /\ ConvergeInv /\ [AgentNext]_agentVars => ConvergeInv'
  BY ConvergeStep DEF AgentInv
<1>3. AgentInv /\ ConvergeInv => SyncConverges
  BY DEF ConvergeInv, Converging, UpToDate, SyncConverges
<1> QED BY <1>1, <1>2, <1>3, AgentInitInv, AgentStep, PTL DEF AgentSpec

-----------------------------------------------------------------------------
(* Leftovers.  While thoughts/shared is copied or purged, every entry not  *)
(* waiting to be copied is the same in both places; and what is there was  *)
(* written last.                                                           *)

(* Nothing is removed before it is in .rpiv/artifacts. *)
Copied ==
  /\ chore = "copying" => /\ todo \subseteq Present(shared)
                        /\ \A e \in Present(shared) \ todo : artifacts[e] = shared[e]
  /\ chore = "purging" => \A e \in Present(shared) : artifacts[e] = shared[e]

LeftoverInv ==
  /\ DOMAIN shared = Entry /\ DOMAIN artifacts = Entry /\ DOMAIN latest = Entry
  /\ DOMAIN perCwd = AgentName
  /\ \A e \in Entry : latest[e] # None /\ shared[e] # None => shared[e] = latest[e]
  /\ Copied
  /\ UserFilesSurvive

LEMMA LeftoverStep ==
  ASSUME LeftoverInv, [LeftoverNext]_leftoverVars
  PROVE  LeftoverInv'
<1> USE DEF LeftoverInv, UserFilesSurvive, Copied, Present
<1>1. ASSUME NEW e \in Entry, WriteShared(e) \/ WriteArtifacts(e) PROVE LeftoverInv'
  BY <1>1 DEF WriteShared, WriteArtifacts
<1>2. ASSUME NEW e \in Entry, cpSync(e) PROVE LeftoverInv'
  <2>1. /\ chore = "copying" /\ e \in todo
        /\ artifacts' = [artifacts EXCEPT ![e] = IF artifacts[e] = Partial THEN shared[e] ELSE Partial]
        /\ todo' = IF artifacts[e] = Partial THEN todo \ {e} ELSE todo
        /\ UNCHANGED <<shared, perCwd, listed, bundled, chore, writes, latest>>
    BY <1>2 DEF cpSync
  <2>2. shared[e] # None
    BY <2>1
  <2>3. Copied'
    BY <2>1
  <2>4. UserFilesSurvive'
    BY <2>1, <2>2
  <2> QED BY <2>1, <2>3, <2>4
<1>3. ASSUME NEW e \in Entry, rmSync(e) PROVE LeftoverInv'
  BY <1>3 DEF rmSync, copiesVerified
<1>4. ASSUME NEW n \in AgentName, WriteAgent(n) PROVE LeftoverInv'
  BY <1>4 DEF WriteAgent
<1>5. CASE migrateThoughtsToArtifacts
  BY <1>5 DEF migrateThoughtsToArtifacts
<1>6. CASE cleanupPerCwdAgents
  <2>1. \A n \in AgentName : perCwd[n] # "user"
    BY <1>6, OwnerAssumption DEF cleanupPerCwdAgents, ManagedMatch, NoCustomFiles
  <2> QED BY <1>6, <2>1 DEF cleanupPerCwdAgents
<1>7. CASE RemoveAgents
  BY <1>7, OwnerAssumption DEF RemoveAgents
<1>8. CASE ChoreStops
  BY <1>8 DEF ChoreStops
<1>9. CASE UNCHANGED leftoverVars
  BY <1>9 DEF leftoverVars
<1> QED BY <1>1, <1>2, <1>3, <1>4, <1>5, <1>6, <1>7, <1>8, <1>9 DEF LeftoverNext

(* Wherever a session that starts is stopped, and however many entries     *)
(* there are, what the user last wrote is in one of the two places, and no *)
(* agent of the user's is being removed.                                   *)
THEOREM UserFilesAlwaysSurvive == LeftoverSpec => []UserFilesSurvive
<1>1. LeftoverInit => LeftoverInv
  BY DEF LeftoverInit, LeftoverInv, Copied, Present, UserFilesSurvive
<1>2. LeftoverInv /\ [LeftoverNext]_leftoverVars => LeftoverInv'
  BY LeftoverStep
<1>3. LeftoverInv => UserFilesSurvive
  BY DEF LeftoverInv
<1> QED BY <1>1, <1>2, <1>3, PTL DEF LeftoverSpec

-----------------------------------------------------------------------------
(* ModelInstall, for the one process that installs at a time.  A required  *)
(* file cut short is one that tar has still to write, or what a failed     *)
(* installation left, to which there is no sentinel.                       *)

OneProcess == \A p, q \in Process : p = q

Unpacked(p) == sentinel \/ preflight[p] \in {"verifying", "checking", "importing"}
Fetching == {"fetching", "piping", "fetched", "unpacking"}

InstallInv ==
  /\ DOMAIN disk = File /\ DOMAIN preflight = Process /\ DOMAIN unpacking = Process
  /\ \A f \in Needed : disk[f] = "partial" => f \in members
  /\ \A p \in Process :
       /\ preflight[p] \in Fetching => ~sentinel
       /\ Unpacked(p) => \A f \in Needed : disk[f] # "partial"
       /\ preflight[p] = "unpacking" => \A f \in Needed : disk[f] = "partial" => f \in unpacking[p]
  /\ EngineLoadsWholeFiles

LEMMA InstallStep ==
  ASSUME OneProcess, InstallInv, [InstallNext]_installVars
  PROVE  InstallInv'
<1> USE ArchiveAssumption DEF InstallInv, Unpacked, Fetching, EngineLoadsWholeFiles, MoveTo, File
<1>0. CASE UNCHANGED installVars
  BY <1>0 DEF installVars
<1>1. CASE InstallNext
  <2> USE <1>1
  <2>0. members' = members
    BY DEF InstallNext
  <2>1. ASSUME NEW p \in Process, runPreflight(p) PROVE InstallInv'
    BY <2>0, <2>1 DEF OneProcess, runPreflight, isModelDownloaded
  <2>2. ASSUME NEW p \in Process, downloadArchive(p) PROVE InstallInv'
    BY <2>0, <2>2 DEF OneProcess, downloadArchive
  <2>3. ASSUME NEW p \in Process, extractArchive(p) PROVE InstallInv'
    BY <2>0, <2>3 DEF OneProcess, extractArchive
  <2>4. ASSUME NEW p \in Process, NEW f \in members, TarWrites(p, f) PROVE InstallInv'
    BY <2>0, <2>4 DEF OneProcess, TarWrites
  <2>5. ASSUME NEW p \in Process, pruneFp32Duplicates(p) PROVE InstallInv'
    BY <2>0, <2>5 DEF OneProcess, pruneFp32Duplicates
  <2>6. ASSUME NEW p \in Process, writeSentinel(p) PROVE InstallInv'
    BY <2>0, <2>6 DEF OneProcess, writeSentinel, verifyModelFiles
  <2>7. ASSUME NEW p \in Process, InstallFails(p) PROVE InstallInv'
    BY <2>0, <2>7 DEF OneProcess, InstallFails
  <2>8. ASSUME NEW p \in Process, removeModelInstall(p) PROVE InstallInv'
    BY <2>0, <2>8 DEF OneProcess, removeModelInstall
  <2>9. ASSUME NEW p \in Process, assertModelIntact(p) PROVE InstallInv'
    BY <2>0, <2>9 DEF OneProcess, assertModelIntact, verifyModelFiles
  <2>10. ASSUME NEW p \in Process, createSttEngine(p) PROVE InstallInv'
    BY <2>0, <2>10 DEF OneProcess, createSttEngine
  <2>11. ASSUME NEW p \in Process, ProcessKilled(p) PROVE InstallInv'
    BY <2>0, <2>11 DEF OneProcess, ProcessKilled
  <2>12. ASSUME NEW f \in File, Delete(f) PROVE InstallInv'
    BY <2>0, <2>12 DEF OneProcess, Delete
  <2> QED BY <2>1, <2>2, <2>3, <2>4, <2>5, <2>6, <2>7, <2>8, <2>9, <2>10, <2>11, <2>12
          DEF InstallNext
<1> QED BY <1>0, <1>1

(* However often the process is killed, files are deleted and archives are *)
(* short, a file cut short never reaches the recognizer.  With two         *)
(* processes it may: one can still be unpacking over what the other has    *)
(* just verified.                                                          *)
THEOREM EngineAlwaysLoadsWholeFiles ==
  ASSUME OneProcess
  PROVE  InstallSpec => []EngineLoadsWholeFiles
<1>1. InstallInit => InstallInv
  BY DEF InstallInit, InstallInv, Unpacked, Fetching, EngineLoadsWholeFiles, File
<1>2. InstallInv /\ [InstallNext]_installVars => InstallInv'
  BY InstallStep, OneProcess
<1>3. InstallInv => EngineLoadsWholeFiles
  BY DEF InstallInv
<1> QED BY <1>1, <1>2, <1>3, PTL DEF InstallSpec

-----------------------------------------------------------------------------
(* Validation, of any workflow that a file may hold and not only of those  *)
(* that ValidationInit bounds TLC to.  The walk has entered what it has    *)
(* left behind: every target of a stage reached is reached or waits.       *)

Edge == [fn : BOOLEAN, targets : SUBSET (Name \cup {Stop})]
AnyWorkflow == [start : {First}, stages : [Name -> RawDef \cup {Missing}], edges : [Name -> Edge \cup {Missing}]]

AnyInit ==
  /\ written \in AnyWorkflow /\ aliases \in BOOLEAN
  /\ reachable = {} /\ frontier = {First} \cap Declared
  /\ at = First /\ step = "validate"

Walked ==
  /\ First \in frontier \cup reachable
  /\ \A s \in reachable : enumerateTargets(loaded.edges[s]) \cap Declared \subseteq frontier \cup reachable

ValidationInv ==
  /\ written \in AnyWorkflow
  /\ step \in {"validate", "enter", "leave", "done", "halted"} /\ at \in Name
  /\ Errors(written) = {} =>
       /\ Walked /\ step # "halted"
       /\ at \in Declared
       /\ step = "validate" => at = First
       /\ step # "validate" => frontier = {} /\ at \in reachable

(* Aliases change the skill of a dispatching stage, and nothing else.      *)
LEMMA LoadedStages ==
  ASSUME written \in AnyWorkflow
  PROVE  /\ loaded.edges = written.edges /\ loaded.start = written.start
         /\ \A s \in Name :
              loaded.stages[s] = IF s \in Declared /\ aliases /\ isDispatchingStage(written.stages[s])
                                 THEN [written.stages[s] EXCEPT !.skill = TRUE]
                                 ELSE written.stages[s]
BY DEF loaded, AnyWorkflow

LEMMA AliasIsSafe ==
  ASSUME NEW def \in RawDef, isDispatchingStage(def), checkStageSemantics(def)
  PROVE  LET d == [def EXCEPT !.skill = TRUE] IN
         d \in RawDef /\ checkStageSemantics(d) /\ d.kind = def.kind /\ d.reads = def.reads
<1> DEFINE d == [def EXCEPT !.skill = TRUE]
<1>1. d \in RawDef
  BY DEF RawDef
<1>2. /\ d.run = def.run /\ d.prompt = def.prompt /\ d.fanout = def.fanout /\ d.iterate = def.iterate
      /\ d.kind = def.kind /\ d.policy = def.policy /\ d.outcome = def.outcome
      /\ d.reads = def.reads /\ d.invalid = def.invalid
  BY DEF RawDef
<1>3. ~d.run /\ d.prompt = "none"
  BY <1>2 DEF isDispatchingStage
<1> HIDE DEF d
<1>4. checkStageSemantics(d)
  BY <1>2, <1>3 DEF checkStageSemantics, checkRetryBounds, checkTimeoutBounds, checkStageEnums,
     checkFanoutContinueInvariant, checkIterateInvariants, checkPromptInvariants, checkScriptStageInvariants
<1> QED BY <1>1, <1>2, <1>4 DEF d

(* What no issue was raised about.                                         *)
LEMMA NoErrors ==
  ASSUME written \in AnyWorkflow, Errors(written) = {}
  PROVE  /\ Errors(loaded) = {} /\ First \in Declared
         /\ \A s \in Declared : loaded.stages[s] \in RawDef /\ checkStageSemantics(loaded.stages[s])
         /\ \A s \in Name : loaded.edges[s] # Missing =>
              loaded.edges[s].targets # {} /\ loaded.edges[s].targets \subseteq Declared \cup {Stop}
         /\ ~HasUnenumerableEdge(loaded)
<1>1. \A s \in Declared : written.stages[s] \in RawDef
  BY DEF AnyWorkflow, Declared
<1>2. /\ written.start \in Declared /\ checkEdgeKeys(written) = {} /\ checkEdgeTargets(written) = {}
      /\ \A s \in Declared : checkStageSemantics(written.stages[s])
      /\ UnknownReads(written) = {}
  BY DEF Errors
<1>3. \A s \in Declared : /\ loaded.stages[s] \in RawDef /\ checkStageSemantics(loaded.stages[s])
                          /\ loaded.stages[s].kind = written.stages[s].kind
                          /\ loaded.stages[s].reads = written.stages[s].reads
  BY <1>1, <1>2, LoadedStages, AliasIsSafe DEF Declared
<1>4. UnknownReads(loaded) = {}
  BY <1>2, <1>3 DEF UnknownReads, Publishers
<1>5. checkEdgeKeys(loaded) = {} /\ checkEdgeTargets(loaded) = {} /\ loaded.start \in Declared
  BY <1>2, LoadedStages DEF checkEdgeKeys, checkEdgeTargets
<1>6. Errors(loaded) = {}
  BY <1>3, <1>4, <1>5 DEF Errors
<1>7. \A s \in Name : loaded.edges[s] # Missing =>
        loaded.edges[s].targets # {} /\ loaded.edges[s].targets \subseteq Declared \cup {Stop}
  BY <1>5 DEF checkEdgeTargets, enumerateTargets
<1>8. First \in Declared
  BY <1>2 DEF AnyWorkflow
<1> QED BY <1>3, <1>6, <1>7, <1>8 DEF HasUnenumerableEdge, enumerateTargets

(* A valid stage names one way of doing its work, which the runner can do. *)
LEMMA ValidStage ==
  ASSUME NEW d \in RawDef, checkStageSemantics(d)
  PROVE  /\ Runs(d) /\ Cardinality(Dispatches(d)) <= 1
         /\ d.skill => Dispatches(d) \cap {"run", "prompt"} = {}
<1> USE DEF checkStageSemantics, checkStageEnums, checkFanoutContinueInvariant, checkIterateInvariants,
            checkPromptInvariants, checkScriptStageInvariants
<1>1. Runs(d)
  BY DEF Runs, RawDef
<1>2. \A k, l \in Dispatches(d) : k = l
  BY DEF Dispatches
<1>3. Dispatches(d) = {} \/ \E k : Dispatches(d) = {k}
  BY <1>2
<1>4. Cardinality(Dispatches(d)) \in {0, 1}
  BY <1>3, FS_EmptySet, FS_Singleton
<1>5. d.skill => Dispatches(d) \cap {"run", "prompt"} = {}
  BY DEF Dispatches
<1> QED BY <1>1, <1>4, <1>5

LEMMA ValidationStep ==
  ASSUME ValidationInv, [ValidationNext]_validationVars
  PROVE  ValidationInv'
<1> USE NameAssumption
<1>0. CASE UNCHANGED validationVars
  BY <1>0 DEF validationVars, ValidationInv, Walked, Errors, checkEdgeKeys, checkEdgeTargets, UnknownReads,
     Publishers, Declared, loaded
<1>1. ASSUME UNCHANGED <<written, aliases>>
      PROVE  /\ Declared' = Declared /\ loaded' = loaded
             /\ (Errors(written))' = Errors(written)
  BY <1>1 DEF Errors, checkEdgeKeys, checkEdgeTargets, UnknownReads, Publishers, Declared, loaded
<1>2. ASSUME NEW cur \in Name, Reach(cur) PROVE ValidationInv'
  BY <1>1, <1>2 DEF Reach, ValidationInv, Walked
<1>3. CASE Launch
  <2>1. Errors(written) = {} => frontier = {}
    BY <1>3, NoErrors DEF Launch, ValidationInv
  <2> QED BY <1>1, <1>3, <2>1 DEF Launch, ValidationInv, Walked
<1>4. CASE runStage
  <2>1. Errors(written) = {} => step' = "leave"
    BY <1>4, NoErrors, ValidStage DEF runStage, ValidationInv
  <2>2. step' \in {"leave", "halted"} /\ UNCHANGED <<written, aliases, frontier, reachable, at>>
    BY <1>4 DEF runStage
  <2>3. step = "enter"
    BY <1>4 DEF runStage
  <2> QED BY <1>1, <2>1, <2>2, <2>3 DEF ValidationInv, Walked
<1>5. CASE nextStage
  <2>0. step = "leave" /\ UNCHANGED <<written, aliases, frontier, reachable>>
    BY <1>5 DEF nextStage
  <2>1. CASE step' = "done" /\ at' = at
    BY <1>1, <2>0, <2>1 DEF ValidationInv, Walked
  <2>2. CASE /\ loaded.edges[at] # Missing
             /\ \E t \in enumerateTargets(loaded.edges[at]) :
                  t # Stop /\ at' = t /\ step' = IF t \in Declared THEN "enter" ELSE "halted"
    <3>1. PICK t \in loaded.edges[at].targets :
                 t # Stop /\ at' = t /\ step' = IF t \in Declared THEN "enter" ELSE "halted"
      BY <2>2 DEF enumerateTargets
    <3>2. t \in Name
      BY <2>2, <3>1, LoadedStages DEF ValidationInv, AnyWorkflow, Edge
    <3>3. ASSUME Errors(written) = {} PROVE t \in Declared /\ t \in reachable
      <4>1. t \in Declared
        BY <2>2, <3>1, <3>3, NoErrors DEF ValidationInv
      <4>2. t \in frontier \cup reachable
        BY <2>0, <2>2, <3>1, <3>3, <4>1 DEF ValidationInv, Walked, enumerateTargets
      <4> QED BY <2>0, <3>3, <4>1, <4>2 DEF ValidationInv
    <3> QED BY <1>1, <2>0, <3>1, <3>2, <3>3 DEF ValidationInv, Walked
  <2>3. CASE /\ loaded.edges[at] # Missing /\ enumerateTargets(loaded.edges[at]) = {}
             /\ step' = "halted" /\ at' = at
    <3>1. Errors(written) # {}
      BY <2>3, NoErrors DEF ValidationInv, enumerateTargets
    <3> QED BY <1>1, <2>0, <2>3, <3>1 DEF ValidationInv
  <2> QED BY <1>5, <2>1, <2>2, <2>3 DEF nextStage
<1> QED BY <1>0, <1>2, <1>3, <1>4, <1>5 DEF ValidationNext

(* Any workflow that a file may hold, if no issue is raised about it as    *)
(* written, is valid with its skills aliased and runs: whatever its graph  *)
(* and its stages.                                                         *)
THEOREM AnyValidWorkflowRuns ==
  AnyInit /\ [][ValidationNext]_validationVars => []ValidWorkflowsRun
<1>1. AnyInit => ValidationInv
  <2> SUFFICES ASSUME AnyInit PROVE ValidationInv
    OBVIOUS
  <2>1. Errors(written) = {} => First \in Declared
    BY NoErrors DEF AnyInit
  <2> QED BY <2>1, NameAssumption DEF AnyInit, ValidationInv, Walked
<1>2. ValidationInv => ValidWorkflowsRun
  BY NoErrors, ValidStage DEF ValidationInv, ValidWorkflowsRun
<1> QED BY <1>1, <1>2, ValidationStep, PTL

(* The workflows that ValidationInit starts from are some of them.         *)
THEOREM ValidWorkflowsAlwaysRun == ValidationSpec => []ValidWorkflowsRun
<1>1. ValidationInit => AnyInit
  <2> SUFFICES ASSUME ValidationInit PROVE AnyInit
    OBVIOUS
  <2>1. produces \in RawDef /\ producesScript \in RawDef /\ actsPrompt("continue") \in RawDef
    BY DEF produces, producesScript, actsPrompt, SideEffect, RawDef
  <2>2. ASSUME NEW e \in StringEdge \cup EdgeFn PROVE e \in Edge
    <3>1. \A ts \in SUBSET (Name \cup {Stop}) : [fn |-> FALSE, targets |-> ts] \in Edge
      BY DEF Edge
    <3>2. \A ts \in SUBSET (Name \cup {Stop}) : [fn |-> TRUE, targets |-> ts] \in Edge
      BY DEF Edge
    <3>3. ASSUME e \in StringEdge PROVE e \in Edge
      <4>1. PICK t \in Name \cup {Stop} : e = [fn |-> FALSE, targets |-> {t}]
        BY <3>3 DEF StringEdge
      <4>2. {t} \in SUBSET (Name \cup {Stop})
        BY <4>1
      <4> HIDE DEF Edge
      <4> QED BY <3>1, <4>1, <4>2
    <3>4. ASSUME e \in EdgeFn PROVE e \in Edge
      BY <3>2, <3>4 DEF EdgeFn
    <3> QED BY <3>3, <3>4
  <2>3. ASSUME written \in [start : {First}, stages : [Name -> {produces, Missing}],
                            edges : [Name -> StringEdge \cup EdgeFn \cup {Missing}]]
        PROVE  written \in AnyWorkflow
    BY <2>1, <2>2, <2>3 DEF AnyWorkflow
  <2>4. ASSUME written \in OddStage PROVE written \in AnyWorkflow
    <3>1. PICK odd \in Name \ {Final}, next \in Name \ {First, Final}, def \in RawDef,
               plain \in {producesScript, actsPrompt("continue")} :
            written = [start |-> First,
                       stages |-> [s \in Name |-> IF s = odd THEN def
                                                  ELSE IF s = Final THEN Missing ELSE plain],
                       edges |-> [s \in Name |-> IF s = Final THEN Missing
                                                 ELSE [fn |-> FALSE, targets |-> {IF s = First THEN next ELSE Stop}]]]
      BY <2>4 DEF OddStage
    <3>2. \A t \in Name \cup {Stop} : [fn |-> FALSE, targets |-> {t}] \in Edge
      BY DEF Edge
    <3>3. plain \in RawDef
      BY <2>1, <3>1
    <3> HIDE DEF Edge
    <3> QED BY <3>1, <3>2, <3>3 DEF AnyWorkflow
  <2>5. written \in AnyWorkflow
    BY <2>3, <2>4 DEF ValidationInit
  <2> QED BY <2>5 DEF ValidationInit, AnyInit, Declared
<1> QED BY <1>1, AnyValidWorkflowRuns, PTL DEF ValidationSpec

-----------------------------------------------------------------------------
(* Btw.  A snapshot is of messages still on its session's branch, and the  *)
(* overlay belongs to the session in front.                                *)

SideCall == [pc : {"idle", "auth", "asking", "answered", "failed"},
             session : SessionFile \cup {None}, live : BOOLEAN]

BtwInv ==
  /\ branches \in [SessionFile -> Seq(Nat)] /\ messages \in Nat /\ open \in SessionFile
  /\ DOMAIN snapshots = SessionFile
  /\ \A s \in SessionFile : snapshots[s] = None \/ snapshots[s] \in Seq(Nat)
  /\ histories \in [SessionFile -> Seq(Question)]
  /\ call \in [Question -> SideCall]
  /\ \A s \in SessionFile : snapshots[s] # None => IsPrefix(snapshots[s], branches[s])
  /\ screen # None =>
       /\ screen \in [call : Question, history : Seq(Question)]
       /\ call[screen.call].session \in SessionFile
       /\ IsPrefix(screen.history, histories[call[screen.call].session])

LEMMA PrefixOfItself ==
  ASSUME NEW S, NEW s \in Seq(S)
  PROVE  IsPrefix(s, s)
BY DEF IsPrefix

LEMMA PrefixOfLonger ==
  ASSUME NEW S, NEW s \in Seq(S), NEW t \in Seq(S), NEW x \in S, IsPrefix(s, t)
  PROVE  IsPrefix(s, Append(t, x))
<1>1. Append(t, x) \in Seq(S) /\ Len(Append(t, x)) = Len(t) + 1
  OBVIOUS
<1>2. \A i \in 1..Len(t) : Append(t, x)[i] = t[i]
  OBVIOUS
<1>3. SubSeq(Append(t, x), 1, Len(s)) = SubSeq(t, 1, Len(s))
  BY <1>1, <1>2 DEF IsPrefix
<1> QED BY <1>1, <1>3 DEF IsPrefix

LEMMA EmptyPrefix ==
  ASSUME NEW S, NEW t \in Seq(S)
  PROVE  IsPrefix(<<>>, t)
BY DEF IsPrefix

LEMMA OneCallMoves ==
  ASSUME call \in [Question -> SideCall], NEW q \in Question,
         NEW pc \in {"idle", "auth", "asking", "answered", "failed"},
         call' = [call EXCEPT ![q].pc = pc]
  PROVE  call' \in [Question -> SideCall] /\ \A r \in Question : call'[r].session = call[r].session
<1> DEFINE there == [call[q] EXCEPT !.pc = pc]
           moved == [call EXCEPT ![q] = there]
<1>1. there \in SideCall /\ there.session = call[q].session
  BY DEF SideCall
<1> HIDE DEF there
<1>2. moved \in [Question -> SideCall] /\ \A r \in Question : moved[r].session = call[r].session
  BY <1>1
<1>3. call' = moved
  BY DEF there
<1> HIDE DEF moved
<1> QED BY <1>2, <1>3

LEMMA ReplacedCalls ==
  ASSUME NEW s, call \in [Question -> SideCall], Replace(s)
  PROVE  call' \in [Question -> SideCall]
<1>1. \A q \in Question : [call[q] EXCEPT !.live = FALSE] \in SideCall
  BY DEF SideCall
<1> QED BY <1>1 DEF Replace

LEMMA BtwStep ==
  ASSUME BtwInv, [BtwNext]_btwVars
  PROVE  BtwInv'
<1> USE DEF BtwInv
<1>1. ASSUME NEW final \in BOOLEAN, message_end(final) PROVE BtwInv'
  <2>1. messages' \in Nat /\ branches' = [branches EXCEPT ![open] = Append(@, messages')]
    BY <1>1 DEF message_end
  <2>2. branches'[open] = Append(branches[open], messages') /\ branches' \in [SessionFile -> Seq(Nat)]
        /\ \A s \in SessionFile \ {open} : branches'[s] = branches[s]
    BY <2>1
  <2>3. ASSUME NEW s \in SessionFile, snapshots[s] # None
        PROVE  IsPrefix(snapshots[s], branches'[s])
    BY <2>1, <2>2, <2>3, PrefixOfLonger
  <2>4. IsPrefix(branches'[open], branches'[open])
    BY <2>2, PrefixOfItself
  <2> QED BY <1>1, <2>1, <2>2, <2>3, <2>4 DEF message_end
<1>2. CASE session_tree
  <2>1. Front(branches[open]) \in Seq(Nat)
    BY <1>2 DEF session_tree, Front
  <2> QED BY <1>2, <2>1 DEF session_tree, invalidateSnapshot
<1>3. CASE session_compact
  BY <1>3 DEF session_compact, invalidateSnapshot
<1>4. ASSUME NEW s \in SessionFile, switchSession(s) PROVE BtwInv'
  BY <1>4, ReplacedCalls DEF switchSession, Replace
<1>5. ASSUME NEW s \in SessionFile, safeInvalidateSnapshot(s) PROVE BtwInv'
  BY <1>5, ReplacedCalls DEF safeInvalidateSnapshot, Replace
<1>6. ASSUME NEW q \in Question, handleBtwCommand(q) PROVE BtwInv'
  <2>0. [pc |-> "auth", session |-> open, live |-> TRUE] \in SideCall
    BY DEF SideCall
  <2>1. IsPrefix(histories[open], histories[open])
    BY PrefixOfItself
  <2> QED BY <1>6, <2>0, <2>1 DEF handleBtwCommand
<1>7. ASSUME NEW q \in Question, executeBtw(q) \/ setError(q) PROVE BtwInv'
  <2>1. call' \in [Question -> SideCall] /\ \A r \in Question : call'[r].session = call[r].session
    <3>1. call' = [call EXCEPT ![q].pc = "asking"] \/ call' = [call EXCEPT ![q].pc = "failed"]
      BY <1>7 DEF executeBtw, setError
    <3>2. PICK pc \in {"asking", "failed"} : call' = [call EXCEPT ![q].pc = pc]
      BY <3>1
    <3>3. call \in [Question -> SideCall] /\ pc \in {"idle", "auth", "asking", "answered", "failed"}
      BY <3>2
    <3> HIDE DEF BtwInv
    <3> QED BY <3>2, <3>3, OneCallMoves
  <2> QED BY <1>7, <2>1 DEF executeBtw, setError
<1>8. ASSUME NEW q \in Question, pushSessionTurn(q) PROVE BtwInv'
  <2>1. call' \in [Question -> SideCall] /\ \A r \in Question : call'[r].session = call[r].session
    BY <1>8, OneCallMoves DEF pushSessionTurn
  <2>2. /\ histories' \in [SessionFile -> Seq(Question)] 
        /\ UNCHANGED <<branches, open, messages, snapshots, screen>>
    BY <1>8 DEF pushSessionTurn
  <2>3. \A s \in SessionFile : histories'[s] \in {histories[s], Append(histories[s], q)}
    BY <1>8 DEF pushSessionTurn
  <2>4. screen # None => IsPrefix(screen.history, histories'[call[screen.call].session])
    <3> SUFFICES ASSUME screen # None
                 PROVE  IsPrefix(screen.history, histories'[call[screen.call].session])
      OBVIOUS
    <3> DEFINE s == call[screen.call].session
    <3>1. s \in SessionFile /\ screen.history \in Seq(Question) /\ histories[s] \in Seq(Question)
          /\ IsPrefix(screen.history, histories[s])
      OBVIOUS
    <3>2. histories'[s] = histories[s] \/ histories'[s] = Append(histories[s], q)
      BY <2>3, <3>1
    <3>3. \A h, l \in Seq(Question) : IsPrefix(h, l) => IsPrefix(h, Append(l, q))
      BY PrefixOfLonger
    <3> HIDE DEF s
    <3>4. IsPrefix(screen.history, histories'[s])
      BY <3>1, <3>2, <3>3
    <3> QED BY <3>4 DEF s
  <2> QED BY <2>1, <2>2, <2>4
<1>9. CASE dismiss
  BY <1>9 DEF dismiss
<1>10. CASE clearSessionHistory
  <2>1. screen # None /\ screen' = [screen EXCEPT !.history = <<>>]
    BY <1>10 DEF clearSessionHistory
  <2>2. screen' = [call |-> screen.call, history |-> <<>>] /\ screen.call \in Question
    BY <2>1
  <2>3. histories' \in [SessionFile -> Seq(Question)]
    BY <1>10 DEF clearSessionHistory
  <2>4. IsPrefix(<<>>, histories'[call[screen.call].session])
    BY <2>1, <2>3, EmptyPrefix
  <2> QED BY <1>10, <2>1, <2>2, <2>3, <2>4 DEF clearSessionHistory
<1>11. CASE UNCHANGED btwVars
  BY <1>11 DEF btwVars
<1> QED BY <1>1, <1>2, <1>3, <1>4, <1>5, <1>6, <1>7, <1>8, <1>9, <1>10, <1>11 DEF BtwNext

(* A side question is asked about messages that were not undone, and the   *)
(* questions on the screen are ones the session keeps, whatever is undone, *)
(* compacted, switched, dismissed or cleared while calls are under way.    *)
THEOREM AlwaysAsksAboutThisBranch == BtwSpec => []AsksAboutThisBranch
<1>1. BtwInit => BtwInv
  BY DEF BtwInit, BtwInv, SideCall
<1>2. BtwInv => AsksAboutThisBranch
  BY PrefixOfItself DEF BtwInv, AsksAboutThisBranch, readBranchMessages
<1> QED BY <1>1, <1>2, BtwStep, PTL DEF BtwSpec

-----------------------------------------------------------------------------
(* Advisor.  Of the changes Pi has still to tell, the last one tells what  *)
(* is at work.                                                             *)

ChangeEvent == [kind : {"model"}, model : Model] \cup [kind : {"level"}, level : Level]

LastIsNews(queue) ==
  queue # <<>> =>
    LET e == queue[Len(queue)] IN
    /\ e.kind = "model" => e.model = executor.model
    /\ e.kind = "level" => e.level = executor.level

AnyConfig == [model : Model \cup {Gone, None}, effort : Effort \cup {None},
              disabledForModels : Blocklists \cup {{}}]

Allowed == ~isModelBlocked(executor.model, executor.level)

SelectedFollowsFile ==
  /\ memory.model = IF config.model \in Model THEN config.model ELSE None
  /\ memory.model # None => memory.effort = config.effort

AdvisorInv ==
  /\ config \in AnyConfig
  /\ memory \in [model : Model \cup {None}, effort : Effort \cup {None}]
  /\ executor \in [model : Model, level : Level] /\ toolActive \in BOOLEAN
  /\ events \in Seq(ChangeEvent) /\ LastIsNews(events)
  /\ picker # None => agentPhase # "none" /\ (picker.awaits = "effort" => picker.of \in Model)
  /\ ~foreign /\ memory.model = None => memory.effort = None
  /\ agentPhase = "none" /\ ~foreign => memory.model = None
  /\ agentPhase # "none" /\ ~foreign => SelectedFollowsFile
  /\ agentPhase = "running" =>
       /\ memory.model = None => toolActive = FALSE
       /\ events = <<>> => toolActive = (memory.model # None /\ Allowed)

LEMMA AdvisorInvImplies == AdvisorInv => AdvisorFollowsPolicy
BY DEF AdvisorInv, AdvisorFollowsPolicy, Allowed, SelectedFollowsFile

(* The policy as the file has it, and the blocklist as it was restored.    *)
LEMMA AdvisorStep ==
  ASSUME AdvisorInv, [AdvisorNext]_advisorVars
  PROVE  AdvisorInv'
<1>0. CASE UNCHANGED advisorVars
  BY <1>0 DEF advisorVars, AdvisorInv, LastIsNews, Allowed, isModelBlocked, SelectedFollowsFile
<1>1. ASSUME NEW active \in BOOLEAN, NEW e \in [model : Model, level : Level],
             registerAdvisorSessionStart(active, e)
      PROVE  AdvisorInv'
  <2>1. /\ agentPhase' = "idle" /\ executor' = e /\ events' = <<>> /\ UNCHANGED <<config, picker, foreign>>
        /\ toolActive' \in BOOLEAN
    BY <1>1 DEF registerAdvisorSessionStart, restoreAdvisorState, AdvisorInv
  <2>2. memory' = IF config.model \notin Model THEN memory
                  ELSE [model |-> config.model,
                        effort |-> IF config.effort = None THEN memory.effort ELSE config.effort]
    BY <1>1 DEF registerAdvisorSessionStart, restoreAdvisorState
  <2>3. memory' \in [model : Model \cup {None}, effort : Effort \cup {None}]
    BY <2>2 DEF AdvisorInv, AnyConfig
  <2>4. ~foreign => SelectedFollowsFile'
    BY <2>1, <2>2, ModelAssumption DEF AdvisorInv, SelectedFollowsFile, AnyConfig
  <2>5. ~foreign /\ memory'.model = None => memory'.effort = None
    BY <2>2, ModelAssumption DEF AdvisorInv
  <2> QED BY <2>1, <2>3, <2>4, <2>5 DEF AdvisorInv, LastIsNews
<1>2. CASE registerAdvisorBeforeAgentStart
  BY <1>2 DEF registerAdvisorBeforeAgentStart, reconcileAdvisorTool, AdvisorInv, LastIsNews, Allowed,
     isModelBlocked, SelectedFollowsFile
<1>3. CASE agentEnds
  BY <1>3 DEF agentEnds, AdvisorInv, LastIsNews, SelectedFollowsFile
<1>4. ASSUME NEW e \in [model : Model, level : Level], Change(e) PROVE AdvisorInv'
  <2> DEFINE toldModel == IF e.model # executor.model THEN <<[kind |-> "model", model |-> e.model]>> ELSE <<>>
             toldLevel == IF e.level # executor.level THEN <<[kind |-> "level", level |-> e.level]>> ELSE <<>>
  <2>1. /\ executor' = e /\ events' = events \o toldModel \o toldLevel
        /\ UNCHANGED <<config, memory, disabledForModelsCache, toolActive, agentPhase, picker, foreign>>
    BY <1>4 DEF Change
  <2>2. /\ toldModel \in Seq(ChangeEvent) /\ toldLevel \in Seq(ChangeEvent)
        /\ events \in Seq(ChangeEvent) /\ LastIsNews(events)
        /\ executor \in [model : Model, level : Level]
    <3>1. events \in Seq(ChangeEvent) /\ LastIsNews(events) /\ executor \in [model : Model, level : Level]
      BY DEF AdvisorInv
    <3>2. /\ [kind |-> "model", model |-> e.model] \in ChangeEvent
          /\ [kind |-> "level", level |-> e.level] \in ChangeEvent
      BY DEF ChangeEvent
    <3> HIDE DEF ChangeEvent
    <3> QED BY <3>1, <3>2
  <2>3. events' \in Seq(ChangeEvent)
    <3> HIDE DEF toldModel, toldLevel
    <3> QED BY <2>1, <2>2
  <2>4. LastIsNews(events)'
    <3>1. CASE e.level # executor.level
      <4>1. events'[Len(events')] = [kind |-> "level", level |-> e.level]
        BY <2>1, <2>2, <3>1
      <4>2. events'[Len(events')].kind = "level" /\ events'[Len(events')].level = executor'.level
        <5>1. executor' = e
          BY <2>1
        <5> QED BY <4>1, <5>1
      <4> QED BY <4>2 DEF LastIsNews
    <3>2. CASE e.level = executor.level /\ e.model # executor.model
      <4>1. events'[Len(events')] = [kind |-> "model", model |-> e.model]
        BY <2>1, <2>2, <3>2
      <4>2. events'[Len(events')].kind = "model" /\ events'[Len(events')].model = executor'.model
        <5>1. executor' = e
          BY <2>1
        <5> QED BY <4>1, <5>1
      <4> QED BY <4>2 DEF LastIsNews
    <3>3. CASE e.level = executor.level /\ e.model = executor.model
      <4>1. events' = events
        BY <2>1, <2>2, <3>3
      <4> QED BY <2>1, <2>2, <3>3, <4>1 DEF LastIsNews
    <3> QED BY <3>1, <3>2, <3>3
  <2>5. events' = <<>> => events = <<>> /\ executor' = executor
    <3>1. events' = <<>> => toldModel = <<>> /\ toldLevel = <<>> /\ events = <<>>
      <4> HIDE DEF toldModel, toldLevel, ChangeEvent
      <4>1. Len(events') = Len(events) + Len(toldModel) + Len(toldLevel)
        BY <2>1, <2>2
      <4> QED BY <2>2, <4>1
    <3>2. toldModel = <<>> /\ toldLevel = <<>> => e.model = executor.model /\ e.level = executor.level
      OBVIOUS
    <3>3. e.model = executor.model /\ e.level = executor.level => e = executor
      BY <2>2
    <3> HIDE DEF toldModel, toldLevel
    <3> QED BY <2>1, <3>1, <3>2, <3>3
  <2> HIDE DEF toldModel, toldLevel
  <2> QED BY <2>1, <2>3, <2>4, <2>5 DEF AdvisorInv, Allowed, isModelBlocked, SelectedFollowsFile
<1>5. ASSUME model_select \/ thinking_level_select PROVE AdvisorInv'
  <2>0. /\ events \in Seq(ChangeEvent) /\ events # <<>> /\ events' = Tail(events)
        /\ UNCHANGED <<config, memory, disabledForModelsCache, executor, agentPhase, picker, foreign>>
    BY <1>5 DEF model_select, thinking_level_select, AdvisorInv
  <2>1. events' \in Seq(ChangeEvent) /\ (events' # <<>> => events'[Len(events')] = events[Len(events)])
    BY <2>0
  <2>2. LastIsNews(events)'
    BY <2>0, <2>1 DEF AdvisorInv, LastIsNews
  <2>3. events' = <<>> => Head(events) = events[Len(events)]
    <3>1. Len(Tail(events)) = Len(events) - 1 /\ Head(events) = events[1]
      BY <2>0
    <3>2. events' = <<>> => Len(events) = 1
      <4>1. Len(events) \in Nat
        BY <2>0
      <4>2. events' = <<>> => Len(Tail(events)) = 0
        <5>1. Len(<<>>) = 0
          OBVIOUS
        <5> QED BY <2>0, <5>1, Zenon
      <4> QED BY <3>1, <4>1, <4>2
    <3> QED BY <3>1, <3>2
  <2>4. memory.model = None => toolActive' = toolActive
    BY <1>5 DEF model_select, thinking_level_select
  <2>5. memory.model # None /\ events' = <<>> => toolActive' = Allowed
    <3>1. ASSUME memory.model # None, events' = <<>>, model_select PROVE toolActive' = Allowed
      BY <2>0, <2>3, <3>1 DEF model_select, reconcileAdvisorTool, Allowed, AdvisorInv, LastIsNews
    <3>2. ASSUME memory.model # None, events' = <<>>, thinking_level_select PROVE toolActive' = Allowed
      BY <2>0, <2>3, <3>2 DEF thinking_level_select, reconcileAdvisorTool, Allowed, AdvisorInv, LastIsNews
    <3> QED BY <1>5, <3>1, <3>2
  <2>6. toolActive' \in BOOLEAN
    BY <1>5, <2>4 DEF model_select, thinking_level_select, reconcileAdvisorTool, AdvisorInv
  <2>7. Allowed' = Allowed
    BY <2>0 DEF Allowed, isModelBlocked
  <2>8. agentPhase = "running" => /\ memory.model = None => toolActive' = FALSE
                                  /\ events' = <<>> => toolActive' = (memory.model # None /\ Allowed)
    <3>1. agentPhase = "running" /\ memory.model = None => toolActive = FALSE
      BY DEF AdvisorInv
    <3>2. ASSUME agentPhase = "running", memory.model = None
          PROVE  toolActive' = FALSE /\ FALSE = (memory.model # None /\ Allowed)
      BY <2>4, <3>1, <3>2, Zenon
    <3>3. ASSUME memory.model # None, events' = <<>>
          PROVE  toolActive' = (memory.model # None /\ Allowed)
      BY <2>5, <3>3, Zenon DEF Allowed
    <3> QED BY <3>2, <3>3, Zenon
  <2> QED BY <2>0, <2>1, <2>2, <2>6, <2>7, <2>8 DEF AdvisorInv, SelectedFollowsFile
<1>6. CASE advisorCommand \/ Dismissed
  BY <1>6 DEF advisorCommand, Dismissed, AdvisorInv, LastIsNews, Allowed, isModelBlocked, SelectedFollowsFile
<1>7. ASSUME NEW m \in Model \cup {None}, NEW effort \in Effort \cup {None}, apply(m, effort),
             m = None => effort = None, agentPhase # "none", picker' = None,
             UNCHANGED <<disabledForModelsCache, executor, agentPhase, events>>
      PROVE  AdvisorInv'
  <2>1. CASE /\ Saved(m, effort)
             /\ memory' = [model |-> m, effort |-> effort]
             /\ IF m = None THEN toolActive' = FALSE
                ELSE reconcileAdvisorTool(isModelBlocked(executor.model, executor.level))
    <3>1. config' \in AnyConfig /\ config'.model = m /\ config'.effort = effort
      BY <2>1 DEF Saved, AdvisorInv, AnyConfig
    <3>2. SelectedFollowsFile'
      BY <2>1, <3>1, ModelAssumption DEF SelectedFollowsFile
    <3>3. toolActive' \in BOOLEAN /\ toolActive' = (m # None /\ Allowed) /\ Allowed' = Allowed
      BY <1>7, <2>1 DEF reconcileAdvisorTool, Allowed, isModelBlocked
    <3> QED BY <1>7, <2>1, <3>1, <3>2, <3>3 DEF AdvisorInv, LastIsNews
  <2>2. CASE NotSaved /\ UNCHANGED <<memory, toolActive>>
    <3>1. config' \in AnyConfig /\ (~foreign' => ~foreign /\ config' = config)
      BY <2>2 DEF NotSaved, NoConfig, AdvisorInv, AnyConfig
    <3>2. Allowed' = Allowed
      BY <1>7 DEF Allowed, isModelBlocked
    <3> QED BY <1>7, <2>2, <3>1, <3>2 DEF AdvisorInv, LastIsNews, SelectedFollowsFile
  <2> QED BY <1>7, <2>1, <2>2 DEF apply
<1>8. ASSUME NEW choice \in Model \cup {None}, showAdvisorPicker(choice) PROVE AdvisorInv'
  <2>0. agentPhase # "none"
    BY <1>8, PickerAssumption DEF showAdvisorPicker, AdvisorInv
  <2>1. CASE choice \in Reasoning
    <3>1. choice \in Model /\ picker' = [awaits |-> "effort", of |-> choice]
          /\ UNCHANGED <<config, memory, disabledForModelsCache, executor, toolActive, agentPhase, events, foreign>>
      BY <1>8, <2>1, ModelAssumption DEF showAdvisorPicker
    <3>2. picker'.of \in Model
      BY <3>1
    <3> QED BY <2>0, <3>1, <3>2 DEF AdvisorInv, LastIsNews, Allowed, isModelBlocked, SelectedFollowsFile
  <2>2. CASE choice \notin Reasoning
    BY <1>7, <1>8, <2>0, <2>2 DEF showAdvisorPicker
  <2> QED BY <2>1, <2>2
<1>9. ASSUME NEW effort \in Effort \cup {None}, showEffortPicker(effort) PROVE AdvisorInv'
  <2>1. /\ picker.of \in Model \cup {None} /\ picker.of # None /\ agentPhase # "none" /\ picker' = None
        /\ apply(picker.of, effort) /\ UNCHANGED <<disabledForModelsCache, executor, agentPhase, events>>
    BY <1>9, ModelAssumption DEF showEffortPicker, AdvisorInv
  <2> QED BY <1>7, <2>1
<1>10. ASSUME NEW c \in Config, EditConfig(c) PROVE AdvisorInv'
  BY <1>10 DEF EditConfig, AdvisorInv, Config, AnyConfig, LastIsNews, Allowed, isModelBlocked
<1> QED BY <1>0, <1>1, <1>2, <1>3, <1>4, <1>5, <1>6, <1>8, <1>9, <1>10 DEF AdvisorNext

(* A running agent has the adviser exactly when one is selected and not    *)
(* blocked, in whatever order sessions open, model and level change and    *)
(* /advisor is used, for every blocklist; and the memory follows the file. *)
THEOREM AdvisorAlwaysFollowsPolicy == AdvisorSpec => []AdvisorFollowsPolicy
<1>1. AdvisorInit => AdvisorInv
  BY ModelAssumption DEF AdvisorInit, AdvisorInv, AnyConfig, Config, LastIsNews, Allowed
<1> QED BY <1>1, AdvisorStep, AdvisorInvImplies, PTL DEF AdvisorSpec

-----------------------------------------------------------------------------
(* Questionnaire.  What takes text or notes, or stands beside the options, *)
(* is on the tab of a question.                                            *)

Note == Text \union {Empty, None}

UiState == [currentTab : 1..Submit, optionIndex : Int, inputMode : BOOLEAN, notesVisible : BOOLEAN,
            chatFocused : BOOLEAN, collapsed : BOOLEAN, multiSelectChecked : SUBSET Int,
            submitChoiceIndex : Int, notesDraft : Note]

OnQuestion == ui.notesVisible \/ ui.chatFocused \/ ui.inputMode => ui.currentTab \in Tabs

DialogInv ==
  /\ questions \in Questionnaires
  /\ answers \in [Tabs -> QuestionAnswer \union {None}]
  /\ notesByTab \in [Tabs -> Text \union {None}]
  /\ inputText \in Text \union {Empty}
  /\ Open => ui \in UiState /\ OnQuestion
  /\ ScreenMatchesAnswers

(* Nothing of the invariant is about a dialog that was answered.           *)
LEMMA DoneIsClosed ==
  ASSUME NEW ans \in [Tabs -> QuestionAnswer \union {None}], NEW cancelled \in BOOLEAN, doneFor(ans, cancelled),
         questions \in Questionnaires
  PROVE  ~Open'
<1>1. Tabs \subseteq Int
  BY QuestionAssumption DEF Tabs
<1>2. \A t \in {x \in Tabs : ans[x] # None} : <<t, ans[t]>> \in Int \X QuestionAnswer
  BY <1>1
<1>3. {<<t, ans[t]>> : t \in {x \in Tabs : ans[x] # None}} \in SUBSET (Int \X QuestionAnswer)
  <2> HIDE DEF QuestionAnswer
  <2> QED BY <1>2
<1>4. result' \in QuestionnaireResult
  BY <1>3 DEF doneFor, QuestionnaireResult
<1> QED BY <1>4, QuestionAssumption DEF Open

LEMMA TabFacts ==
  ASSUME questions \in Questionnaires
  PROVE  /\ Len(questions) \in Nat /\ Tabs = 1..Len(questions) /\ Submit = Len(questions) + 1
         /\ \A t \in Tabs : questions[t] \in {"plain", "preview", "multi"}
BY QuestionAssumption DEF Tabs, Submit

(* Where the keys of a mode find the dialog.                               *)
LEMMA ModeFacts ==
  ASSUME questions \in Questionnaires, ui \in UiState, OnQuestion
  PROVE  /\ Mode \in {"notes", "chat", "input", "plain", "preview", "multi"} => ui.currentTab \in Tabs
         /\ Mode = "multi" => questions[ui.currentTab] = "multi"
         /\ Mode = "input" => ui.inputMode
<1>1. Kind \in {"plain", "preview", "multi"} => ui.currentTab \in Tabs
  BY DEF Kind
<1>2. Kind = "multi" => questions[ui.currentTab] = "multi"
  BY DEF Kind
<1>3. Kind \in {"plain", "preview", "multi", "submit"}
  BY TabFacts DEF Kind
<1>4. Mode = IF ui.collapsed THEN "collapsed" ELSE IF ui.notesVisible THEN "notes"
             ELSE IF ui.chatFocused THEN "chat" ELSE IF ui.inputMode THEN "input" ELSE Kind
  BY DEF Mode
<1> QED BY <1>1, <1>2, <1>3, <1>4 DEF OnQuestion

LEMMA ChecksAreSets ==
  ASSUME NEW ans \in [Tabs -> QuestionAnswer \union {None}], NEW t
  PROVE  SavedChecks(ans, t) \in SUBSET Int
BY DEF SavedChecks, QuestionAnswer

(* The tab switched to shows what is recorded for it.                      *)
LEMMA Switched ==
  ASSUME questions \in Questionnaires, ui \in UiState, notesByTab \in [Tabs -> Text \union {None}],
         NEW ans \in [Tabs -> QuestionAnswer \union {None}], NEW t \in 1..Submit, switchTab(t, ans),
         questions' = questions
  PROVE  /\ ui' \in UiState /\ OnQuestion'
         /\ ui'.currentTab = t /\ ui'.multiSelectChecked = SavedChecks(ans, t)
<1> DEFINE draft == CASE t \in Tabs /\ notesByTab[t] # None -> notesByTab[t]
                      [] t \in Tabs /\ notesByTab[t] = None /\ ans[t] # None
                           /\ ans[t].notes # None -> ans[t].notes
                      [] OTHER -> Empty
<1>1. draft \in Note
  <2>1. CASE t \in Tabs /\ notesByTab[t] # None
    BY <2>1 DEF Note
  <2>2. CASE t \in Tabs /\ notesByTab[t] = None /\ ans[t] # None /\ ans[t].notes # None
    BY <2>2 DEF Note, QuestionAnswer
  <2>3. CASE /\ ~(t \in Tabs /\ notesByTab[t] # None)
             /\ ~(t \in Tabs /\ notesByTab[t] = None /\ ans[t] # None /\ ans[t].notes # None)
    BY <2>3 DEF Note
  <2> QED BY <2>1, <2>2, <2>3
<1>2. ui' = [ui EXCEPT !.currentTab = t, !.optionIndex = 1, !.inputMode = FALSE, !.notesVisible = FALSE,
                       !.chatFocused = FALSE, !.submitChoiceIndex = 0,
                       !.multiSelectChecked = SavedChecks(ans, t), !.notesDraft = draft]
  BY DEF switchTab
<1> HIDE DEF draft
<1>3. SavedChecks(ans, t) \in SUBSET Int
  BY ChecksAreSets
<1>4. UiState' = UiState
  BY DEF UiState, Submit
<1>5. ui' \in UiState
  <2>1. ui' = [currentTab |-> t, optionIndex |-> 1, inputMode |-> FALSE, notesVisible |-> FALSE,
               chatFocused |-> FALSE, collapsed |-> ui.collapsed,
               multiSelectChecked |-> SavedChecks(ans, t), submitChoiceIndex |-> 0, notesDraft |-> draft]
    BY <1>2 DEF UiState
  <2>2. ui.collapsed \in BOOLEAN
    BY DEF UiState
  <2> QED BY <1>1, <1>3, <2>1, <2>2 DEF UiState
<1>6. /\ ui'.currentTab = t /\ ui'.multiSelectChecked = SavedChecks(ans, t)
      /\ ui'.inputMode = FALSE /\ ui'.notesVisible = FALSE /\ ui'.chatFocused = FALSE
  BY <1>2 DEF UiState
<1> QED BY <1>4, <1>5, <1>6 DEF OnQuestion

LEMMA Committed ==
  ASSUME DialogInv, Open, ui.currentTab \in Tabs, NEW answer \in QuestionAnswer,
         answer.notes = notesByTab[ui.currentTab], Commit(answer)
  PROVE  DialogInv'
<1> DEFINE ans == [answers EXCEPT ![ui.currentTab] = answer]
<1>1. /\ answers' = ans /\ UNCHANGED <<questions, notesByTab, inputText>>
      /\ IF answer.kind # "chat" /\ isMulti
         THEN switchTab(ui.currentTab + 1, ans) /\ UNCHANGED result ELSE doneFor(ans, FALSE)
  BY DEF Commit
<1>2. /\ ans \in [Tabs -> QuestionAnswer \union {None}]
      /\ \A t \in Tabs : ans[t] # None => ans[t].notes = notesByTab[t]
  BY DEF DialogInv, ScreenMatchesAnswers
<1> HIDE DEF ans
<1>3. Tabs' = Tabs
  BY <1>1 DEF Tabs
<1>4. CASE switchTab(ui.currentTab + 1, ans)
  <2>1. ui.currentTab + 1 \in 1..Submit
    BY TabFacts DEF DialogInv
  <2>2. /\ ui' \in UiState /\ OnQuestion'
        /\ ui'.currentTab = ui.currentTab + 1
        /\ ui'.multiSelectChecked = SavedChecks(ans, ui.currentTab + 1)
    BY <1>1, <1>2, <1>4, <2>1, Switched DEF DialogInv
  <2>3. UiState' = UiState
    BY <1>1 DEF UiState, Submit
  <2>4. SavedChecks(answers, ui.currentTab)' = SavedChecks(ans, ui.currentTab + 1)
    BY <1>1, <1>3, <2>2 DEF SavedChecks
  <2> QED BY <1>1, <1>2, <1>3, <2>2, <2>3, <2>4 DEF DialogInv, ScreenMatchesAnswers
<1>5. CASE doneFor(ans, FALSE)
  BY <1>1, <1>2, <1>3, <1>5, DoneIsClosed DEF DialogInv, ScreenMatchesAnswers
<1> QED BY <1>1, <1>4, <1>5

(* A step that leaves the tab, the boxes, the answers and the notes alone. *)
LEMMA ScreenKept ==
  ASSUME DialogInv, Open, UNCHANGED <<questions, answers, notesByTab>>, inputText' \in Text \union {Empty},
         ui' \in UiState, OnQuestion', ui'.currentTab = ui.currentTab,
         ui'.multiSelectChecked = ui.multiSelectChecked
  PROVE  DialogInv'
<1>1. Tabs' = Tabs /\ UiState' = UiState /\ SavedChecks(answers, ui.currentTab)' = SavedChecks(answers, ui.currentTab)
  BY DEF Tabs, UiState, Submit, SavedChecks
<1> QED BY <1>1 DEF DialogInv, ScreenMatchesAnswers

LEMMA DialogStep ==
  ASSUME DialogInv, [QuestionnaireNext]_questionVars
  PROVE  DialogInv'
<1>0. CASE UNCHANGED questionVars
  BY <1>0 DEF questionVars, DialogInv, ScreenMatchesAnswers, Open, OnQuestion, UiState, Submit, Tabs, SavedChecks
<1>open. CASE QuestionnaireNext /\ ~Open
  BY <1>open DEF QuestionnaireNext, cancel, toggle_collapsed, handleIgnoreInline, Up, Down, submit_nav, tab_switch,
     notes_enter, notes_forward, notes_exit, confirm, toggle, multi_confirm, submit
<1>next. CASE QuestionnaireNext /\ Open
  <2>0. /\ questions \in Questionnaires /\ ui \in UiState /\ OnQuestion /\ Open
        /\ answers \in [Tabs -> QuestionAnswer \union {None}]
        /\ notesByTab \in [Tabs -> Text \union {None}] /\ inputText \in Text \union {Empty}
    BY <1>next DEF DialogInv
  <2>1. ASSUME cancel \/ submit PROVE DialogInv'
    <3>1. PICK cancelled \in BOOLEAN : doneFor(answers, cancelled)
      BY <2>1 DEF cancel, submit
    <3>2. ~Open' /\ UNCHANGED <<questions, answers, notesByTab, inputText>>
      BY <2>0, <2>1, <3>1, DoneIsClosed DEF cancel, submit
    <3> QED BY <3>2 DEF DialogInv, ScreenMatchesAnswers, Tabs
  <2>2. ASSUME toggle_collapsed \/ submit_nav PROVE DialogInv'
    <3>1. ui' \in UiState /\ OnQuestion' /\ ui'.currentTab = ui.currentTab
          /\ ui'.multiSelectChecked = ui.multiSelectChecked
          /\ UNCHANGED <<questions, answers, notesByTab, inputText>>
      <4>1. CASE toggle_collapsed
        <5>1. (~ui.collapsed) \in BOOLEAN
          BY <2>0 DEF UiState
        <5> QED BY <2>0, <4>1, <5>1 DEF toggle_collapsed, UiState, OnQuestion, Tabs
      <4>2. CASE submit_nav
        <5>1. 1 - ui.submitChoiceIndex \in Int
          BY <2>0 DEF UiState
        <5> QED BY <2>0, <4>2, <5>1 DEF submit_nav, UiState, OnQuestion, Tabs
      <4> QED BY <2>2, <4>1, <4>2
    <3> QED BY <2>0, <3>1, ScreenKept
  <2>3. CASE handleIgnoreInline
    BY <2>0, <2>3, ScreenKept DEF handleIgnoreInline, OnQuestion, Tabs
  <2>4. ASSUME NEW i, nav(i) \/ focus_options(i), i \in Int, ui.currentTab \in Tabs PROVE DialogInv'
    <3>1. /\ ui' \in UiState /\ ui'.currentTab = ui.currentTab /\ ui'.multiSelectChecked = ui.multiSelectChecked
          /\ UNCHANGED <<questions, answers, notesByTab>>
      BY <2>0, <2>4 DEF nav, focus_options, UiState, ActivatesInput
    <3>2. OnQuestion'
      BY <2>4, <3>1 DEF OnQuestion, Tabs
    <3>3. inputText' \in Text \union {Empty}
      <4>1. ASSUME answers[ui.currentTab] # None, answers[ui.currentTab].text # None
            PROVE  answers[ui.currentTab].text \in Text
        BY <2>0, <2>4, <4>1 DEF QuestionAnswer
      <4> QED BY <2>0, <2>4, <4>1 DEF nav, focus_options
    <3> QED BY <2>0, <3>1, <3>2, <3>3, ScreenKept
  <2>5. ASSUME focus_chat, ui.currentTab \in Tabs PROVE DialogInv'
    <3>1. /\ ui' \in UiState /\ ui'.currentTab = ui.currentTab /\ ui'.multiSelectChecked = ui.multiSelectChecked
          /\ UNCHANGED <<questions, answers, notesByTab, inputText>>
      BY <2>0, <2>5 DEF focus_chat, UiState
    <3>2. OnQuestion'
      BY <2>5, <3>1 DEF OnQuestion, Tabs
    <3> QED BY <2>0, <3>1, <3>2, ScreenKept
  <2>6. Len(Rows) \in Int
    <3>1. CASE Kind = "plain"
      BY <3>1 DEF Rows
    <3>2. CASE Kind = "multi"
      BY <3>2 DEF Rows
    <3>3. CASE Kind = "preview"
      BY <3>3 DEF Rows
    <3>4. CASE Kind \notin {"plain", "multi", "preview"}
      BY <3>4 DEF Rows
    <3> QED BY <3>1, <3>2, <3>3, <3>4
  <2>7. ASSUME Up \/ Down PROVE DialogInv'
    <3>1. ui.currentTab \in Tabs
      BY <2>0, <2>7, ModeFacts DEF Up, Down
    <3>2. ui.optionIndex \in Int
      BY <2>0 DEF UiState
    <3>3. \/ focus_chat
          \/ \E i \in Int : nav(i) \/ focus_options(i)
      BY <2>6, <2>7, <3>2 DEF Up, Down
    <3> QED BY <2>4, <2>5, <3>1, <3>3
  <2>8. CASE tab_switch
    <3>1. /\ UNCHANGED <<questions, answers, notesByTab, inputText, result>>
          /\ \E t \in 1..Submit : switchTab(t, answers)
      <4>1. /\ UNCHANGED <<questions, answers, notesByTab, inputText, result>>
            /\ \/ switchTab((ui.currentTab % Submit) + 1, answers)
               \/ switchTab(((ui.currentTab + Submit - 2) % Submit) + 1, answers)
        BY <2>8 DEF tab_switch
      <4>2. Submit \in Nat \ {0} /\ ui.currentTab \in Int
        BY <2>0, TabFacts DEF UiState
      <4>3. /\ (ui.currentTab % Submit) + 1 \in 1..Submit
            /\ ((ui.currentTab + Submit - 2) % Submit) + 1 \in 1..Submit
        BY <4>2
      <4> QED BY <4>1, <4>3
    <3>2. PICK t \in 1..Submit : switchTab(t, answers)
      BY <3>1
    <3>3. /\ ui' \in UiState /\ OnQuestion'
          /\ ui'.currentTab = t /\ ui'.multiSelectChecked = SavedChecks(answers, t)
      BY <2>0, <3>1, <3>2, Switched
    <3>4. UiState' = UiState /\ Tabs' = Tabs /\ SavedChecks(answers, ui.currentTab)' = SavedChecks(answers, t)
      BY <3>1, <3>3 DEF UiState, Submit, Tabs, SavedChecks
    <3> QED BY <2>0, <3>1, <3>3, <3>4 DEF DialogInv, ScreenMatchesAnswers
  <2>9. CASE notes_enter
    <3>1. ui.currentTab \in Tabs
      BY <2>0, <2>9, ModeFacts DEF notes_enter
    <3> DEFINE draft == IF answers[ui.currentTab] # None /\ answers[ui.currentTab].notes # None
                        THEN answers[ui.currentTab].notes ELSE Empty
    <3>2. draft \in Note
      BY <2>0, <3>1 DEF Note, QuestionAnswer
    <3>3. ui' = [ui EXCEPT !.notesVisible = TRUE, !.notesDraft = draft]
          /\ UNCHANGED <<questions, answers, notesByTab, inputText>>
      BY <2>9 DEF notes_enter
    <3> HIDE DEF draft
    <3>4. ui' \in UiState /\ ui'.currentTab = ui.currentTab /\ ui'.multiSelectChecked = ui.multiSelectChecked
      BY <2>0, <3>2, <3>3 DEF UiState
    <3>5. OnQuestion'
      BY <3>1, <3>3, <3>4 DEF OnQuestion, Tabs
    <3> QED BY <2>0, <3>3, <3>4, <3>5, ScreenKept
  <2>10. CASE notes_forward
    <3>1. PICK t \in Text \union {Empty} : ui' = [ui EXCEPT !.notesDraft = t]
      BY <2>10 DEF notes_forward
    <3>2. UNCHANGED <<questions, answers, notesByTab, inputText>>
      BY <2>10 DEF notes_forward
    <3>3. ui' \in UiState /\ ui'.currentTab = ui.currentTab /\ ui'.multiSelectChecked = ui.multiSelectChecked
          /\ ui'.notesVisible = ui.notesVisible /\ ui'.chatFocused = ui.chatFocused /\ ui'.inputMode = ui.inputMode
      BY <2>0, <3>1 DEF UiState, Note
    <3>4. OnQuestion'
      BY <2>0, <3>2, <3>3 DEF OnQuestion, Tabs
    <3> QED BY <2>0, <3>2, <3>3, <3>4, ScreenKept
  <2>11. CASE notes_exit
    <3> DEFINE t == ui.currentTab
               notes == IF ui.notesDraft = Empty THEN None ELSE ui.notesDraft
    <3>1. t \in Tabs
      BY <2>0, <2>11, ModeFacts DEF notes_exit
    <3>2. notes \in Text \union {None}
      BY <2>0 DEF UiState, Note
    <3>3. /\ notesByTab' = [notesByTab EXCEPT ![t] = notes]
          /\ answers' = IF answers[t] = None THEN answers ELSE [answers EXCEPT ![t].notes = notes]
          /\ ui' = [ui EXCEPT !.notesVisible = FALSE] /\ UNCHANGED <<questions, inputText, result>>
      BY <2>11 DEF notes_exit
    <3> HIDE DEF notes
    <3>4. /\ ui' \in UiState /\ ui'.currentTab = t /\ ui'.multiSelectChecked = ui.multiSelectChecked
          /\ ui'.notesVisible = FALSE /\ ui'.chatFocused = ui.chatFocused /\ ui'.inputMode = ui.inputMode
      BY <2>0, <3>3 DEF UiState
    <3>5. OnQuestion' /\ Tabs' = Tabs /\ UiState' = UiState
      BY <3>1, <3>3, <3>4 DEF OnQuestion, Tabs, UiState, Submit
    <3>6. /\ \A x \in Tabs \ {t} : answers'[x] = answers[x] /\ notesByTab'[x] = notesByTab[x]
          /\ notesByTab' \in [Tabs -> Text \union {None}] /\ notesByTab'[t] = notes
          /\ DOMAIN answers' = Tabs
      BY <2>0, <3>1, <3>2, <3>3
    <3>7. /\ answers[t] = None => answers'[t] = None
          /\ answers[t] # None => /\ answers'[t] \in QuestionAnswer /\ answers'[t].notes = notes
                                  /\ answers'[t].picked = answers[t].picked
      <4>1. answers[t] # None => answers[t] \in QuestionAnswer
        BY <2>0, <3>1
      <4>2. answers[t] # None => answers'[t] = [answers[t] EXCEPT !.notes = notes]
        BY <2>0, <3>1, <3>3
      <4>3. answers[t] = None => answers'[t] = None
        BY <3>3
      <4> QED BY <3>2, <4>1, <4>2, <4>3 DEF QuestionAnswer
    <3>8. answers' \in [Tabs -> QuestionAnswer \union {None}]
      <4>1. \A x \in Tabs : answers'[x] \in QuestionAnswer \union {None}
        BY <2>0, <3>6, <3>7
      <4>2. answers' = [x \in Tabs |-> answers'[x]]
        BY <2>0, <3>1, <3>3
      <4> QED BY <4>1, <4>2
    <3>9. SavedChecks(answers, ui.currentTab)' = SavedChecks(answers, t)
      <4>1. None \notin QuestionAnswer
        BY QuestionAssumption
      <4> QED BY <3>1, <3>3, <3>4, <3>5, <3>7, <4>1 DEF SavedChecks
    <3>10. \A x \in Tabs : answers'[x] # None => answers'[x].notes = notesByTab'[x]
      BY <2>0, <3>6, <3>7 DEF DialogInv, ScreenMatchesAnswers
    <3> QED BY <2>0, <3>3, <3>4, <3>5, <3>6, <3>8, <3>9, <3>10 DEF DialogInv, ScreenMatchesAnswers
  <2>12. ASSUME NEW kind \in {"option", "custom", "chat", "multi"}, NEW choice \in Int,
                NEW text \in Text \union {None}, NEW picked \in SUBSET Int, ui.currentTab \in Tabs
         PROVE  /\ Answer(kind, choice, text, picked) \in QuestionAnswer
                /\ Answer(kind, choice, text, picked).notes = notesByTab[ui.currentTab]
                /\ Answer(kind, choice, text, picked).picked = picked
    BY <2>0, <2>12 DEF Answer, QuestionAnswer
  <2>13. ASSUME NEW kind \in {"option", "custom", "chat", "multi"}, NEW choice \in Int,
                NEW text \in Text \union {None}, NEW picked \in SUBSET Int, ui.currentTab \in Tabs,
                Commit(Answer(kind, choice, text, picked))
         PROVE  DialogInv'
    BY <2>0, <2>12, <2>13, Committed
  <2>14. ui.optionIndex \in Int /\ ui.multiSelectChecked \in SUBSET Int /\ {} \in SUBSET Int /\ 0 \in Int
    BY <2>0 DEF UiState
  <2>15. CASE confirm \/ multi_confirm
    <3>1. ui.currentTab \in Tabs
      BY <2>0, <2>15, ModeFacts DEF confirm, multi_confirm
    <3>2. (IF inputText = Empty THEN None ELSE inputText) \in Text \union {None}
      BY <2>0
    <3> QED BY <2>13, <2>14, <2>15, <3>1, <3>2 DEF confirm, multi_confirm
  <2>16. CASE toggle
    <3> DEFINE checked == IF ui.optionIndex \in ui.multiSelectChecked
                          THEN ui.multiSelectChecked \ {ui.optionIndex}
                          ELSE ui.multiSelectChecked \union {ui.optionIndex}
               answer == IF checked = {} THEN None ELSE Answer("multi", 0, None, checked)
    <3>1. ui.currentTab \in Tabs /\ questions[ui.currentTab] = "multi"
      BY <2>0, <2>16, ModeFacts DEF toggle
    <3>2. checked \in SUBSET Int
      BY <2>14
    <3>3. /\ ui' = [ui EXCEPT !.multiSelectChecked = checked]
          /\ answers' = [answers EXCEPT ![ui.currentTab] = answer]
          /\ UNCHANGED <<questions, notesByTab, inputText, result>>
      BY <2>16 DEF toggle
    <3>4. /\ checked = {} => answer = None
          /\ checked # {} => /\ answer \in QuestionAnswer /\ answer.picked = checked
                             /\ answer.notes = notesByTab[ui.currentTab]
      BY <2>12, <3>1, <3>2
    <3> HIDE DEF checked, answer
    <3>5. /\ ui' \in UiState /\ ui'.currentTab = ui.currentTab /\ ui'.multiSelectChecked = checked
          /\ ui'.notesVisible = ui.notesVisible /\ ui'.chatFocused = ui.chatFocused /\ ui'.inputMode = ui.inputMode
      BY <2>0, <3>2, <3>3 DEF UiState
    <3>6. OnQuestion' /\ Tabs' = Tabs /\ UiState' = UiState
      BY <2>0, <3>3, <3>5 DEF OnQuestion, Tabs, UiState, Submit
    <3>7. /\ answers' \in [Tabs -> QuestionAnswer \union {None}]
          /\ \A x \in Tabs : answers'[x] = IF x = ui.currentTab THEN answer ELSE answers[x]
      BY <2>0, <3>1, <3>3, <3>4
    <3>8. SavedChecks(answers, ui.currentTab)' = checked
      <4>1. None \notin QuestionAnswer
        BY QuestionAssumption
      <4> QED BY <3>1, <3>3, <3>4, <3>5, <3>6, <3>7, <4>1 DEF SavedChecks
    <3>9. \A x \in Tabs : answers'[x] # None => answers'[x].notes = notesByTab'[x]
      BY <2>0, <3>3, <3>4, <3>7 DEF DialogInv, ScreenMatchesAnswers
    <3> QED BY <2>0, <3>3, <3>5, <3>6, <3>7, <3>8, <3>9 DEF DialogInv, ScreenMatchesAnswers
  <2> QED BY <1>next, <2>1, <2>2, <2>3, <2>7, <2>8, <2>9, <2>10, <2>11, <2>15, <2>16 DEF QuestionnaireNext
<1> QED BY <1>0, <1>open, <1>next

(* While the dialog is open, the boxes on the screen are the answer of the *)
(* tab and an answer has the notes of its tab, for every questionnaire and *)
(* every order of keys.                                                    *)
THEOREM ScreenAlwaysMatchesAnswers == QuestionnaireSpec => []ScreenMatchesAnswers
<1>1. QuestionnaireInit => DialogInv
  <2> SUFFICES ASSUME QuestionnaireInit PROVE DialogInv
    OBVIOUS
  <2>1. questions \in Questionnaires /\ 1 \in 1..Submit
    BY TabFacts DEF QuestionnaireInit
  <2>2. ui \in UiState /\ OnQuestion
    BY <2>1 DEF QuestionnaireInit, UiState, Note, OnQuestion
  <2>3. SavedChecks(answers, ui.currentTab) = {} /\ ui.multiSelectChecked = {}
    BY DEF SavedChecks, QuestionnaireInit
  <2> QED BY <2>1, <2>2, <2>3 DEF QuestionnaireInit, DialogInv, ScreenMatchesAnswers
<1>2. DialogInv => ScreenMatchesAnswers
  BY DEF DialogInv
<1> QED BY <1>1, <1>2, DialogStep, PTL DEF QuestionnaireSpec

-----------------------------------------------------------------------------
(* SessionHooks.  Unless a session was disposed of while it compacted, at  *)
(* most one handler awaits git, for the session that is open; and the      *)
(* process remembers of a transcript what is in it.                        *)

Phases == {"gone", "starting", "idle", "running", "compacting"}

GitLoad == [session : Nat, next : {"idle", "running"}, read : Int]

HookTypes ==
  /\ head \in Nat /\ cache \in Int
  /\ session \in [n : Nat, phase : Phases]
  /\ loads \subseteq GitLoad
  /\ transcript \in [git : Int \cup {None}, guides : SUBSET (Guide \cup {RootGuide})]

Remembered ==
  IF session.phase = "gone" THEN lastInjectedSig = None /\ injectedGuidance = {}
  ELSE lastInjectedSig = transcript.git /\ injectedGuidance = transcript.guides

OneAwait ==
  \A l \in loads :
    /\ l.session = session.n /\ session.phase \in {"starting", "idle", "compacting"}
    /\ l.read \in {Unset, Failed, head}
    /\ loads = {l}

CacheIsFresh ==
  /\ pending => session.phase = "running" /\ cache = Unset
  /\ cache \notin {Unset, Failed} => cache = head
  /\ cache \notin {Unset, Failed} /\ session.phase = "running" => transcript.git = cache

Orderly == Remembered /\ OneAwait /\ CacheIsFresh

HookInv == HookTypes /\ (~raced => Orderly)

(* The handler of the session that is open gets its context.               *)
LEMMA TakeKeeps ==
  ASSUME HookTypes, Remembered, NEW g, g \in {Failed, head}, NEW phase \in {"idle", "running"},
         session.phase # "gone", ~pending, pending' = pending, head' = head,
         injectedGuidance' = injectedGuidance, Take(session.n, g, phase)
  PROVE  /\ transcript' \in [git : Int \cup {None}, guides : SUBSET (Guide \cup {RootGuide})]
         /\ session' = [n |-> session.n, phase |-> phase] /\ cache' = g /\ cache' \in Int
         /\ Remembered' /\ CacheIsFresh'
<1>1. /\ session' = [n |-> session.n, phase |-> phase] /\ session'.phase = phase
      /\ session \in [n : Nat, phase : Phases]
  BY DEF Take, SessionOpen, Phase, HookTypes
<1>2. g \in Int /\ g \in Int \cup {None}
  BY DEF HookTypes, Failed
<1>3. CASE g \in {Failed, lastInjectedSig}
  <2>1. UNCHANGED <<lastInjectedSig, transcript>> /\ cache' = g
    BY <1>3 DEF Take
  <2> QED BY <1>1, <1>2, <1>3, <2>1 DEF HookTypes, Remembered, CacheIsFresh
<1>4. CASE g \notin {Failed, lastInjectedSig}
  <2>1. lastInjectedSig' = g /\ transcript' = [transcript EXCEPT !.git = g] /\ cache' = g
    BY <1>4 DEF Take, SessionOpen
  <2>2. transcript' = [git |-> g, guides |-> transcript.guides]
    BY <2>1 DEF HookTypes
  <2>3. transcript'.git = g /\ transcript'.guides = transcript.guides
    BY <2>2
  <2> QED BY <1>1, <1>2, <1>4, <2>1, <2>2, <2>3 DEF HookTypes, Remembered, CacheIsFresh
<1> QED BY <1>3, <1>4

(* Whatever handler takes it, types are kept.                              *)
LEMMA TakeTypes ==
  ASSUME HookTypes, NEW n, NEW g \in Int, NEW phase \in Phases, Take(n, g, phase)
  PROVE  /\ transcript' \in [git : Int \cup {None}, guides : SUBSET (Guide \cup {RootGuide})]
         /\ session' \in [n : Nat, phase : Phases] /\ cache' \in Int
<1>1. [transcript EXCEPT !.git = g] \in [git : Int \cup {None}, guides : SUBSET (Guide \cup {RootGuide})]
  BY DEF HookTypes
<1>2. [session EXCEPT !.phase = phase] \in [n : Nat, phase : Phases]
  BY DEF HookTypes
<1> QED BY <1>1, <1>2 DEF Take, Phase, HookTypes

LEMMA GetKeeps ==
  ASSUME HookInv, NEW phase \in {"idle", "running"}, session.phase \in {"starting", "idle"},
         getGitContext(phase), UNCHANGED <<head, injectedGuidance, pending, raced>>
  PROVE  HookInv'
<1>0. HookTypes /\ ~Awaiting /\ Phases = {"gone", "starting", "idle", "running", "compacting"}
  BY DEF HookInv, getGitContext, Phases
<1>1. CASE cache # Unset
  <2>1. Take(session.n, cache, phase) /\ loads' = loads
    BY <1>1 DEF getGitContext
  <2>2. HookTypes'
    BY <1>0, <2>1, TakeTypes DEF HookTypes
  <2>3. ASSUME ~raced PROVE Orderly'
    <3>1. Remembered /\ OneAwait /\ CacheIsFresh
      BY <2>3 DEF HookInv, Orderly
    <3>2. cache \in {Failed, head} /\ ~pending /\ loads = {}
      BY <1>0, <1>1, <3>1 DEF CacheIsFresh, OneAwait, Awaiting
    <3>3. Remembered' /\ CacheIsFresh'
      BY <1>0, <2>1, <3>1, <3>2, TakeKeeps
    <3> QED BY <2>1, <3>2, <3>3 DEF Orderly, OneAwait
  <2> QED BY <2>2, <2>3 DEF HookInv
<1>2. CASE cache = Unset
  <2> DEFINE new == [session |-> session.n, next |-> phase, read |-> Unset]
  <2>1. loads' = loads \cup {new} /\ UNCHANGED <<cache, lastInjectedSig, transcript, session>>
    BY <1>2 DEF getGitContext, AwaitGit
  <2>2. new \in GitLoad /\ new.session = session.n /\ new.read = Unset
    BY <1>0 DEF GitLoad, HookTypes, Unset
  <2> HIDE DEF new
  <2>3. HookTypes'
    BY <1>0, <2>1, <2>2 DEF HookTypes
  <2>4. ASSUME ~raced PROVE Orderly'
    <3>1. Remembered /\ OneAwait /\ CacheIsFresh
      BY <2>4 DEF HookInv, Orderly
    <3>2. loads = {}
      BY <1>0, <3>1 DEF OneAwait, Awaiting
    <3>3. OneAwait'
      BY <2>1, <2>2, <3>2 DEF OneAwait
    <3> QED BY <2>1, <3>1, <3>3 DEF Orderly, Remembered, CacheIsFresh
  <2> QED BY <2>3, <2>4 DEF HookInv
<1> QED BY <1>1, <1>2

LEMMA HookStep ==
  ASSUME HookInv, [HooksNext]_hookVars
  PROVE  HookInv'
<1>0. HookTypes /\ Phases = {"gone", "starting", "idle", "running", "compacting"}
  BY DEF HookInv, Phases
<1>1. CASE UNCHANGED hookVars
  BY <1>1 DEF hookVars, HookInv, HookTypes, Orderly, Remembered, OneAwait, CacheIsFresh
<1>2. CASE onSessionStart
  <2>1. /\ session.phase = "gone" /\ session' = [n |-> session.n + 1, phase |-> "starting"]
        /\ injectedGuidance' = {RootGuide} /\ transcript' = [git |-> None, guides |-> {RootGuide}]
        /\ UNCHANGED <<head, cache, lastInjectedSig, loads, pending, failures, raced>>
    BY <1>2 DEF onSessionStart
  <2>2. HookTypes'
    BY <1>0, <2>1 DEF HookTypes
  <2>3. ~raced => Orderly'
    BY <2>1 DEF HookInv, Orderly, Remembered, OneAwait, CacheIsFresh
  <2> QED BY <2>1, <2>2, <2>3 DEF HookInv
<1>3. CASE injectGitContext \/ onBeforeAgentStart
  BY <1>3, GetKeeps DEF injectGitContext, onBeforeAgentStart
<1>4. ASSUME NEW l \in loads, loadGitContext(l) PROVE HookInv'
  <2>1. PICK read \in {head, Failed} :
          /\ l.read = Unset /\ loads' = (loads \ {l}) \cup {[l EXCEPT !.read = read]}
          /\ UNCHANGED <<head, cache, lastInjectedSig, injectedGuidance, session, transcript, pending, raced>>
    BY <1>4 DEF loadGitContext
  <2> DEFINE new == [l EXCEPT !.read = read]
  <2>2. new \in GitLoad /\ new.session = l.session /\ new.read = read
    BY <1>0, <2>1 DEF HookTypes, GitLoad, Failed
  <2> HIDE DEF new
  <2>3. loads' = (loads \ {l}) \cup {new}
    BY <2>1 DEF new
  <2>4. HookTypes'
    BY <1>0, <2>1, <2>2, <2>3 DEF HookTypes
  <2>5. ASSUME ~raced PROVE Orderly'
    <3>1. Remembered /\ OneAwait /\ CacheIsFresh
      BY <2>5 DEF HookInv, Orderly
    <3>2. loads' = {new} /\ l.session = session.n /\ session.phase \in {"starting", "idle", "compacting"}
      BY <2>3, <3>1 DEF OneAwait
    <3>3. OneAwait'
      BY <2>1, <2>2, <3>2 DEF OneAwait
    <3> QED BY <2>1, <3>1, <3>3 DEF Orderly, Remembered, CacheIsFresh
  <2> QED BY <2>1, <2>4, <2>5 DEF HookInv
<1>5. ASSUME NEW l \in loads, gitContextLoaded(l) PROVE HookInv'
  <2>1. /\ l.read # Unset /\ Take(l.session, l.read, l.next) /\ loads' = loads \ {l}
        /\ UNCHANGED <<head, injectedGuidance, pending, failures, raced>>
    BY <1>5 DEF gitContextLoaded
  <2>2. l \in GitLoad
    BY <1>0 DEF HookTypes
  <2>3. HookTypes'
    BY <1>0, <2>1, <2>2, TakeTypes DEF HookTypes, GitLoad
  <2>4. ASSUME ~raced PROVE Orderly'
    <3>1. Remembered /\ OneAwait /\ CacheIsFresh
      BY <2>4 DEF HookInv, Orderly
    <3>2. /\ l.session = session.n /\ session.phase \in {"starting", "idle", "compacting"}
          /\ l.read \in {Failed, head} /\ loads' = {} /\ ~pending
      BY <2>1, <3>1 DEF OneAwait, CacheIsFresh
    <3>3. Remembered' /\ CacheIsFresh'
      BY <1>0, <2>1, <2>2, <3>1, <3>2, TakeKeeps DEF GitLoad
    <3> QED BY <3>2, <3>3 DEF Orderly, OneAwait
  <2> QED BY <2>1, <2>3, <2>4 DEF HookInv
<1>6. CASE onToolCall \/ commandEnds
  <2>1. HookTypes'
    BY <1>0, <1>6 DEF HookTypes, onToolCall, commandEnds, Unset
  <2>2. ~raced => Orderly'
    BY <1>0, <1>6 DEF HookInv, Orderly, Remembered, OneAwait, CacheIsFresh, onToolCall, commandEnds
  <2>3. raced' = raced
    BY <1>6 DEF onToolCall, commandEnds
  <2> QED BY <2>1, <2>2, <2>3 DEF HookInv
<1>7. CASE onAgentEnd
  <2>1. /\ session.phase = "running" /\ session' = [n |-> session.n, phase |-> "idle"] /\ ~pending
        /\ UNCHANGED <<head, cache, lastInjectedSig, injectedGuidance, loads, transcript, pending, raced>>
    BY <1>0, <1>7 DEF onAgentEnd, Phase, HookTypes
  <2>2. HookTypes'
    BY <1>0, <2>1 DEF HookTypes
  <2>3. ~raced => Orderly'
    BY <2>1 DEF HookInv, Orderly, Remembered, OneAwait, CacheIsFresh
  <2> QED BY <2>1, <2>2, <2>3 DEF HookInv
<1>8. ASSUME NEW g \in Guide, handleToolCallGuidance(g) PROVE HookInv'
  <2>1. /\ session.phase = "running" /\ injectedGuidance' = injectedGuidance \cup {RootGuide, g}
        /\ transcript' = [git |-> transcript.git,
                          guides |-> transcript.guides \cup ({RootGuide, g} \ injectedGuidance)]
        /\ UNCHANGED <<head, cache, lastInjectedSig, session, loads, pending, raced>>
    BY <1>0, <1>8 DEF handleToolCallGuidance, HookTypes
  <2>2. /\ transcript'.git = transcript.git
        /\ transcript'.guides = transcript.guides \cup ({RootGuide, g} \ injectedGuidance)
    BY <2>1
  <2>3. HookTypes'
    BY <1>0, <2>1 DEF HookTypes
  <2>4. ~raced => Orderly'
    BY <2>1, <2>2 DEF HookInv, Orderly, Remembered, OneAwait, CacheIsFresh
  <2> QED BY <2>1, <2>3, <2>4 DEF HookInv
<1>9. CASE onSessionCompact
  <2> DEFINE new == [session |-> session.n, next |-> "idle", read |-> Unset]
  <2>1. /\ session.phase = "idle" /\ ~Awaiting /\ session' = [n |-> session.n, phase |-> "compacting"]
        /\ injectedGuidance' = {RootGuide} /\ cache' = Unset /\ lastInjectedSig' = None
        /\ loads' = loads \cup {new}
        /\ transcript' = [git |-> None, guides |-> {RootGuide}]
        /\ UNCHANGED <<head, pending, failures, raced>>
    BY <1>0, <1>9 DEF onSessionCompact, Forget, Phase, AwaitGit, Blank, HookTypes
  <2>2. new \in GitLoad /\ new.session = session.n /\ new.read = Unset
    BY <1>0 DEF GitLoad, HookTypes, Unset
  <2> HIDE DEF new
  <2>3. HookTypes'
    BY <1>0, <2>1, <2>2 DEF HookTypes, Unset
  <2>4. ASSUME ~raced PROVE Orderly'
    <3>1. loads = {} /\ ~pending
      BY <2>1, <2>4 DEF HookInv, Orderly, OneAwait, Awaiting, CacheIsFresh
    <3> QED BY <2>1, <2>2, <3>1 DEF Orderly, Remembered, OneAwait, CacheIsFresh
  <2> QED BY <2>1, <2>3, <2>4 DEF HookInv
<1>10. CASE onSessionShutdown
  <2>1. /\ session' = [n |-> session.n, phase |-> "gone"]
        /\ injectedGuidance' = {} /\ cache' = Unset /\ lastInjectedSig' = None
        /\ UNCHANGED <<head, loads, transcript, pending, failures>>
        /\ ~raced' => session.phase = "idle" /\ ~Awaiting /\ ~raced
    BY <1>0, <1>10 DEF onSessionShutdown, Forget, Phase, HookTypes
  <2>2. HookTypes'
    BY <1>0, <2>1 DEF HookTypes, Unset
  <2>3. ASSUME ~raced' PROVE Orderly'
    <3>1. loads = {} /\ ~pending
      BY <2>1, <2>3 DEF HookInv, Orderly, OneAwait, Awaiting, CacheIsFresh
    <3> QED BY <2>1, <3>1 DEF Orderly, Remembered, OneAwait, CacheIsFresh
  <2> QED BY <2>2, <2>3 DEF HookInv
<1>11. CASE onStaleCompact
  <2>1. /\ cache' = Unset /\ raced' = TRUE
        /\ UNCHANGED <<head, session, loads, transcript, pending, failures>>
    BY <1>11 DEF onStaleCompact, Forget
  <2> QED BY <1>0, <2>1 DEF HookInv, HookTypes, Unset
<1> QED BY <1>1, <1>2, <1>3, <1>4, <1>5, <1>6, <1>7, <1>8, <1>9, <1>10, <1>11 DEF HooksNext

LEMMA HookInitInv == HooksInit => HookInv
BY DEF HooksInit, HookInv, HookTypes, Phases, GitLoad, Orderly, Remembered, OneAwait, CacheIsFresh, Blank, Unset

(* What the process believes to have injected is in the transcript, in     *)
(* whatever order sessions open, compact, run commands and end.            *)
THEOREM MemoryAlwaysMatches == HooksSpec => []MemoryMatchesTranscript
<1>1. HookInv => MemoryMatchesTranscript
  BY DEF HookInv, Orderly, Remembered, MemoryMatchesTranscript, Started
<1> QED BY <1>1, HookInitInv, HookStep, PTL DEF HooksSpec

(* No cached branch or commit survives the command that moved HEAD.        *)
THEOREM ContextIsAlwaysCurrent == HooksSpec => []ContextIsCurrent
<1>1. HookInv => ContextIsCurrent
  BY DEF HookInv, Orderly, CacheIsFresh, ContextIsCurrent
<1> QED BY <1>1, HookInitInv, HookStep, PTL DEF HooksSpec

=============================================================================
