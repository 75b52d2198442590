----------------------------- MODULE SessionHooks -----------------------------
(***************************************************************************)
(* rpiv-pi: what the session hooks put into the transcript.  The branch    *)
(* and commit are read by git, cached, and injected when they differ from  *)
(* what was injected last; guidance files are injected once each.  The     *)
(* memory of both belongs to the process, the transcript to a session: a   *)
(* compaction clears it and a new session starts with an empty one.  Pi    *)
(* runs one session at a time, but may dispose of one that is compacting.  *)
(* Commands the user runs outside Pi are left out, and so are the status   *)
(* line and the banner.                                                    *)
(***************************************************************************)
EXTENDS Integers, FiniteSets, Absence

CONSTANTS
  Guide,         \* guidance files below the root one
  RootGuide,     \* .rpiv/guidance/architecture.md
  MaxHead,       \* bound: commands that move HEAD
  MaxSession,    \* bound: sessions
  MaxFailures    \* bound: git calls that time out

Unset == -1    \* cache: not loaded
Failed == -2   \* cache: null, not a repository or git failed

VARIABLES
  head,       \* what git rev-parse says
  cache,      \* git-context.ts: cache
  lastInjectedSig,
  injectedGuidance,
  session,    \* the session: its number and what it is doing
  loads,      \* the git calls awaited, and for which handler of which session
  transcript, \* what the session's transcript holds
  pending,    \* a bash command that moves HEAD was called and has not ended
  failures,   \* history: git calls that failed
  raced       \* history: a session was disposed of while it compacted

hookVars == <<head, cache, lastInjectedSig, injectedGuidance, session, loads,
              transcript, pending, failures, raced>>

Blank == [git |-> None, guides |-> {}]

HooksInit ==
  /\ head = 0 /\ cache = Unset /\ lastInjectedSig = None /\ injectedGuidance = {}
  /\ session = [n |-> 0, phase |-> "gone"]
  /\ loads = {} /\ transcript = Blank /\ pending = FALSE /\ failures = 0 /\ raced = FALSE

Phase(p) == session' = [session EXCEPT !.phase = p]

-----------------------------------------------------------------------------
SessionOpen(n) == n = session.n /\ session.phase # "gone"
Awaiting == \E l \in loads : l.session = session.n

(* takeGitContextIfChanged, once the context is there: g is what the       *)
(* handler of session n gets.  A message for a session that is gone throws *)
(* in Pi and the handler lets that pass.                                   *)
Take(n, g, phase) ==
  /\ cache' = g
  /\ IF g \in {Failed, lastInjectedSig}
     THEN UNCHANGED <<lastInjectedSig, transcript>>
     ELSE /\ lastInjectedSig' = g
          /\ transcript' = IF SessionOpen(n) THEN [transcript EXCEPT !.git = g] ELSE transcript
  /\ IF SessionOpen(n) THEN Phase(phase) ELSE UNCHANGED session

(* getGitContext: awaits git unless the cache is set. *)
AwaitGit(next) == loads' = loads \cup {[session |-> session.n, next |-> next, read |-> Unset]}

getGitContext(next) ==
  /\ ~Awaiting
  /\ IF cache # Unset THEN Take(session.n, cache, next) /\ UNCHANGED loads
     ELSE AwaitGit(next) /\ UNCHANGED <<cache, lastInjectedSig, transcript, session>>

loadGitContext(l) ==
  /\ l.read = Unset
  /\ \E read \in {head, Failed} :
       /\ loads' = (loads \ {l}) \cup {[l EXCEPT !.read = read]}
       /\ failures' = IF read = Failed THEN failures + 1 ELSE failures
       /\ failures' <= MaxFailures
  /\ UNCHANGED <<head, cache, lastInjectedSig, injectedGuidance, session, transcript,
                 pending, raced>>

gitContextLoaded(l) ==
  /\ l.read # Unset
  /\ Take(l.session, l.read, l.next)
  /\ loads' = loads \ {l}
  /\ UNCHANGED <<head, injectedGuidance, pending, failures, raced>>

-----------------------------------------------------------------------------
(* onSessionStart forgets which guidance was injected, and only that;      *)
(* injectRootGuidance comes before the git context is awaited.             *)
onSessionStart ==
  /\ session.phase = "gone" /\ session.n < MaxSession
  /\ session' = [n |-> session.n + 1, phase |-> "starting"]
  /\ injectedGuidance' = {RootGuide}
  /\ transcript' = [git |-> None, guides |-> {RootGuide}]
  /\ UNCHANGED <<head, cache, lastInjectedSig, loads, pending, failures, raced>>

injectGitContext ==
  /\ session.phase = "starting"
  /\ getGitContext("idle")
  /\ UNCHANGED <<head, injectedGuidance, pending, failures, raced>>

onBeforeAgentStart ==
  /\ session.phase = "idle"
  /\ getGitContext("running")
  /\ UNCHANGED <<head, injectedGuidance, pending, failures, raced>>

(* Mutant: the command's context is not dropped. *)
onToolCallKeeps ==
  /\ session.phase = "running" /\ ~pending /\ head < MaxHead
  /\ pending' = TRUE
  /\ UNCHANGED <<head, cache, lastInjectedSig, injectedGuidance, session, loads, transcript, failures, raced>>

(* A bash command with a mutating git verb: the cache goes when it is      *)
(* called, HEAD moves when it runs.                                        *)
onToolCall ==
  /\ session.phase = "running" /\ ~pending /\ head < MaxHead
  /\ pending' = TRUE
  /\ cache' = Unset
  /\ UNCHANGED <<head, lastInjectedSig, injectedGuidance, session, loads, transcript, failures, raced>>

commandEnds ==
  /\ pending /\ pending' = FALSE
  /\ head' \in {head, head + 1} /\ head' <= MaxHead
  /\ UNCHANGED <<cache, lastInjectedSig, injectedGuidance, session, loads, transcript, failures, raced>>

(* A read, edit or write: the guidance on the way down to the file. *)
handleToolCallGuidance(g) ==
  /\ session.phase = "running"
  /\ injectedGuidance' = injectedGuidance \cup {RootGuide, g}
  /\ transcript' = [transcript EXCEPT !.guides = @ \cup ({RootGuide, g} \ injectedGuidance)]
  /\ UNCHANGED <<head, cache, lastInjectedSig, session, loads, pending, failures, raced>>

onAgentEnd ==
  /\ session.phase = "running" /\ ~pending /\ Phase("idle")
  /\ UNCHANGED <<head, cache, lastInjectedSig, injectedGuidance, loads, transcript, pending,
                 failures, raced>>

(* Mutant: the marker outlives the transcript it is about. *)
ForgetBut(guides) == injectedGuidance' = guides /\ cache' = Unset /\ UNCHANGED lastInjectedSig

(* Everything the process remembers of a transcript goes, but for guidance *)
(* injected in the same step.                                              *)
Forget(guides) == injectedGuidance' = guides /\ cache' = Unset /\ lastInjectedSig' = None

(* Pi has replaced the transcript by a summary.  All up to the await of    *)
(* git is one step.                                                        *)
onSessionCompact ==
  /\ session.phase = "idle" /\ ~Awaiting
  /\ Forget({RootGuide})
  /\ Phase("compacting") /\ AwaitGit("idle")
  /\ transcript' = [Blank EXCEPT !.guides = {RootGuide}]
  /\ UNCHANGED <<head, pending, failures, raced>>

(* Pi waits for the handlers of a session before it disposes of it, except *)
(* for those of a compaction.                                              *)
onSessionShutdown ==
  /\ \/ session.phase = "idle" /\ ~Awaiting /\ UNCHANGED raced
     \/ session.phase = "compacting" /\ raced' = TRUE
  /\ Forget({})
  /\ Phase("gone")
  /\ UNCHANGED <<head, loads, transcript, pending, failures>>

(* The handler of a compaction whose session is gone: it forgets, then its *)
(* dead context throws and it gives up.                                    *)
onStaleCompact ==
  /\ session.phase = "gone" /\ session.n > 0
  /\ Forget({}) /\ raced' = TRUE
  /\ UNCHANGED <<head, session, loads, transcript, pending, failures>>

HooksNext ==
  \/ onSessionStart \/ injectGitContext
  \/ \E l \in loads : loadGitContext(l) \/ gitContextLoaded(l)
  \/ onBeforeAgentStart \/ onToolCall \/ commandEnds \/ onAgentEnd
  \/ \E g \in Guide : handleToolCallGuidance(g)
  \/ onSessionCompact \/ onStaleCompact \/ onSessionShutdown

HooksSpec == HooksInit /\ [][HooksNext]_hookVars

-----------------------------------------------------------------------------
Started == session.phase = "running" \/ (session.phase = "idle" /\ ~Awaiting)

(* What the process believes to have injected is what the transcript of    *)
(* its session holds: nothing is injected twice, and nothing is missing    *)
(* because an earlier transcript had it.                                   *)
MemoryMatchesTranscript ==
  Started /\ ~raced => /\ transcript.git = lastInjectedSig
                       /\ transcript.guides = injectedGuidance

(* The context an agent works with is where HEAD was when it started, or   *)
(* git failed: no cached value survives the command that moved HEAD.       *)
ContextIsCurrent ==
  session.phase = "running" /\ cache \notin {Unset, Failed} /\ ~raced
    => cache = head /\ transcript.git = head

(* A session that is ready has the git context in its transcript, whatever *)
(* became of the one it replaces: session-hooks.ts says that "the          *)
(* replacement session's session_start re-runs all of this".               *)
ReplacementHasContext == Started /\ failures = 0 => transcript.git # None
=============================================================================
