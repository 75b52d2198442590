--------------------------------- MODULE Warp ---------------------------------
(***************************************************************************)
(* rpiv-warp: what Pi's events do to Warp's tab: the badge that the OSC    *)
(* 777 messages move, the heartbeat that repeats one of them while an      *)
(* agent works, the prompt that follows 300 ms after it stops, and the     *)
(* title, which the spinner pushes, rewrites and pops.  The handlers are   *)
(* synchronous.  Texts, and terminals other than Warp, are left out.       *)
(***************************************************************************)
EXTENDS Integers

CONSTANT BlockingCall  \* calls of the tools that wait for the user

VARIABLES
  agent,      \* Pi: no session, idle, or an agent at work
  asked,      \* Pi: the blocking calls that the user has yet to answer
  pendingBlockingCalls, idleTimer, heartbeat, spinner,
  heartbeats, \* heartbeatMs is not 0
  badge,      \* Warp: what the tab shows
  titles,     \* the terminal: titles pushed and not popped
  overtaken,  \* history: a call has ended since the ones still asked began
  abandoned   \* history: the last agent was at work when its session was shut down

warpVars == <<agent, asked, pendingBlockingCalls, idleTimer, heartbeat, spinner, heartbeats,
              badge, titles, overtaken, abandoned>>

WarpInit ==
  /\ agent = "none" /\ asked = {}
  /\ pendingBlockingCalls = {} /\ idleTimer = FALSE /\ heartbeat = FALSE /\ spinner = FALSE
  /\ heartbeats \in BOOLEAN
  /\ badge = "none" /\ titles = 0 /\ overtaken = FALSE /\ abandoned = FALSE

-----------------------------------------------------------------------------
(* Warp's tab: a question stays on the badge until its call is complete, or*)
(* a prompt is submitted; the stop of an agent does not clear it.  The     *)
(* start of a session, and the prompt of an idle one, only notify.         *)
Receives(shown, event) ==
  CASE event = "prompt_submit" -> "in progress"
    [] event = "question_asked" -> "blocked"
    [] event = "tool_complete" -> IF shown = "blocked" THEN "in progress" ELSE shown
    [] event = "stop" -> IF shown = "blocked" THEN shown ELSE "success"
    [] event = "idle_prompt" -> shown

emit(event) == badge' = Receives(badge, event)

(* Both are idempotent: one ticker, and one title on the stack. *)
startSpinner == spinner' = TRUE /\ titles' = IF spinner THEN titles ELSE titles + 1
stopSpinner == spinner' = FALSE /\ titles' = IF spinner THEN titles - 1 ELSE titles

startHeartbeat == heartbeat' = heartbeats

(* The first session of the process is announced, which leaves the badge.  *)
session_start ==
  /\ agent = "none" /\ agent' = "idle"
  /\ UNCHANGED <<asked, pendingBlockingCalls, idleTimer, heartbeat, spinner, heartbeats, badge,
                 titles, overtaken, abandoned>>

agent_start ==
  /\ agent = "idle" /\ agent' = "running"
  /\ emit("prompt_submit") /\ startSpinner /\ startHeartbeat
  /\ idleTimer' = FALSE /\ abandoned' = FALSE
  /\ UNCHANGED <<asked, pendingBlockingCalls, heartbeats, overtaken>>

captureBlockingCall(c) == pendingBlockingCalls' = pendingBlockingCalls \cup {c}
consumeBlockingCall(c) == pendingBlockingCalls' = pendingBlockingCalls \ {c}

tool_call(c) ==
  /\ agent = "running" /\ c \notin asked
  /\ asked' = asked \cup {c}
  /\ captureBlockingCall(c)
  /\ emit("question_asked") /\ stopSpinner /\ heartbeat' = FALSE
  /\ overtaken' = FALSE
  /\ UNCHANGED <<agent, idleTimer, heartbeats, abandoned>>

(* Also of a call that was refused before it was announced. *)
tool_execution_end(c) ==
  /\ agent = "running"
  /\ asked' = asked \ {c}
  /\ consumeBlockingCall(c)
  /\ emit("tool_complete") /\ startSpinner /\ startHeartbeat
  /\ overtaken' = (asked' # {})
  /\ UNCHANGED <<agent, idleTimer, heartbeats, abandoned>>

(* Mutant: the calls are forgotten and Warp is not told. *)
drainedSilently == badge

(* The calls of an aborted agent never end: Warp is told here that each of *)
(* them is complete, which frees the badge.                                *)
drained ==
  IF pendingBlockingCalls # {} THEN Receives(badge, "tool_complete") ELSE badge

agent_end ==
  /\ agent = "running" /\ agent' = "idle" /\ asked' = {} /\ overtaken' = FALSE
  /\ pendingBlockingCalls' = {} /\ badge' = Receives(drained, "stop")
  /\ stopSpinner /\ heartbeat' = FALSE
  /\ idleTimer' = TRUE
  /\ UNCHANGED <<heartbeats, abandoned>>

(* Also in the middle of an agent, whose events then no longer arrive: its *)
(* calls are forgotten, and Warp is told nothing.                          *)
session_shutdown ==
  /\ agent # "none" /\ agent' = "none" /\ asked' = {} /\ overtaken' = FALSE
  /\ idleTimer' = FALSE /\ heartbeat' = FALSE /\ pendingBlockingCalls' = {} /\ stopSpinner
  /\ abandoned' = (abandoned \/ agent = "running")
  /\ UNCHANGED <<heartbeats, badge>>

idleTimerFires ==
  /\ idleTimer /\ idleTimer' = FALSE
  /\ emit("idle_prompt")
  /\ UNCHANGED <<agent, asked, pendingBlockingCalls, heartbeat, spinner, heartbeats, titles,
                 overtaken, abandoned>>

heartbeatTicks ==
  /\ heartbeat /\ emit("prompt_submit")
  /\ UNCHANGED <<agent, asked, pendingBlockingCalls, idleTimer, heartbeat, spinner, heartbeats,
                 titles, overtaken, abandoned>>

WarpNext ==
  \/ session_start \/ agent_start \/ agent_end \/ session_shutdown
  \/ \E c \in BlockingCall : tool_call(c) \/ tool_execution_end(c)
  \/ idleTimerFires \/ heartbeatTicks

WarpSpec == WarpInit /\ [][WarpNext]_warpVars

-----------------------------------------------------------------------------
(* The badge says what the agent does, however its turn ends.  An agent at *)
(* work is shown at work, or as waiting exactly if a question is open,     *)
(* unless another call ended meanwhile, and no idle prompt is coming.  When*)
(* none is at work the badge shows neither work nor a question, though the *)
(* calls of an aborted agent never end, unless a session was shut down     *)
(* around its agent; nothing ticks, and Pi's own title is back.            *)
TabTellsTheTruth ==
  IF agent = "running"
  THEN /\ badge \in {"in progress", "blocked"} /\ ~idleTimer
       /\ ~overtaken => (badge = "blocked" <=> asked # {})
  ELSE /\ ~abandoned => badge \in {"none", "success"}
       /\ ~heartbeat /\ ~spinner /\ titles = 0
=============================================================================
