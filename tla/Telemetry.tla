------------------------------ MODULE Telemetry ------------------------------
(***************************************************************************)
(* rpiv-telemetry in a Pi process: the handlers of Pi's events and of the  *)
(* sub-agents' bus feed the dispatcher, the MLflow provider turns events   *)
(* into spans, and session_shutdown finalizes.  Times and payloads are     *)
(* left out: a span is the number of the event that opened it.             *)
(***************************************************************************)
EXTENDS Dispatcher, Functions

CONSTANTS
  Call,       \* tool calls that may run at a time
  Agent,      \* sub-agents
  MaxSeq,     \* bound: provider requests of a session
  MaxTaken,   \* bound: events accepted before Pi falls silent
  MaxSessions \* bound: sessions of the process

(* What Pi, the bus and finalize say is what may be dispatched. *)
ASSUME TelemetryAssumption ==
  /\ "mlflow" \in Provider /\ None \notin Nat /\ MaxSeq \in Nat /\ MaxSessions \in Nat
  /\ \A s \in 1..MaxSessions :
       /\ [kind : {"session_start", "agent_start", "agent_end", "turn_end", "message_end",
                   "session_shutdown"}, session : {s}] \subseteq Event
       /\ [kind : {"tool_execution_start", "tool_execution_end"}, session : {s},
           call : Call] \subseteq Event
       /\ [kind : {"llm_request_start", "llm_request_end"}, session : {s},
           seq : 1..MaxSeq] \subseteq Event
       /\ [kind : {"subagent_created", "subagent_started", "subagent_completed",
                   "subagent_failed"}, session : {s}, agent : Agent] \subseteq Event

VARIABLES
  phase,     \* of the extension: up, the loop of flushOrphanSubAgents, or down
  session,   \* currentSessionId; 0 is the empty one
  sessions,  \* how many sessions Pi has started
  seq,       \* requestSeqBySession of the session
  tracked,   \* inflightSubAgents
  pi,        \* Pi itself: what runs and may end
  agents,    \* the sub-agents' manager: how far each agent is
  announced, \* history: agents whose created event was accepted this session
  terminals, \* history: terminal events accepted for each agent this session
  open,      \* MLflow: the spans started and not ended
  turnSpan, toolSpans, llmSpans, latestLlmSpan \* MlflowSpanRegistry

telemetryVars == <<phase, session, sessions, seq, tracked, pi, agents,
                   announced, terminals>>
registryVars == <<open, turnSpan, toolSpans, llmSpans, latestLlmSpan>>
vars == <<dispatcherVars, telemetryVars, registryVars>>

PiEvent(kind) == [kind |-> kind, session |-> session]
ToolEvent(kind, c) == [kind |-> kind, session |-> session, call |-> c]
LlmEvent(kind, n) == [kind |-> kind, session |-> session, seq |-> n]
AgentEvent(kind, a) == [kind |-> kind, session |-> session, agent |-> a]

Quiet == [turn |-> FALSE, calls |-> {}, asked |-> 0, answered |-> 0]

Init ==
  /\ DispatcherInit
  /\ phase = "down" /\ session = 0 /\ sessions = 0 /\ seq = 0 /\ tracked = {}
  /\ pi = Quiet /\ agents = [a \in Agent |-> "none"]
  /\ announced = {} /\ terminals = [a \in Agent |-> 0]
  /\ open = {} /\ turnSpan = None /\ toolSpans = <<>> /\ llmSpans = <<>>
  /\ latestLlmSpan = None

-----------------------------------------------------------------------------
(* Pi's events.  Pi drives a turn, its tool calls and its requests; a side *)
(* request may overlap, and a turn may break off with calls still open.    *)

Live == phase = "up" /\ taken < MaxTaken

registerConfiguredProviders == \E configured \in SUBSET Provider : providers' = configured

initInstrumentation ==
  /\ phase = "down" /\ sessions < MaxSessions
  /\ phase' = "up" /\ sessions' = sessions + 1
  /\ pi' = Quiet /\ agents' = [a \in Agent |-> "none"]
  /\ registerConfiguredProviders
  /\ announced' = {} /\ terminals' = [a \in Agent |-> 0]
  /\ UNCHANGED <<taken, queue, flushing, inFlight, job, immediates, closing, remaining, last,
                 shed, session, seq, tracked, registryVars>>

(* The handler stores the id before the event is dispatched. *)
sessionStart ==
  /\ Live /\ session = 0
  /\ session' = sessions
  /\ dispatch([kind |-> "session_start", session |-> sessions])
  /\ UNCHANGED <<phase, sessions, seq, tracked, pi, agents, announced, terminals, registryVars>>

Dispatching(event) ==
  /\ Live /\ session # 0
  /\ dispatch(event)
  /\ UNCHANGED <<phase, session, sessions, tracked, agents, announced, terminals, registryVars>>

agentStart ==
  /\ ~pi.turn
  /\ Dispatching(PiEvent("agent_start"))
  /\ pi' = [pi EXCEPT !.turn = TRUE]
  /\ UNCHANGED seq

agentEnd ==
  /\ pi.turn
  /\ Dispatching(PiEvent("agent_end"))
  /\ pi' = [pi EXCEPT !.turn = FALSE]
  /\ UNCHANGED seq

(* The kinds that only leave an attribute on the turn's span.              *)
attributeOnly == Dispatching(PiEvent("turn_end")) /\ UNCHANGED <<pi, seq>>

toolExecutionStart(c) ==
  /\ pi.turn /\ c \notin pi.calls
  /\ Dispatching(ToolEvent("tool_execution_start", c))
  /\ pi' = [pi EXCEPT !.calls = @ \cup {c}]
  /\ UNCHANGED seq

toolExecutionEnd(c) ==
  /\ c \in pi.calls
  /\ Dispatching(ToolEvent("tool_execution_end", c))
  /\ pi' = [pi EXCEPT !.calls = @ \ {c}]
  /\ UNCHANGED seq

beforeProviderRequest ==
  /\ seq < MaxSeq
  /\ seq' = seq + 1
  /\ Dispatching(LlmEvent("llm_request_start", seq'))
  /\ pi' = [pi EXCEPT !.asked = @ + 1]

(* The answer carries the latest number, whichever request it answers. *)
afterProviderResponse ==
  /\ pi.answered < pi.asked
  /\ Dispatching(LlmEvent("llm_request_end", seq))
  /\ pi' = [pi EXCEPT !.answered = @ + 1]
  /\ UNCHANGED seq

messageEnd == Dispatching(PiEvent("message_end")) /\ UNCHANGED <<pi, seq>>

(* Another extension registers the provider the configuration leaves out.  *)
LateProvider ==
  /\ phase = "up" /\ "mlflow" \notin providers
  /\ registerProvider("mlflow")
  /\ UNCHANGED <<telemetryVars, registryVars>>

-----------------------------------------------------------------------------
(* The bus of the sub-agents.                                              *)

Terminal == {"subagent_completed", "subagent_failed"}
BusKind == {"subagent_created", "subagent_started"} \cup Terminal

(* created is announced for background agents only, started for all.       *)
AgentMoves(a, kind) ==
  CASE kind = "subagent_created" -> agents[a] = "none"
    [] kind = "subagent_started" -> agents[a] \in {"none", "created"}
    [] kind \in Terminal -> agents[a] \in {"created", "running"}

AgentStateAfter(a, kind) ==
  CASE kind = "subagent_created" -> "created"
    [] kind = "subagent_started" -> IF agents[a] = "created" THEN "running" ELSE "foreground"
    [] OTHER -> "over"

(* Mutant: a terminal event leaves the agent in the tracker. *)
TrackedAfterKept(a, kind) ==
  IF kind = "subagent_created" THEN tracked \cup {a} ELSE tracked

TrackedAfter(a, kind) ==
  CASE kind = "subagent_created" -> tracked \cup {a}
    [] kind \in Terminal -> tracked \ {a}
    [] OTHER -> tracked

(* The histories: what the dispatcher accepted about an agent. *)
Noted(a, kind) ==
  IF ~Accepts(AgentEvent(kind, a)) THEN UNCHANGED <<announced, terminals>>
  ELSE /\ announced' = IF kind = "subagent_created" THEN announced \cup {a} ELSE announced
       /\ terminals' = IF kind \in Terminal THEN [terminals EXCEPT ![a] = @ + 1]
                       ELSE terminals

(* A payload the schema rejects changes nothing but the agent itself.      *)
handleSubAgentBusEvent(a, kind, valid) ==
  /\ phase = "up" /\ taken < MaxTaken
  /\ AgentMoves(a, kind)
  /\ agents' = [agents EXCEPT ![a] = AgentStateAfter(a, kind)]
  /\ IF session = 0 \/ ~valid \/ (kind = "subagent_started" /\ a \notin tracked)
     THEN UNCHANGED <<dispatcherVars, tracked, announced, terminals>>
     ELSE /\ tracked' = TrackedAfter(a, kind)
          /\ dispatch(AgentEvent(kind, a))
          /\ Noted(a, kind)
  /\ UNCHANGED <<phase, session, sessions, seq, pi, registryVars>>

-----------------------------------------------------------------------------
(* finalizeTelemetrySession.                                               *)

(* session_shutdown is dispatched, then its handler goes on in one tick.   *)
sessionShutdown ==
  /\ phase = "up" /\ session # 0 /\ closing = "no"
  /\ phase' = "orphans"
  /\ dispatch(PiEvent("session_shutdown"))
  /\ UNCHANGED <<session, sessions, seq, tracked, pi, agents, announced, terminals, registryVars>>

flushOrphanSubAgents ==
  /\ phase = "orphans" /\ tracked # {}
  /\ \E a \in tracked :
       /\ tracked' = tracked \ {a}
       /\ dispatch(AgentEvent("subagent_failed", a))
       /\ Noted(a, "subagent_failed")
  /\ UNCHANGED <<phase, session, sessions, seq, pi, agents, registryVars>>

OrphansFlushed == phase = "orphans" /\ tracked = {}

shutdownTelemetryDispatcher ==
  /\ OrphansFlushed
  /\ phase' = "up"
  /\ ShutdownBegins
  /\ UNCHANGED <<session, sessions, seq, tracked, pi, agents, announced, terminals, registryVars>>

teardownTelemetry ==
  /\ phase = "up" /\ closing = "done"
  /\ phase' = "down" /\ session' = 0 /\ seq' = 0 /\ tracked' = {}
  /\ reset
  /\ UNCHANGED <<sessions, pi, agents, announced, terminals, registryVars>>

-----------------------------------------------------------------------------
(* MLflow: what an event does to the spans.                                *)

Drop(f, key) == Restrict(f, DOMAIN f \ {key})
Put(f, key, span) == [k \in DOMAIN f \cup {key} |-> IF k = key THEN span ELSE f[k]]

onAgentStart(n) ==
  /\ turnSpan' = n /\ open' = open \cup {n}
  /\ UNCHANGED <<toolSpans, llmSpans, latestLlmSpan>>

onAgentEnd ==
  /\ open' = open \ {turnSpan} /\ turnSpan' = None
  /\ UNCHANGED <<toolSpans, llmSpans, latestLlmSpan>>

onToolExecutionStart(n, c) ==
  /\ toolSpans' = Put(toolSpans, c, n) /\ open' = open \cup {n}
  /\ UNCHANGED <<turnSpan, llmSpans, latestLlmSpan>>

onToolExecutionEnd(c) ==
  /\ open' = IF c \in DOMAIN toolSpans THEN open \ {toolSpans[c]} ELSE open
  /\ toolSpans' = Drop(toolSpans, c)
  /\ UNCHANGED <<turnSpan, llmSpans, latestLlmSpan>>

onLlmRequestStart(n, s) ==
  /\ llmSpans' = Put(llmSpans, s, n) /\ open' = open \cup {n}
  /\ latestLlmSpan' = n
  /\ UNCHANGED <<turnSpan, toolSpans>>

(* Mutant: the latest span stays the target of usage after it has ended. *)
onLlmRequestEndKeepsLatest(s) ==
  /\ UNCHANGED <<turnSpan, toolSpans, latestLlmSpan>>
  /\ llmSpans' = Drop(llmSpans, s)
  /\ open' = IF s \in DOMAIN llmSpans THEN open \ {llmSpans[s]} ELSE open

onLlmRequestEnd(s) ==
  /\ UNCHANGED <<turnSpan, toolSpans>>
  /\ llmSpans' = Drop(llmSpans, s)
  /\ IF s \in DOMAIN llmSpans
     THEN /\ open' = open \ {llmSpans[s]}
          /\ latestLlmSpan' = IF latestLlmSpan = llmSpans[s] THEN None ELSE latestLlmSpan
     ELSE UNCHANGED <<open, latestLlmSpan>>

(* Mutant: the session's tool spans are forgotten. *)
endAllForSessionButTools ==
  /\ open' = open \ ({turnSpan} \cup Range(llmSpans))
  /\ turnSpan' = None /\ llmSpans' = <<>> /\ latestLlmSpan' = None
  /\ UNCHANGED toolSpans

endAllForSession ==
  /\ open' = open \ ({turnSpan} \cup Range(toolSpans) \cup Range(llmSpans))
  /\ turnSpan' = None /\ toolSpans' = <<>> /\ llmSpans' = <<>> /\ latestLlmSpan' = None

(* A sub-agent's event is a span that ends as it starts. *)
onSubAgentEvent == UNCHANGED registryVars

(* The other kinds set attributes, on the turn's or the latest LLM span.   *)
onAttributeEvent == UNCHANGED registryVars

trackEvent(n, event) ==
  CASE event.kind = "agent_start" -> onAgentStart(n)
    [] event.kind = "agent_end" -> onAgentEnd
    [] event.kind = "tool_execution_start" -> onToolExecutionStart(n, event.call)
    [] event.kind = "tool_execution_end" -> onToolExecutionEnd(event.call)
    [] event.kind = "llm_request_start" -> onLlmRequestStart(n, event.seq)
    [] event.kind = "llm_request_end" -> onLlmRequestEnd(event.seq)
    [] event.kind = "session_shutdown" -> endAllForSession
    [] event.kind \in BusKind -> onSubAgentEvent
    [] OTHER -> onAttributeEvent

(* The dispatcher's own steps.                                             *)
Hand ==
  /\ broadcastEvent
  /\ IF "mlflow" \in job.to
     THEN trackEvent(Head(job.rest).n, Head(job.rest).event)
     ELSE UNCHANGED registryVars

Settle ==
  /\ \E p \in Provider : ProviderSettles(p)
  /\ UNCHANGED registryVars

(* shutdown of the MLflow provider clears the registry. *)
CloseProviders ==
  /\ ProvidersClosed
  /\ turnSpan' = None /\ toolSpans' = <<>> /\ llmSpans' = <<>> /\ latestLlmSpan' = None
  /\ UNCHANGED open

OnChain ==
  /\ \/ Hand
     \/ Settle
     \/ (BatchBegins \/ BatchEnds \/ TailBegins \/ TailEnds) /\ UNCHANGED registryVars
     \/ CloseProviders
  /\ UNCHANGED telemetryVars

Immediate == ImmediateRuns /\ UNCHANGED <<telemetryVars, registryVars>>

-----------------------------------------------------------------------------
Pi ==
  \/ initInstrumentation
  \/ sessionStart
  \/ agentStart \/ agentEnd \/ attributeOnly \/ messageEnd
  \/ \E c \in Call : toolExecutionStart(c) \/ toolExecutionEnd(c)
  \/ beforeProviderRequest \/ afterProviderResponse
  \/ LateProvider

Bus == \E a \in Agent, kind \in BusKind, valid \in BOOLEAN : handleSubAgentBusEvent(a, kind, valid)

Finalize == flushOrphanSubAgents \/ shutdownTelemetryDispatcher

(* Nothing runs within the tick of the shutdown handler. *)
Next ==
  \/ Finalize
  \/ phase # "orphans" /\ (Pi \/ Bus \/ sessionShutdown \/ OnChain \/ Immediate \/ teardownTelemetry)

Spec == Init /\ [][Next]_vars

(* The event loop runs what is due and every provider settles. *)
Fairness ==
  /\ WF_vars(Finalize) /\ WF_vars(phase # "orphans" /\ OnChain)
  /\ WF_vars(phase # "orphans" /\ Immediate) /\ WF_vars(teardownTelemetry)

FairSpec == Spec /\ Fairness

-----------------------------------------------------------------------------
Fifo == INSTANCE LossyFifo WITH
          waiting <- {item.n : item \in Range(Outstanding)}, open <- (closing = "no")

(* What a provider is given is in order, once, and complete but for what a *)
(* full queue gave up: the dispatcher implements LossyFifo                 *)
(* (dispatcher.ts:52-139).                                                 *)
KeepsOrder == Fifo!Spec

(* A background agent that was announced has exactly one terminal event in *)
(* its session by the time the dispatcher closes, and never two, as long   *)
(* as a provider listens throughout (state.ts:47-58).                      *)
OneTerminalEvent ==
  \A a \in Agent :
    /\ terminals[a] <= 1
    /\ closing # "no" /\ "mlflow" \in providers /\ a \in announced => terminals[a] = 1

(* The spans the registry knows are open ones, so no attribute is set on a *)
(* span that has ended (span-registry.ts:79-87); and unless pressure cost  *)
(* an event, no span is left open behind a session: the shutdown ends what *)
(* the turn, a tool or a request left.                                     *)
SpansAreKept ==
  /\ ({turnSpan, latestLlmSpan} \ {None}) \cup Range(toolSpans) \cup Range(llmSpans) \subseteq open
  /\ phase = "down" /\ ~shed => open = {}

(* Once Pi shuts the session down the handler it awaits returns            *)
(* (finalize.ts:19-23).                                                    *)
ShutdownSettles == phase = "orphans" ~> phase = "down"
=============================================================================
