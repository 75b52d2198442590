------------------------------ MODULE Dispatcher ------------------------------
(***************************************************************************)
(* The Dispatcher of rpiv-telemetry: a bounded queue drained in batches.   *)
(* A batch is a job on the promise chain inFlight; it hands its events to  *)
(* all providers, one at a time, and a full queue gives up its oldest      *)
(* event.  An event in the queue carries the number of its acceptance.  The *)
(* trackers behind the warnings, backpressureActive and failedProviders,   *)
(* are left out.                                                           *)
(***************************************************************************)
EXTENDS Integers, Sequences, SequencesExt

CONSTANTS
  Event,    \* what may be dispatched: a record with a kind
  Disabled, \* the kinds of event the configuration switches off
  Provider, \* the providers that may be registered
  Cap,      \* dispatcher.maxQueueSize
  None

ASSUME DispatcherAssumption ==
  /\ Cap \in Nat \ {0}
  /\ None \notin [to : SUBSET Provider, rest : Seq([n : Nat \ {0}, event : Event]),
                   owed : SUBSET Provider]

VARIABLES
  providers,    \* the registered providers
  taken,        \* history: how many events were accepted so far
  queue,
  flushing,
  inFlight,     \* the batches chained and not yet begun
  job,          \* the loop over a batch, or over the tail at shutdown
  immediates,   \* calls of drain that setImmediate has yet to make
  closing,      \* how far shutdown has come
  remaining,    \* the tail of the queue that shutdown took
  last,         \* history: the last event each provider was given
  shed          \* history: whether a full queue has given up an event

dispatcherVars == <<providers, taken, queue, flushing, inFlight, job, immediates, closing,
                    remaining, last, shed>>

Item == [n : Nat \ {0}, event : Event]
Job == [to : SUBSET Provider, rest : Seq(Item), owed : SUBSET Provider]
Closing == {"no", "inFlight", "tail", "providers", "done"}

DispatcherInit ==
  /\ providers = {} /\ taken = 0 /\ queue = <<>> /\ flushing = FALSE
  /\ inFlight = <<>> /\ job = None /\ immediates = 0 /\ closing = "no"
  /\ remaining = <<>>
  /\ last = [p \in Provider |-> 0] /\ shed = FALSE

registerProvider(p) ==
  /\ providers' = providers \cup {p}
  /\ UNCHANGED <<taken, queue, flushing, inFlight, job, immediates, closing, remaining,
                 last, shed>>

(* drain on the queue as given: all of it becomes the next batch. *)
drain(events) ==
  /\ queue' = <<>>
  /\ IF events = <<>>
     THEN flushing' = FALSE /\ UNCHANGED inFlight
     ELSE inFlight' = Append(inFlight, events) /\ UNCHANGED flushing

scheduleFlush(events) ==
  IF flushing THEN queue' = events /\ UNCHANGED <<flushing, inFlight>>
  ELSE /\ queue' = <<>>
       /\ flushing' = TRUE
       /\ inFlight' = Append(inFlight, events)

Accepts(event) == closing = "no" /\ providers # {} /\ event.kind \notin Disabled

(* Mutant: the newest waiting event is given up instead of the oldest. *)
ShedNewest(events) == IF Len(events) >= Cap THEN Front(events) ELSE events

Shed(events) == IF Len(events) >= Cap THEN Tail(events) ELSE events

dispatch(event) ==
  IF ~Accepts(event) THEN UNCHANGED dispatcherVars
  ELSE /\ taken' = taken + 1
       /\ scheduleFlush(Append(Shed(queue), [n |-> taken + 1, event |-> event]))
       /\ shed' = (shed \/ Len(queue) >= Cap)
       /\ UNCHANGED <<providers, job, immediates, closing, remaining, last>>

-----------------------------------------------------------------------------
(* The jobs on the chain.                                                  *)

BatchBegins ==
  /\ job = None /\ inFlight # <<>>
  /\ job' = [to |-> providers, rest |-> Head(inFlight), owed |-> {}]
  /\ inFlight' = Tail(inFlight)
  /\ UNCHANGED <<providers, taken, queue, flushing, immediates, closing, remaining,
                 last, shed>>

Handing == job # None /\ job.owed = {} /\ job.rest # <<>>

(* The oldest event of the job goes to all its providers at once. *)
broadcastEvent ==
  /\ Handing
  /\ job' = [job EXCEPT !.rest = Tail(@), !.owed = job.to]
  /\ last' = [p \in Provider |-> IF p \in job.to THEN Head(job.rest).n ELSE last[p]]
  /\ UNCHANGED <<providers, taken, queue, flushing, inFlight, immediates, closing, remaining,
                 shed>>

(* A provider's promise settles, fulfilled or not. *)
ProviderSettles(p) ==
  /\ job # None /\ p \in job.owed
  /\ job' = [job EXCEPT !.owed = @ \ {p}]
  /\ UNCHANGED <<providers, taken, queue, flushing, inFlight, immediates, closing, remaining,
                 last, shed>>

(* Mutant: the broadcast to no provider at all never settles, as a         *)
(* Promise.race of none would not.                                         *)
JobIsDoneIfHeard == job # None /\ job.owed = {} /\ job.rest = <<>> /\ job.to # {}

JobIsDone == job # None /\ job.owed = {} /\ job.rest = <<>>

BatchEnds ==
  /\ JobIsDone /\ closing # "tail"
  /\ job' = None
  /\ IF queue # <<>> THEN immediates' = immediates + 1 /\ UNCHANGED flushing
     ELSE flushing' = FALSE /\ UNCHANGED immediates
  /\ UNCHANGED <<providers, taken, queue, inFlight, closing, remaining, last, shed>>

ImmediateRuns ==
  /\ immediates > 0
  /\ immediates' = immediates - 1
  /\ drain(queue)
  /\ UNCHANGED <<providers, taken, job, closing, remaining, last, shed>>

-----------------------------------------------------------------------------
(* Shutdown.                                                               *)

(* Up to the first await: the tail of the queue is taken. *)
ShutdownBegins ==
  /\ closing = "no"
  /\ closing' = "inFlight"
  /\ remaining' = queue /\ queue' = <<>> /\ flushing' = FALSE
  /\ UNCHANGED <<providers, taken, inFlight, job, immediates, last, shed>>

InFlightSettled == closing = "inFlight" /\ inFlight = <<>> /\ job = None

TailBegins ==
  /\ InFlightSettled
  /\ closing' = "tail"
  /\ job' = [to |-> providers, rest |-> remaining, owed |-> {}]
  /\ remaining' = <<>>
  /\ UNCHANGED <<providers, taken, queue, flushing, inFlight, immediates, last, shed>>

TailEnds ==
  /\ JobIsDone /\ closing = "tail"
  /\ closing' = "providers"
  /\ job' = None
  /\ UNCHANGED <<providers, taken, queue, flushing, inFlight, immediates, remaining,
                 last, shed>>

(* flush and shutdown of every provider have settled, well or not. *)
ProvidersClosed ==
  /\ closing = "providers"
  /\ closing' = "done"
  /\ UNCHANGED <<providers, taken, queue, flushing, inFlight, job, immediates, remaining,
                 last, shed>>

(* reset: a call of drain that is still due survives it. *)
reset ==
  /\ providers' = {} /\ queue' = <<>> /\ flushing' = FALSE /\ closing' = "no"
  /\ UNCHANGED <<taken, inFlight, job, immediates, remaining, last, shed>>

-----------------------------------------------------------------------------
DispatcherTypeOK ==
  /\ providers \subseteq Provider /\ taken \in Nat
  /\ queue \in Seq(Item) /\ flushing \in BOOLEAN /\ inFlight \in Seq(Seq(Item))
  /\ job \in Job \cup {None} /\ immediates \in Nat /\ closing \in Closing
  /\ remaining \in Seq(Item)
  /\ last \in [Provider -> Nat] /\ shed \in BOOLEAN

(* The events accepted and neither handed over nor given up, in order.     *)
Outstanding ==
  (IF job = None THEN <<>> ELSE job.rest) \o FlattenSeq(inFlight) \o remaining \o queue
=============================================================================
