--------------------------- MODULE TelemetryProofs ---------------------------
(***************************************************************************)
(* Theorems about rpiv-telemetry: that the dispatcher keeps its promise of *)
(* order, LossyFifo, and what that buys the sub-agents and the spans.      *)
(***************************************************************************)
EXTENDS Telemetry, Segments, FiniteSetTheorems, FunctionTheorems

(* What of a batch or of the tail is not handed over yet.                  *)
Rest == IF job = None THEN <<>> ELSE job.rest

(* Where events may wait, as shutdown proceeds.                            *)
Places ==
  /\ closing = "no" => remaining = <<>>
  /\ closing # "no" => queue = <<>>
  /\ closing \in {"tail", "providers", "done"} => inFlight = <<>> /\ remaining = <<>>
  /\ closing \in {"providers", "done"} => job = None
  /\ Len(queue) <= Cap

(* The numbers rise along a sequence, after all that a provider was given. *)
Rises(s) == \A i, j \in 1..Len(s) : i < j => s[i].n < s[j].n
Between(s, low, high) == \A i \in 1..Len(s) : low < s[i].n /\ s[i].n <= high

InOrder ==
  /\ Rises(Outstanding)
  /\ \A p \in Provider : last[p] <= taken /\ Between(Outstanding, last[p], taken)

(* The length is what it is, whatever the provider.                        *)
DispatcherInv == DispatcherTypeOK /\ Places /\ InOrder /\ Between(Outstanding, 0, taken)

(* s with its k-th element gone.                                           *)
Without(s, k) == [i \in 1..(Len(s) - 1) |-> IF i < k THEN s[i] ELSE s[i + 1]]

-----------------------------------------------------------------------------
(* Sequences of events *)

LEMMA ItemsAssociate == \A s, t, u \in Seq(Item) : (s \o t) \o u = s \o (t \o u)
BY Associative

LEMMA NothingJoined == \A s \in Seq(Item) : s \o <<>> = s /\ <<>> \o s = s
BY ConcatEmptySeq

LEMMA ItemNumbers ==
  ASSUME NEW s \in Seq(Item), NEW i \in 1..Len(s)
  PROVE  s[i] \in Item /\ s[i].n \in Nat
<1>1. s[i] \in Item
  OBVIOUS
<1>2. \A x \in Item : x.n \in Nat
  BY DEF Item
<1> QED
  BY <1>1, <1>2

LEMMA WithoutType ==
  ASSUME NEW s \in Seq(Item), NEW k \in 1..Len(s)
  PROVE  /\ Without(s, k) \in Seq(Item) /\ Len(Without(s, k)) = Len(s) - 1
         /\ \A i \in 1..(Len(s) - 1) : Without(s, k)[i] = IF i < k THEN s[i] ELSE s[i + 1]
<1>1. Len(s) - 1 \in Nat
  OBVIOUS
<1>2. \A i \in 1..(Len(s) - 1) : (IF i < k THEN s[i] ELSE s[i + 1]) \in Item
  OBVIOUS
<1> QED
  BY <1>1, <1>2 DEF Without

LEMMA TailIsWithout ==
  ASSUME NEW s \in Seq(Item), s # <<>>
  PROVE  Tail(s) = Without(s, 1)
<1>1. 1 \in 1..Len(s)
  OBVIOUS
<1>2. /\ Tail(s) \in Seq(Item) /\ Len(Tail(s)) = Len(s) - 1
      /\ \A i \in 1..(Len(s) - 1) : Tail(s)[i] = s[i + 1]
  OBVIOUS
<1>3. Without(s, 1) \in Seq(Item) /\ Len(Without(s, 1)) = Len(s) - 1
      /\ \A i \in 1..(Len(s) - 1) : Without(s, 1)[i] = s[i + 1]
  BY <1>1, WithoutType
<1> QED
  BY <1>2, <1>3, SeqEqual

LEMMA TailJoined ==
  ASSUME NEW s \in Seq(Item), NEW t \in Seq(Item), t # <<>>
  PROVE  /\ Len(s) + 1 \in 1..Len(s \o t)
         /\ s \o Tail(t) = Without(s \o t, Len(s) + 1)
<1> DEFINE k == Len(s) + 1
           u == s \o t
           v == s \o Tail(t)
<1>1. /\ u \in Seq(Item) /\ Len(u) = Len(s) + Len(t) /\ k \in 1..Len(u)
      /\ v \in Seq(Item) /\ Len(v) = Len(u) - 1
  OBVIOUS
<1>2. \A i \in 1..(Len(u) - 1) : v[i] = IF i < k THEN u[i] ELSE u[i + 1]
  OBVIOUS
<1> HIDE DEF u, v
<1>4. /\ Without(u, k) \in Seq(Item) /\ Len(Without(u, k)) = Len(u) - 1
      /\ \A i \in 1..(Len(u) - 1) : Without(u, k)[i] = IF i < k THEN u[i] ELSE u[i + 1]
  BY <1>1, WithoutType
<1>3. v = Without(u, k)
  <2> HIDE DEF k
  <2> QED BY <1>1, <1>2, <1>4, SeqEqual
<1> QED
  BY <1>1, <1>3 DEF u, v

LEMMA AppendJoined ==
  ASSUME NEW s \in Seq(Item), NEW t \in Seq(Item), NEW x \in Item
  PROVE  s \o Append(t, x) = Append(s \o t, x)
<1>1. <<x>> \in Seq(Item) /\ s \o t \in Seq(Item)
  OBVIOUS
<1>2. Append(t, x) = t \o <<x>> /\ Append(s \o t, x) = (s \o t) \o <<x>>
  BY <1>1, AppendIsConcat
<1>3. (s \o t) \o <<x>> = s \o (t \o <<x>>)
  BY <1>1, ItemsAssociate
<1> QED
  BY <1>2, <1>3, Zenon

-----------------------------------------------------------------------------
(* What may be done to the events outstanding *)

LEMMA RisesWithout ==
  ASSUME NEW s \in Seq(Item), NEW k \in 1..Len(s), NEW low \in Nat, NEW high \in Nat,
         Rises(s), Between(s, low, high)
  PROVE  Rises(Without(s, k)) /\ Between(Without(s, k), low, high)
<1>1. \A i \in 1..Len(s) : s[i].n \in Nat
  BY ItemNumbers
<1> DEFINE w == Without(s, k)
<1>2. /\ Len(w) = Len(s) - 1
      /\ \A i \in 1..(Len(s) - 1) : w[i] = IF i < k THEN s[i] ELSE s[i + 1]
  BY WithoutType
<1>3. Len(s) \in Nat
  OBVIOUS
<1> HIDE DEF w
<1>4. Rises(w)
  <2> SUFFICES ASSUME NEW i \in 1..Len(w), NEW j \in 1..Len(w), i < j
               PROVE  w[i].n < w[j].n
    BY DEF Rises
  <2> DEFINE a == IF i < k THEN i ELSE i + 1
             b == IF j < k THEN j ELSE j + 1
  <2>1. a \in 1..Len(s) /\ b \in 1..Len(s) /\ a < b
    BY <1>2, <1>3
  <2>2. w[i] = s[a] /\ w[j] = s[b]
    BY <1>2, <1>3
  <2> HIDE DEF a, b
  <2> QED
    BY <2>1, <2>2 DEF Rises
<1>5. Between(w, low, high)
  BY <1>1, <1>2, <1>3 DEF Between
<1> QED
  BY <1>4, <1>5 DEF w

LEMMA RisesAppend ==
  ASSUME NEW s \in Seq(Item), NEW x \in Item, NEW low \in Nat, NEW high \in Nat,
         low <= high, Rises(s), Between(s, low, high), x.n = high + 1
  PROVE  Rises(Append(s, x)) /\ Between(Append(s, x), low, high + 1)
<1>1. \A i \in 1..Len(s) : s[i].n \in Nat
  BY ItemNumbers
<1>2. /\ Len(Append(s, x)) = Len(s) + 1 /\ Append(s, x)[Len(s) + 1] = x
      /\ \A i \in 1..Len(s) : Append(s, x)[i] = s[i]
  OBVIOUS
<1> QED
  BY <1>1, <1>2 DEF Rises, Between

LEMMA PartTypes ==
  ASSUME DispatcherTypeOK
  PROVE  /\ Rest \in Seq(Item) /\ FlattenSeq(inFlight) \in Seq(Item)
         /\ Rest \o FlattenSeq(inFlight) \in Seq(Item)
         /\ Rest \o FlattenSeq(inFlight) \o remaining \in Seq(Item)
         /\ Outstanding \in Seq(Item)
         /\ Outstanding = Rest \o FlattenSeq(inFlight) \o remaining \o queue
<1>1. Rest \in Seq(Item) /\ FlattenSeq(inFlight) \in Seq(Item)
  BY FlattenType DEF DispatcherTypeOK, Rest, Job
<1>2. Outstanding = Rest \o FlattenSeq(inFlight) \o remaining \o queue
  BY DEF Outstanding, Rest
<1>3. remaining \in Seq(Item) /\ queue \in Seq(Item)
  BY DEF DispatcherTypeOK
<1> QED
  BY <1>1, <1>2, <1>3

(* Where the queue's oldest event stands among those outstanding.          *)
QueueHead == Len(Rest \o FlattenSeq(inFlight)) + 1

ItemOf(event) == [n |-> taken + 1, event |-> event]

LEMMA Accepted ==
  ASSUME DispatcherTypeOK, Places, NEW event \in Event, dispatch(event), Accepts(event)
  PROVE  /\ DispatcherTypeOK' /\ Places'
         /\ taken' = taken + 1 /\ last' = last /\ closing = "no" /\ closing' = "no"
         /\ ItemOf(event) \in Item
         /\ Len(queue) < Cap => Outstanding' = Append(Outstanding, ItemOf(event))
         /\ Len(queue) >= Cap =>
              /\ QueueHead \in 1..Len(Outstanding)
              /\ Outstanding = Rest \o FlattenSeq(inFlight) \o queue
              /\ Outstanding' = Append(Without(Outstanding, QueueHead), ItemOf(event))
<1> DEFINE x == ItemOf(event)
           begun == Rest \o FlattenSeq(inFlight)
           events == Append(Shed(queue), x)
<1>1. /\ Cap \in Nat \ {0} /\ taken \in Nat /\ queue \in Seq(Item) /\ Len(queue) <= Cap
      /\ inFlight \in Seq(Seq(Item)) /\ flushing \in BOOLEAN /\ shed \in BOOLEAN
      /\ closing = "no" /\ remaining = <<>>
  BY DispatcherAssumption DEF DispatcherTypeOK, Places, Accepts
<1>2. /\ taken' = taken + 1 /\ scheduleFlush(events) /\ shed' = (shed \/ Len(queue) >= Cap)
      /\ UNCHANGED <<providers, job, immediates, closing, remaining, last>>
  BY DEF dispatch, ItemOf
<1>3. x \in Item
  BY <1>1 DEF Item, ItemOf
<1>4. /\ Shed(queue) \in Seq(Item) /\ Len(Shed(queue)) < Cap
      /\ Len(queue) >= Cap => queue # <<>> /\ Shed(queue) = Tail(queue)
      /\ Len(queue) < Cap => Shed(queue) = queue
  BY <1>1 DEF Shed
<1> HIDE DEF x
<1>5. events \in Seq(Item) /\ Len(events) <= Cap
  BY <1>1, <1>3, <1>4
<1>6. /\ begun \in Seq(Item) /\ Outstanding = begun \o queue
      /\ Rest \in Seq(Item) /\ FlattenSeq(inFlight) \in Seq(Item)
  <2>1. /\ begun \in Seq(Item) /\ Outstanding = begun \o remaining \o queue
        /\ Rest \in Seq(Item) /\ FlattenSeq(inFlight) \in Seq(Item)
    BY PartTypes
  <2>2. begun \o <<>> = begun
    BY <2>1, NothingJoined
  <2> QED
    BY <1>1, <2>1, <2>2, Zenon
<1> HIDE DEF events
<1>7. DispatcherTypeOK'
  <2>1. queue' \in Seq(Item) /\ inFlight' \in Seq(Seq(Item)) /\ flushing' \in BOOLEAN
    <3>1. CASE flushing
      BY <1>1, <1>2, <1>5, <3>1, Zenon DEF scheduleFlush
    <3>2. CASE ~flushing
      <4>1. queue' = <<>> /\ inFlight' = Append(inFlight, events) /\ flushing' = TRUE
        BY <1>2, <3>2, Zenon DEF scheduleFlush
      <4> QED
        BY <1>1, <1>5, <4>1
    <3> QED
      BY <3>1, <3>2
  <2>2. taken' \in Nat /\ shed' \in BOOLEAN
    BY <1>1, <1>2
  <2> QED
    BY <1>2, <2>1, <2>2 DEF DispatcherTypeOK
<1>8. Places'
  <2>1. Len(queue') <= Cap
    BY <1>1, <1>2, <1>5 DEF scheduleFlush
  <2> QED
    BY <1>1, <1>2, <2>1 DEF Places
<1>9. Outstanding' = begun \o events
  <2>1. Rest' = Rest /\ remaining' = <<>>
    BY <1>1, <1>2 DEF Rest
  <2>2. Outstanding' = Rest \o FlattenSeq(inFlight') \o <<>> \o queue'
    BY <2>1, <1>7, PartTypes DEF Outstanding, Rest
  <2>3. CASE flushing
    <3>1. queue' = events /\ inFlight' = inFlight
      BY <1>2, <2>3 DEF scheduleFlush
    <3>2. begun \o <<>> = begun
      BY <1>6, NothingJoined
    <3> QED
      BY <2>2, <3>1, <3>2, Zenon
  <2>4. CASE ~flushing
    <3>1. queue' = <<>> /\ inFlight' = Append(inFlight, events)
      BY <1>2, <2>4 DEF scheduleFlush
    <3>2. FlattenSeq(inFlight') = FlattenSeq(inFlight) \o events
      BY <1>1, <1>5, <3>1, FlattenAppend
    <3>3. Rest \o (FlattenSeq(inFlight) \o events) = begun \o events
      BY <1>5, <1>6, ItemsAssociate
    <3>4. begun \o events \in Seq(Item)
      BY <1>5, <1>6
    <3>5. (begun \o events) \o <<>> = begun \o events
      BY <3>4, NothingJoined
    <3> QED
      BY <2>2, <3>1, <3>2, <3>3, <3>5, Zenon
  <2> QED
    BY <1>1, <2>3, <2>4
<1>10. Outstanding' = Append(begun \o Shed(queue), x)
  BY <1>3, <1>4, <1>6, <1>9, AppendJoined DEF events
<1>11. Len(queue) < Cap => Outstanding' = Append(Outstanding, x)
  BY <1>4, <1>6, <1>10
<1>12. ASSUME Len(queue) >= Cap
       PROVE  /\ QueueHead \in 1..Len(Outstanding)
              /\ Outstanding' = Append(Without(Outstanding, QueueHead), x)
  <2>1. /\ Len(begun) + 1 \in 1..Len(begun \o queue)
        /\ begun \o Tail(queue) = Without(begun \o queue, Len(begun) + 1)
    BY <1>1, <1>4, <1>6, <1>12, TailJoined
  <2> QED
    BY <1>4, <1>6, <1>10, <1>12, <2>1 DEF QueueHead
<1> QED
  BY <1>1, <1>2, <1>3, <1>6, <1>7, <1>8, <1>11, <1>12 DEF x

LEMMA Jobs ==
  ASSUME NEW to \in SUBSET Provider, NEW rest \in Seq(Item), NEW owed \in SUBSET Provider
  PROVE  [to |-> to, rest |-> rest, owed |-> owed] \in Job
BY DEF Job

LEMMA JobParts ==
  ASSUME NEW j \in Job
  PROVE  /\ j.to \subseteq Provider /\ j.rest \in Seq(Item) /\ j.owed \subseteq Provider
         /\ j # None
<1>1. j # None
  BY DispatcherAssumption DEF Job, Item
<1> QED
  BY <1>1 DEF Job

LEMMA JobMovesOn ==
  ASSUME NEW j \in Job, NEW rest \in Seq(Item), NEW owed \in SUBSET Provider
  PROVE  /\ [j EXCEPT !.rest = rest, !.owed = owed] \in Job
         /\ [j EXCEPT !.rest = rest, !.owed = owed].rest = rest
         /\ [j EXCEPT !.rest = rest, !.owed = owed].to = j.to
         /\ [j EXCEPT !.owed = owed] \in Job
         /\ [j EXCEPT !.owed = owed].rest = j.rest
         /\ [j EXCEPT !.owed = owed].to = j.to
BY DEF Job

LEMMA HandedOver ==
  ASSUME DispatcherTypeOK, Places, broadcastEvent
  PROVE  /\ DispatcherTypeOK' /\ Places'
         /\ 1 \in 1..Len(Outstanding) /\ Outstanding[1] = Head(job.rest)
         /\ Outstanding' = Without(Outstanding, 1)
         /\ job.to \subseteq Provider /\ Head(job.rest).n \in Nat
<1>1. /\ job \in Job /\ job.rest \in Seq(Item) /\ job.rest # <<>>
      /\ job.to \subseteq Provider
      /\ job' = [job EXCEPT !.rest = Tail(@), !.owed = job.to]
      /\ last' = [p \in Provider |-> IF p \in job.to THEN Head(job.rest).n ELSE last[p]]
      /\ UNCHANGED <<providers, taken, queue, flushing, inFlight, immediates, closing, remaining,
                     shed>>
  BY DEF DispatcherTypeOK, broadcastEvent, Handing, Job
<1>2. job' \in Job /\ job'.rest = Tail(job.rest)
  <2>1. Tail(job.rest) \in Seq(Item) /\ job.to \in SUBSET Provider
    BY <1>1
  <2> DEFINE next == [job EXCEPT !.rest = Tail(job.rest), !.owed = job.to]
  <2>2. next \in Job /\ next.rest = Tail(job.rest)
    BY <1>1, <2>1, JobMovesOn
  <2>3. job' = next
    BY <1>1
  <2> HIDE DEF next
  <2> QED
    BY <2>2, <2>3
<1>3. Head(job.rest) \in Item /\ Head(job.rest).n \in Nat
  <2>1. job.rest[1] = Head(job.rest) /\ 1 \in 1..Len(job.rest)
    BY <1>1
  <2> QED
    BY <1>1, <2>1, ItemNumbers
<1>4. DispatcherTypeOK'
  <2>1. last' \in [Provider -> Nat]
    BY <1>1, <1>3 DEF DispatcherTypeOK
  <2> QED
    BY <1>1, <1>2, <2>1 DEF DispatcherTypeOK
<1>5. job # None /\ job' # None
  BY <1>1, <1>2, JobParts
<1>6. Places'
  BY <1>1, <1>5 DEF Places
<1>7. /\ Rest = job.rest /\ Rest' = Tail(job.rest)
  BY <1>2, <1>5 DEF Rest
<1> DEFINE later == FlattenSeq(inFlight) \o remaining \o queue
<1>8. later \in Seq(Item) /\ Outstanding = job.rest \o later
      /\ Outstanding' = Tail(job.rest) \o later
  <2>1. /\ FlattenSeq(inFlight) \in Seq(Item) /\ remaining \in Seq(Item) /\ queue \in Seq(Item)
        /\ Tail(job.rest) \in Seq(Item)
    BY <1>1, PartTypes DEF DispatcherTypeOK
  <2>2. Outstanding = job.rest \o FlattenSeq(inFlight) \o remaining \o queue
    BY <1>7, PartTypes, Zenon
  <2>3. Outstanding' = Tail(job.rest) \o FlattenSeq(inFlight) \o remaining \o queue
    BY <1>1, <1>5, <1>2 DEF Outstanding
  <2>4. \A s \in Seq(Item) :
          s \o FlattenSeq(inFlight) \o remaining \o queue
            = s \o (FlattenSeq(inFlight) \o remaining \o queue)
    <3> TAKE s \in Seq(Item)
    <3>1. FlattenSeq(inFlight) \o remaining \in Seq(Item)
      BY <2>1
    <3>2. (s \o FlattenSeq(inFlight)) \o remaining = s \o (FlattenSeq(inFlight) \o remaining)
      BY <2>1, ItemsAssociate
    <3>3. (s \o (FlattenSeq(inFlight) \o remaining)) \o queue
            = s \o ((FlattenSeq(inFlight) \o remaining) \o queue)
      BY <2>1, <3>1, ItemsAssociate
    <3> QED
      BY <3>2, <3>3, Zenon
  <2>5. later \in Seq(Item)
    BY <2>1
  <2> QED
    BY <1>1, <2>1, <2>2, <2>3, <2>4, <2>5, Zenon
<1> HIDE DEF later
<1>9. /\ 1 \in 1..Len(Outstanding) /\ Outstanding[1] = Head(job.rest)
      /\ Outstanding # <<>> /\ Outstanding \in Seq(Item)
      /\ Tail(job.rest) \o later = Tail(Outstanding)
  <2>1. /\ Tail(job.rest \o later) = Tail(job.rest) \o later
        /\ 1 \in 1..Len(job.rest \o later)
        /\ (job.rest \o later)[1] = job.rest[1] /\ job.rest[1] = Head(job.rest)
        /\ job.rest \o later \in Seq(Item) /\ job.rest \o later # <<>>
    <3>1. /\ Len(job.rest) \in Nat \ {0} /\ Len(later) \in Nat
          /\ Len(job.rest \o later) = Len(job.rest) + Len(later)
          /\ job.rest \o later \in Seq(Item)
      BY <1>1, <1>8
    <3>2. job.rest \o later # <<>> /\ (job.rest \o later)[1] = job.rest[1]
          /\ job.rest[1] = Head(job.rest)
      BY <1>1, <1>8, <3>1
    <3>3. Tail(job.rest \o later) = Tail(job.rest) \o later
      <4>1. /\ Tail(job.rest \o later) \in Seq(Item) /\ Tail(job.rest) \o later \in Seq(Item)
            /\ Len(Tail(job.rest \o later)) = Len(job.rest) + Len(later) - 1
            /\ Len(Tail(job.rest) \o later) = Len(job.rest) + Len(later) - 1
        BY <1>1, <1>8, <3>1, <3>2
      <4>2. \A i \in 1..(Len(job.rest) + Len(later) - 1) :
              Tail(job.rest \o later)[i] = (Tail(job.rest) \o later)[i]
        BY <1>1, <1>8, <3>1, <3>2
      <4> QED
        BY <4>1, <4>2, SeqEqual
    <3>4. 1 \in 1..Len(job.rest \o later)
      BY <3>1
    <3> QED
      BY <3>1, <3>2, <3>3, <3>4, Zenon
  <2> QED
    BY <1>8, <2>1
<1>10. Outstanding' = Without(Outstanding, 1)
  BY <1>8, <1>9, TailIsWithout
<1> QED
  BY <1>1, <1>3, <1>4, <1>6, <1>9, <1>10

(* The steps that move events from place to place, or none at all.         *)
Moves ==
  \/ \E p \in Provider : ProviderSettles(p)
  \/ BatchBegins \/ BatchEnds \/ TailBegins \/ TailEnds \/ ProvidersClosed
  \/ ImmediateRuns \/ ShutdownBegins
  \/ closing = "done" /\ reset
  \/ /\ providers' \subseteq Provider
     /\ UNCHANGED <<taken, queue, flushing, inFlight, job, immediates, closing, remaining,
                    last, shed>>

LEMMA MovesJob ==
  ASSUME DispatcherTypeOK, Places,
         (\E p \in Provider : ProviderSettles(p)) \/ BatchEnds \/ TailEnds
  PROVE  DispatcherTypeOK' /\ Places' /\ Outstanding' = Outstanding
<1>1. UNCHANGED <<providers, taken, queue, inFlight, remaining, last, shed>>
  BY DEF ProviderSettles, BatchEnds, TailEnds
<1>2. job \in Job /\ job # None /\ job' \in Job \cup {None}
      /\ (IF job' = None THEN <<>> ELSE job'.rest) = job.rest
  <2>1. job \in Job /\ job # None
    BY DEF DispatcherTypeOK, ProviderSettles, BatchEnds, TailEnds, JobIsDone
  <2>2. ASSUME NEW p \in Provider, ProviderSettles(p)
        PROVE  job' \in Job /\ job'.rest = job.rest /\ job' # None
    <3> DEFINE next == [job EXCEPT !.owed = job.owed \ {p}]
    <3>1. job.owed \ {p} \in SUBSET Provider
      BY <2>1, JobParts
    <3>2. job.rest \in Seq(Item)
      BY <2>1, JobParts
    <3>3. next \in Job /\ next.rest = job.rest
      BY <2>1, <3>1, <3>2, JobMovesOn
    <3>4. job' = next
      BY <2>2 DEF ProviderSettles
    <3> HIDE DEF next
    <3> QED
      BY <3>3, <3>4, JobParts
  <2>3. CASE BatchEnds \/ TailEnds
    BY <2>1, <2>3 DEF BatchEnds, TailEnds, JobIsDone
  <2> QED
    BY <2>1, <2>2, <2>3
<1>3. DispatcherTypeOK'
  <2>1. flushing' \in BOOLEAN
    <3>1. CASE BatchEnds
      <4>1. flushing' = FALSE \/ flushing' = flushing
        BY <3>1, Zenon DEF BatchEnds
      <4> QED
        BY <4>1, Zenon DEF DispatcherTypeOK
    <3>2. CASE (\E p \in Provider : ProviderSettles(p)) \/ TailEnds
      <4>1. flushing' = flushing
        BY <3>2, Zenon DEF ProviderSettles, TailEnds
      <4> QED
        BY <4>1, Zenon DEF DispatcherTypeOK
    <3> QED
      BY <3>1, <3>2
  <2>2. immediates' \in Nat /\ closing' \in Closing
    BY DEF ProviderSettles, BatchEnds, TailEnds, DispatcherTypeOK, Closing
  <2> QED
    BY <1>1, <1>2, <2>1, <2>2 DEF DispatcherTypeOK
<1>4. Places'
  BY <1>1, <1>2 DEF Places, ProviderSettles, BatchEnds, TailEnds
<1>5. Outstanding' = Outstanding
  BY <1>1, <1>2 DEF Outstanding
<1> QED
  BY <1>3, <1>4, <1>5

LEMMA MovesBatch ==
  ASSUME DispatcherTypeOK, Places, BatchBegins \/ TailBegins
  PROVE  DispatcherTypeOK' /\ Places' /\ Outstanding' = Outstanding
<1> DEFINE batch == IF BatchBegins THEN Head(inFlight) ELSE remaining
<1>1. /\ inFlight \in Seq(Seq(Item)) /\ remaining \in Seq(Item) /\ queue \in Seq(Item)
      /\ providers \subseteq Provider
  BY DEF DispatcherTypeOK
<1>2. /\ job = None /\ UNCHANGED <<providers, taken, queue, flushing, immediates, last, shed>>
  BY DEF BatchBegins, TailBegins, InFlightSettled
<1>3. /\ inFlight' \in Seq(Seq(Item)) /\ remaining' \in Seq(Item) /\ closing' \in Closing
      /\ job' \in Job /\ job'.rest = batch
  <2>1. batch \in Seq(Item)
    BY <1>1 DEF BatchBegins
  <2>2. job' = [to |-> providers, rest |-> batch, owed |-> {}]
    BY DEF BatchBegins, TailBegins, InFlightSettled
  <2>3. {} \in SUBSET Provider /\ providers \in SUBSET Provider
    BY <1>1
  <2> HIDE DEF batch
  <2>4. [to |-> providers, rest |-> batch, owed |-> {}] \in Job
    BY <2>1, <2>3, Jobs
  <2>5. job' \in Job /\ job'.rest = batch
    BY <2>2, <2>4
  <2>6. inFlight' \in Seq(Seq(Item)) /\ remaining' \in Seq(Item) /\ closing' \in Closing
    <3>1. CASE BatchBegins
      <4>1. Tail(inFlight) \in Seq(Seq(Item))
        BY <1>1, <3>1 DEF BatchBegins
      <4> QED
        BY <1>1, <3>1, <4>1 DEF BatchBegins, DispatcherTypeOK
    <3>2. CASE TailBegins
      <4>1. <<>> \in Seq(Item) /\ "tail" \in Closing
        BY DEF Closing
      <4> QED
        BY <1>1, <3>2, <4>1 DEF TailBegins
    <3> QED
      BY <3>1, <3>2
  <2> QED
    BY <2>5, <2>6
<1>4. DispatcherTypeOK'
  BY <1>2, <1>3 DEF DispatcherTypeOK
<1>5. Places'
  BY <1>2 DEF Places, BatchBegins, TailBegins, InFlightSettled
<1>6. Outstanding = FlattenSeq(inFlight) \o remaining \o queue
  <2>1. Outstanding = <<>> \o FlattenSeq(inFlight) \o remaining \o queue
    BY <1>2 DEF Outstanding
  <2>2. <<>> \o FlattenSeq(inFlight) = FlattenSeq(inFlight)
    BY PartTypes, NothingJoined
  <2> QED
    BY <2>1, <2>2, Zenon
<1>7. Outstanding' = batch \o FlattenSeq(inFlight') \o remaining' \o queue
  <2>1. job' # None
    BY <1>3, JobParts
  <2> HIDE DEF batch
  <2> QED
    BY <1>2, <1>3, <2>1 DEF Outstanding
<1>8. CASE BatchBegins
  <2>1. batch = Head(inFlight) /\ inFlight' = Tail(inFlight) /\ remaining' = remaining
        /\ inFlight # <<>>
    BY <1>8 DEF BatchBegins
  <2>2. FlattenSeq(inFlight) = Head(inFlight) \o FlattenSeq(Tail(inFlight))
    BY <1>1, <2>1, FlattenHead DEF FlatStartsWithHead
  <2> HIDE DEF batch
  <2>3. Outstanding' = Outstanding
    BY <1>6, <1>7, <2>1, <2>2, Zenon
  <2> QED
    BY <1>4, <1>5, <2>3
<1>9. CASE ~BatchBegins
  <2>1. batch = remaining /\ inFlight = <<>> /\ inFlight' = <<>> /\ remaining' = <<>>
    BY <1>9 DEF TailBegins, InFlightSettled
  <2>2. FlattenSeq(<<>>) = <<>> /\ <<>> \o remaining = remaining /\ remaining \o <<>> = remaining
    BY <1>1, FlattenEmpty, NothingJoined
  <2> HIDE DEF batch
  <2>3. Outstanding' = Outstanding
    BY <1>6, <1>7, <2>1, <2>2, Zenon
  <2> QED
    BY <1>4, <1>5, <2>3
<1> QED
  BY <1>8, <1>9

LEMMA MovesQueue ==
  ASSUME DispatcherTypeOK, Places, ImmediateRuns \/ ShutdownBegins
  PROVE  DispatcherTypeOK' /\ Places' /\ Outstanding' = Outstanding
<1>1. /\ inFlight \in Seq(Seq(Item)) /\ remaining \in Seq(Item) /\ queue \in Seq(Item)
      /\ Cap \in Nat \ {0} /\ immediates \in Nat
  BY DispatcherAssumption DEF DispatcherTypeOK
<1>2. UNCHANGED <<providers, taken, job, last, shed>> /\ queue' = <<>>
  BY DEF ImmediateRuns, ShutdownBegins, drain
<1>3. flushing' \in BOOLEAN
  <2>1. flushing' = FALSE \/ flushing' = flushing
    BY Zenon DEF ImmediateRuns, ShutdownBegins, drain
  <2> QED
    BY <2>1, Zenon DEF DispatcherTypeOK
<1>4. \/ UNCHANGED <<inFlight, remaining>> /\ queue = <<>> /\ closing' = closing
      \/ /\ inFlight' = Append(inFlight, queue) /\ queue # <<>>
         /\ UNCHANGED <<remaining, closing>>
      \/ inFlight' = inFlight /\ remaining' = queue /\ closing = "no" /\ closing' = "inFlight"
  BY DEF ImmediateRuns, ShutdownBegins, drain
<1>5. Len(<<>>) = 0
  OBVIOUS
<1>6. DispatcherTypeOK'
  <2>1. inFlight' \in Seq(Seq(Item)) /\ remaining' \in Seq(Item) /\ closing' \in Closing
    <3>1. Append(inFlight, queue) \in Seq(Seq(Item))
      BY <1>1
    <3>2. closing' \in Closing
      BY <1>4 DEF DispatcherTypeOK, Closing
    <3> QED
      BY <1>1, <1>4, <3>1, <3>2
  <2>2. immediates' \in Nat
    BY <1>1 DEF ImmediateRuns, ShutdownBegins
  <2> QED
    BY <1>2, <1>3, <2>1, <2>2 DEF DispatcherTypeOK
<1>7. Places'
  BY <1>1, <1>2, <1>4, <1>5 DEF Places
<1>8. Outstanding = Rest \o FlattenSeq(inFlight) \o remaining \o queue
      /\ Outstanding' = Rest \o FlattenSeq(inFlight') \o remaining' \o <<>>
  BY <1>2 DEF Outstanding, Rest
<1>9. /\ Rest \in Seq(Item) /\ FlattenSeq(inFlight) \in Seq(Item)
      /\ Rest \o FlattenSeq(inFlight) \in Seq(Item)
  BY PartTypes
<1>10. \A s \in Seq(Item) : s \o <<>> = s /\ <<>> \o s = s
  BY NothingJoined
<1>11. CASE UNCHANGED <<inFlight, remaining>> /\ queue = <<>> /\ closing' = closing
  <2>1. Outstanding' = Outstanding
    BY <1>8, <1>11, Zenon
  <2> QED
    BY <1>6, <1>7, <2>1
<1>12. CASE /\ inFlight' = Append(inFlight, queue) /\ queue # <<>>
            /\ UNCHANGED <<remaining, closing>>
  <2>1. remaining = <<>> /\ remaining' = <<>>
    BY <1>12 DEF Places
  <2>2. FlattenSeq(inFlight') = FlattenSeq(inFlight) \o queue
    BY <1>1, <1>12, FlattenAppend
  <2>3. (Rest \o FlattenSeq(inFlight)) \o queue = Rest \o (FlattenSeq(inFlight) \o queue)
    <3>1. queue \in Seq(Item)
      BY <1>1
    <3> QED
      BY <1>9, <3>1, ItemsAssociate, Zenon
  <2>4. (Rest \o FlattenSeq(inFlight)) \o queue \in Seq(Item)
    BY <1>1, <1>9
  <2>5. Outstanding = (Rest \o FlattenSeq(inFlight)) \o queue
    BY <1>8, <1>9, <1>10, <2>1, Zenon
  <2>6. Outstanding' = (Rest \o FlattenSeq(inFlight)) \o queue
    BY <1>8, <1>10, <2>1, <2>2, <2>3, <2>4, Zenon
  <2> QED
    BY <1>6, <1>7, <2>5, <2>6
<1>13. CASE inFlight' = inFlight /\ remaining' = queue /\ closing = "no" /\ closing' = "inFlight"
  <2>1. remaining = <<>>
    BY <1>13 DEF Places
  <2>2. (Rest \o FlattenSeq(inFlight)) \o queue \in Seq(Item)
    BY <1>1, <1>9
  <2>3. Outstanding = (Rest \o FlattenSeq(inFlight)) \o queue
    BY <1>8, <1>9, <1>10, <2>1, Zenon
  <2>4. Outstanding' = (Rest \o FlattenSeq(inFlight)) \o queue
    BY <1>8, <1>10, <1>13, <2>2, Zenon
  <2> QED
    BY <1>6, <1>7, <2>3, <2>4
<1> QED
  BY <1>4, <1>11, <1>12, <1>13

LEMMA Moved ==
  ASSUME DispatcherTypeOK, Places, Moves
  PROVE  /\ DispatcherTypeOK' /\ Places' /\ Outstanding' = Outstanding
         /\ UNCHANGED <<taken, last>>
<1>1. CASE \/ (\E p \in Provider : ProviderSettles(p)) \/ BatchEnds \/ TailEnds
           \/ BatchBegins \/ TailBegins \/ ImmediateRuns \/ ShutdownBegins
  <2>1. UNCHANGED <<taken, last>>
    BY <1>1 DEF ProviderSettles, BatchEnds, TailEnds, BatchBegins, TailBegins, ImmediateRuns,
                ShutdownBegins
  <2> QED
    BY <1>1, <2>1, MovesJob, MovesBatch, MovesQueue
<1>2. CASE ProvidersClosed \/ (closing = "done" /\ reset)
  <2>1. UNCHANGED <<taken, inFlight, job, immediates, remaining, last, shed>>
        /\ queue' = queue
    BY <1>2 DEF ProvidersClosed, reset, Places
  <2>2. DispatcherTypeOK'
    <3>1. flushing' \in BOOLEAN
      BY <1>2, Zenon DEF ProvidersClosed, reset, DispatcherTypeOK
    <3>2. providers' \subseteq Provider /\ closing' \in Closing
      BY <1>2 DEF ProvidersClosed, reset, DispatcherTypeOK, Closing
    <3> QED
      BY <2>1, <3>1, <3>2 DEF DispatcherTypeOK
  <2>3. Places'
    BY <1>2, <2>1 DEF ProvidersClosed, reset, Places
  <2>4. Outstanding' = Outstanding
    BY <2>1 DEF Outstanding
  <2> QED
    BY <2>1, <2>2, <2>3, <2>4
<1>3. CASE /\ providers' \subseteq Provider
           /\ UNCHANGED <<taken, queue, flushing, inFlight, job, immediates, closing, remaining,
                          last, shed>>
  BY <1>3 DEF DispatcherTypeOK, Places, Outstanding
<1> QED
  BY <1>1, <1>2, <1>3 DEF Moves

-----------------------------------------------------------------------------
(* The dispatcher implements LossyFifo *)

DispatcherNext == (\E event \in Event : dispatch(event)) \/ broadcastEvent \/ Moves

Numbers(s) == {item.n : item \in Range(s)}

LEMMA NumbersAre ==
  ASSUME NEW s \in Seq(Item)
  PROVE  Numbers(s) = {s[i].n : i \in 1..Len(s)}
BY DEF Numbers, Range

LEMMA NumbersWithout ==
  ASSUME NEW s \in Seq(Item), NEW k \in 1..Len(s), Rises(s)
  PROVE  Numbers(Without(s, k)) = Numbers(s) \ {s[k].n}
<1> DEFINE w == Without(s, k)
<1>1. /\ w \in Seq(Item) /\ Len(w) = Len(s) - 1
      /\ \A i \in 1..(Len(s) - 1) : w[i] = IF i < k THEN s[i] ELSE s[i + 1]
      /\ Len(s) \in Nat
  <2>1. Len(s) \in Nat
    BY LenProperties
  <2> QED
    BY <2>1, WithoutType, Zenon
<1>2. \A i \in 1..Len(s) : s[i].n \in Nat
  BY ItemNumbers
<1>3. \A i \in 1..Len(s) : i # k => s[i].n # s[k].n
  BY <1>2 DEF Rises
<1> HIDE DEF w
<1>4. ASSUME NEW i \in 1..Len(w) PROVE w[i].n \in Numbers(s) \ {s[k].n}
  <2>1. CASE i < k
    <3>1. i \in 1..Len(s) /\ i # k /\ w[i] = s[i]
      BY <1>1, <2>1
    <3> QED
      BY <1>3, <3>1, NumbersAre
  <2>2. CASE ~(i < k)
    <3>1. i + 1 \in 1..Len(s) /\ i + 1 # k /\ w[i] = s[i + 1]
      BY <1>1, <2>2
    <3> QED
      BY <1>3, <3>1, NumbersAre
  <2> QED
    BY <2>1, <2>2
<1>5. ASSUME NEW i \in 1..Len(s), i # k PROVE s[i].n \in Numbers(w)
  <2>1. CASE i < k
    <3>1. i \in 1..Len(w) /\ w[i] = s[i]
      BY <1>1, <2>1
    <3> QED
      BY <1>1, <3>1, NumbersAre
  <2>2. CASE ~(i < k)
    <3>1. i - 1 \in 1..Len(w) /\ w[i - 1] = s[i]
      BY <1>1, <1>5, <2>2
    <3> QED
      BY <1>1, <3>1, NumbersAre
  <2> QED
    BY <2>1, <2>2
<1>6. Numbers(w) \subseteq Numbers(s) \ {s[k].n}
  BY <1>1, <1>4, NumbersAre
<1>7. Numbers(s) \ {s[k].n} \subseteq Numbers(w)
  BY <1>5, NumbersAre
<1> QED
  BY <1>6, <1>7 DEF w

LEMMA NumbersAppend ==
  ASSUME NEW s \in Seq(Item), NEW x \in Item
  PROVE  Numbers(Append(s, x)) = Numbers(s) \cup {x.n}
<1>1. /\ Append(s, x) \in Seq(Item) /\ Len(Append(s, x)) = Len(s) + 1 /\ Len(s) \in Nat
      /\ \A i \in 1..Len(s) : Append(s, x)[i] = s[i]
      /\ Append(s, x)[Len(s) + 1] = x
  OBVIOUS
<1>2. Numbers(Append(s, x)) = {Append(s, x)[i].n : i \in 1..(Len(s) + 1)}
  BY <1>1, NumbersAre
<1>3. Numbers(s) = {s[i].n : i \in 1..Len(s)}
  BY NumbersAre
<1> QED
  BY <1>1, <1>2, <1>3

LEMMA SameCardinality == \A S : Fifo!Cardinality(S) = Cardinality(S)
BY DEF Fifo!Cardinality, Cardinality

(* How many events follow the k-th: what a full queue weighs.              *)
LEMMA NewerThan ==
  ASSUME NEW s \in Seq(Item), NEW k \in 1..Len(s), Rises(s)
  PROVE  Cardinality({m \in Numbers(s) : m > s[k].n}) = Len(s) - k
<1> DEFINE count == Len(s) - k
           newer == {m \in Numbers(s) : m > s[k].n}
           f == [i \in 1..count |-> s[k + i].n]
<1>1. Len(s) \in Nat /\ k \in Nat /\ count \in Nat /\ k + count = Len(s)
  OBVIOUS
<1>2. \A i \in 1..Len(s) : s[i].n \in Nat
  BY ItemNumbers
<1> HIDE DEF count
<1>3. \A i \in 1..count : k + i \in 1..Len(s)
  BY <1>1
<1>4. \A i \in 1..count : f[i] \in newer
  BY <1>1, <1>2, <1>3, NumbersAre DEF Rises
<1>5. \A m \in newer : \E i \in 1..count : f[i] = m
  <2> TAKE m \in newer
  <2>1. PICK j \in 1..Len(s) : m = s[j].n
    BY NumbersAre
  <2>2. j > k
    BY <1>1, <1>2, <2>1 DEF Rises
  <2>3. j - k \in 1..count /\ k + (j - k) = j
    BY <1>1, <2>2
  <2>4. f[j - k] = m
    BY <2>1, <2>3
  <2> QED
    BY <2>3, <2>4
<1>6. \A i, j \in 1..count : f[i] = f[j] => i = j
  <2> SUFFICES ASSUME NEW i \in 1..count, NEW j \in 1..count, i # j PROVE f[i] # f[j]
    OBVIOUS
  <2>1. k + i \in 1..Len(s) /\ k + j \in 1..Len(s)
    BY <1>3
  <2>2. i < j \/ j < i
    BY <1>1
  <2> QED
    BY <1>1, <1>2, <2>1, <2>2 DEF Rises
<1>7. f \in [1..count -> newer]
  BY <1>4
<1> HIDE DEF f, newer
<1>8. f \in Bijection(1..count, newer)
  BY <1>5, <1>6, <1>7, Fun_IsBij
<1>9. ExistsBijection(1..count, newer)
  BY <1>8 DEF ExistsBijection
<1>10. Cardinality(newer) = count
  BY <1>1, <1>9, FS_CountingElements
<1> QED
  BY <1>10 DEF newer, count

(* What each dispatcher step does to the events and to the promise.        *)
LEMMA AcceptStep ==
  ASSUME DispatcherInv, NEW event \in Event, dispatch(event), Accepts(event)
  PROVE  DispatcherInv' /\ Fifo!Accept
<1> DEFINE x == ItemOf(event)
           kept == IF Len(queue) < Cap THEN Outstanding ELSE Without(Outstanding, QueueHead)
<1>1. /\ DispatcherTypeOK' /\ Places'
      /\ taken' = taken + 1 /\ last' = last /\ closing = "no" /\ closing' = "no"
      /\ x \in Item /\ x.n = taken + 1 /\ taken \in Nat
      /\ Outstanding' = Append(kept, x)
      /\ Outstanding \in Seq(Item) /\ Len(queue) \in Nat /\ Len(queue) <= Cap /\ Cap \in Nat
      /\ ~(Len(queue) < Cap) => /\ QueueHead \in 1..Len(Outstanding)
                                /\ Outstanding = Rest \o FlattenSeq(inFlight) \o queue
  <2>1. /\ Len(queue) \in Nat /\ Cap \in Nat /\ Len(queue) <= Cap /\ taken \in Nat
        /\ Outstanding \in Seq(Item)
    BY PartTypes, DispatcherAssumption DEF DispatcherInv, DispatcherTypeOK, Places
  <2>2. x.n = taken + 1
    BY DEF ItemOf
  <2>3. Len(queue) < Cap \/ Len(queue) >= Cap
    BY <2>1
  <2>4. Outstanding' = Append(kept, x)
    BY <2>1, <2>3, Accepted DEF DispatcherInv
  <2>5. ~(Len(queue) < Cap) => /\ QueueHead \in 1..Len(Outstanding)
                               /\ Outstanding = Rest \o FlattenSeq(inFlight) \o queue
    BY <2>3, Accepted DEF DispatcherInv
  <2> QED
    BY <2>1, <2>2, <2>4, <2>5, Accepted DEF DispatcherInv
<1> HIDE DEF x
<1>2. /\ Rises(Outstanding) /\ Between(Outstanding, 0, taken)
      /\ \A p \in Provider : last[p] \in Nat /\ last[p] <= taken /\ Between(Outstanding, last[p], taken)
  BY DEF DispatcherInv, InOrder, DispatcherTypeOK
<1>3. /\ kept \in Seq(Item) /\ Rises(kept) /\ Between(kept, 0, taken)
      /\ \A p \in Provider : Between(kept, last[p], taken)
  <2>1. CASE Len(queue) < Cap
    BY <1>1, <1>2, <2>1
  <2>2. CASE ~(Len(queue) < Cap)
    <3>1. kept = Without(Outstanding, QueueHead) /\ kept \in Seq(Item)
      BY <1>1, <2>2, WithoutType
    <3>2. 0 \in Nat /\ 0 <= taken
      BY <1>1
    <3> HIDE DEF kept
    <3>3. Rises(kept) /\ Between(kept, 0, taken)
      BY <1>1, <1>2, <2>2, <3>1, <3>2, RisesWithout
    <3>4. ASSUME NEW p \in Provider PROVE Between(kept, last[p], taken)
      BY <1>1, <1>2, <2>2, <3>1, RisesWithout
    <3> QED
      BY <3>1, <3>3, <3>4
  <2> QED
    BY <2>1, <2>2
<1>4. DispatcherInv'
  <2> HIDE DEF kept
  <2>1. Rises(Outstanding') /\ Between(Outstanding', 0, taken')
    <3>1. 0 \in Nat /\ 0 <= taken
      BY <1>1
    <3> QED
      BY <1>1, <1>3, <3>1, RisesAppend
  <2>2. ASSUME NEW p \in Provider PROVE last'[p] <= taken' /\ Between(Outstanding', last'[p], taken')
    <3>1. Between(Append(kept, x), last[p], taken + 1)
      BY <1>1, <1>2, <1>3, RisesAppend
    <3>2. last[p] <= taken + 1
      BY <1>1, <1>2
    <3> QED
      BY <1>1, <3>1, <3>2
  <2>3. Rises(Outstanding)' /\ Between(Outstanding, 0, taken)'
    BY <2>1 DEF Rises, Between
  <2>4. \A p \in Provider : (last[p] <= taken /\ Between(Outstanding, last[p], taken))'
    BY <2>2 DEF Between
  <2>5. InOrder'
    BY <2>3, <2>4 DEF InOrder
  <2> QED
    BY <1>1, <2>3, <2>5 DEF DispatcherInv
<1> DEFINE waiting == Numbers(Outstanding)
<1>5. \E lost \in {{}} \cup {{n} : n \in {m \in waiting :
                                Cardinality({l \in waiting : l > m}) = Cap - 1}} :
        Numbers(Outstanding') = (waiting \ lost) \cup {taken + 1}
  <2>1. Numbers(Outstanding') = Numbers(kept) \cup {taken + 1}
    <3> HIDE DEF kept
    <3> QED
      BY <1>1, <1>3, NumbersAppend
  <2>2. CASE Len(queue) < Cap
    <3>1. Numbers(Outstanding') = (waiting \ {}) \cup {taken + 1}
      BY <2>1, <2>2
    <3> HIDE DEF waiting
    <3> QED
      BY <3>1, Zenon
  <2>3. CASE ~(Len(queue) < Cap)
    <3> DEFINE k == QueueHead
               n == Outstanding[k].n
    <3>1. k \in 1..Len(Outstanding) /\ kept = Without(Outstanding, k)
      BY <1>1, <2>3
    <3>2. Len(Outstanding) - k = Cap - 1
      <4>1. /\ Rest \o FlattenSeq(inFlight) \in Seq(Item) /\ queue \in Seq(Item)
            /\ Len(queue) = Cap
        BY <1>1, <2>3, PartTypes DEF DispatcherInv, DispatcherTypeOK
      <4>2. Len(Outstanding) = Len(Rest \o FlattenSeq(inFlight)) + Cap
        <5>1. \A s, t \in Seq(Item) : Len(s \o t) = Len(s) + Len(t)
          OBVIOUS
        <5>2. Outstanding = (Rest \o FlattenSeq(inFlight)) \o queue
          BY <1>1, <2>3
        <5> QED
          BY <4>1, <5>1, <5>2
      <4>3. Len(Rest \o FlattenSeq(inFlight)) \in Nat
        BY <4>1
      <4> QED
        BY <1>1, <4>2, <4>3 DEF QueueHead
    <3> HIDE DEF k, kept
    <3>3. n \in waiting
      BY <1>1, <3>1, NumbersAre
    <3>4. Numbers(kept) = waiting \ {n}
      BY <1>1, <1>2, <3>1, NumbersWithout
    <3>5. Cardinality({l \in waiting : l > n}) = Cap - 1
      BY <1>1, <1>2, <3>1, <3>2, NewerThan
    <3> HIDE DEF n, waiting
    <3>6. {n} \in {{i} : i \in {m \in waiting : Cardinality({l \in waiting : l > m}) = Cap - 1}}
      BY <3>3, <3>5
    <3> QED
      BY <2>1, <3>4, <3>6
  <2> QED
    BY <2>2, <2>3
<1>6. Fifo!Accept
  <2>1. \A m : Fifo!Expendable(m) <=> Cardinality({l \in waiting : l > m}) = Cap - 1
    BY SameCardinality DEF Fifo!Expendable, Numbers
  <2>2. waiting = {item.n : item \in Range(Outstanding)}
        /\ Numbers(Outstanding') = {item.n : item \in Range(Outstanding)}'
    BY DEF Numbers
  <2> HIDE DEF waiting
  <2>3. {m \in waiting : Fifo!Expendable(m)}
          = {m \in waiting : Cardinality({l \in waiting : l > m}) = Cap - 1}
    BY <2>1
  <2>4. \E lost \in {{}} \cup {{n} : n \in {m \in waiting : Fifo!Expendable(m)}} :
          {item.n : item \in Range(Outstanding)}' = (waiting \ lost) \cup {taken + 1}
    BY <1>5, <2>2, <2>3, Zenon
  <2>5. UNCHANGED <<last, closing = "no">> /\ closing = "no" /\ taken' = taken + 1
    BY <1>1
  <2> QED
    BY <2>2, <2>4, <2>5, Zenon DEF Fifo!Accept
<1> QED
  BY <1>4, <1>6

LEMMA HandOverStep ==
  ASSUME DispatcherInv, broadcastEvent
  PROVE  DispatcherInv' /\ Fifo!HandOver
<1> DEFINE n == Head(job.rest).n
           to == job.to
<1>1. /\ DispatcherTypeOK' /\ Places'
      /\ 1 \in 1..Len(Outstanding) /\ Outstanding[1].n = n /\ n \in Nat
      /\ Outstanding' = Without(Outstanding, 1)
      /\ to \subseteq Provider
      /\ Outstanding \in Seq(Item) /\ taken \in Nat
  BY HandedOver, PartTypes DEF DispatcherInv, DispatcherTypeOK
<1>2. last' = [p \in Provider |-> IF p \in to THEN n ELSE last[p]]
      /\ taken' = taken /\ closing' = closing
  BY DEF broadcastEvent
<1>3. /\ Rises(Outstanding) /\ Between(Outstanding, 0, taken)
      /\ \A p \in Provider : last[p] \in Nat /\ last[p] <= taken /\ Between(Outstanding, last[p], taken)
  BY DEF DispatcherInv, InOrder, DispatcherTypeOK
<1> HIDE DEF n, to
<1>4. Rises(Outstanding') /\ Between(Outstanding', 0, taken)
      /\ \A p \in Provider : Between(Outstanding', last[p], taken)
  <2>1. 0 \in Nat
    OBVIOUS
  <2> QED
    BY <1>1, <1>3, <2>1, RisesWithout
<1>5. Between(Outstanding', n, taken) /\ n <= taken
  <2>1. /\ Len(Outstanding') = Len(Outstanding) - 1 /\ Len(Outstanding) \in Nat
        /\ \A i \in 1..(Len(Outstanding) - 1) : Outstanding'[i] = Outstanding[i + 1]
    <3> DEFINE w == Without(Outstanding, 1)
    <3>1. /\ Len(w) = Len(Outstanding) - 1
          /\ \A i \in 1..(Len(Outstanding) - 1) :
               w[i] = IF i < 1 THEN Outstanding[i] ELSE Outstanding[i + 1]
      BY <1>1, WithoutType
    <3>2. Outstanding' = w /\ Len(Outstanding) \in Nat
      BY <1>1
    <3> HIDE DEF w
    <3> QED
      BY <3>1, <3>2
  <2>2. \A i \in 1..Len(Outstanding) : Outstanding[i].n \in Nat
    BY <1>1, ItemNumbers
  <2>3. \A i \in 1..(Len(Outstanding) - 1) : n < Outstanding[i + 1].n /\ Outstanding[i + 1].n <= taken
    BY <1>1, <1>3, <2>1, <2>2 DEF Rises, Between
  <2>4. n <= taken
    BY <1>1, <1>3 DEF Between
  <2> QED
    BY <2>1, <2>3, <2>4 DEF Between
<1>6. DispatcherInv'
  <2>1. \A p \in Provider : last'[p] <= taken' /\ Between(Outstanding', last'[p], taken')
    BY <1>2, <1>3, <1>4, <1>5
  <2>2. Rises(Outstanding)' /\ Between(Outstanding, 0, taken)'
    BY <1>2, <1>4 DEF Rises, Between
  <2>3. \A p \in Provider : (last[p] <= taken /\ Between(Outstanding, last[p], taken))'
    BY <2>1 DEF Between
  <2>4. InOrder'
    BY <2>2, <2>3 DEF InOrder
  <2> QED
    BY <1>1, <2>2, <2>4 DEF DispatcherInv
<1>7. /\ n \in Numbers(Outstanding)
      /\ \A m \in Numbers(Outstanding) : n <= m
      /\ \A p \in to : last[p] < n
      /\ Numbers(Outstanding') = Numbers(Outstanding) \ {n}
  <2>1. Numbers(Outstanding) = {Outstanding[i].n : i \in 1..Len(Outstanding)}
    BY <1>1, NumbersAre
  <2>2. \A i \in 1..Len(Outstanding) : Outstanding[i].n \in Nat
    BY <1>1, ItemNumbers
  <2>3. \A i \in 1..Len(Outstanding) : n <= Outstanding[i].n
    BY <1>1, <1>3, <2>2 DEF Rises
  <2>4. \A p \in to : last[p] < n
    BY <1>1, <1>3 DEF Between
  <2> QED
    BY <1>1, <1>3, <2>1, <2>3, <2>4, NumbersWithout
<1>8. Fifo!HandOver
  <2>1. to \in SUBSET Provider
    BY <1>1
  <2> QED
    BY <1>2, <1>7, <2>1 DEF Fifo!HandOver, Numbers
<1> QED
  BY <1>6, <1>8

LEMMA MoveStep ==
  ASSUME DispatcherInv, Moves
  PROVE  DispatcherInv' /\ [Fifo!Next]_(Fifo!fifoVars)
<1>1. /\ DispatcherTypeOK' /\ Places' /\ Outstanding' = Outstanding
      /\ UNCHANGED <<taken, last>>
  BY Moved DEF DispatcherInv
<1>2. DispatcherInv'
  BY <1>1 DEF DispatcherInv, InOrder, Rises, Between
<1>3. CASE (closing = "no") = (closing' = "no")
  BY <1>1, <1>2, <1>3 DEF Fifo!fifoVars
<1>4. CASE closing = "no" /\ closing' # "no"
  <2>1. Fifo!Close
    BY <1>1, <1>4 DEF Fifo!Close
  <2> QED
    BY <1>2, <2>1 DEF Fifo!Next
<1>5. CASE closing # "no" /\ closing' = "no"
  <2>1. closing = "done"
    BY <1>5 DEF Moves, ProviderSettles, BatchBegins, BatchEnds, TailBegins, TailEnds,
                ProvidersClosed, ImmediateRuns, ShutdownBegins
  <2>2. job = None /\ inFlight = <<>> /\ remaining = <<>> /\ queue = <<>>
    BY <1>5, <2>1 DEF DispatcherInv, Places
  <2>3. Outstanding = <<>>
    <3>1. <<>> \in Seq(Item)
      OBVIOUS
    <3>2. <<>> \o <<>> = <<>>
      BY <3>1, NothingJoined
    <3> QED
      BY <2>2, <3>2, FlattenEmpty, Zenon DEF Outstanding
  <2>4. {item.n : item \in Range(Outstanding)} = {}
    BY <2>3 DEF Range
  <2>5. Fifo!Reopen
    BY <1>1, <1>5, <2>4 DEF Fifo!Reopen
  <2> QED
    BY <1>2, <2>5 DEF Fifo!Next
<1> QED
  BY <1>3, <1>4, <1>5

-----------------------------------------------------------------------------
(* The extension around the dispatcher *)

PiState == [turn : BOOLEAN, calls : SUBSET Call, asked : Nat, answered : Nat]

Sessions ==
  /\ phase \in {"up", "orphans", "down"}
  /\ sessions \in 0..MaxSessions /\ session \in {0, sessions}
  /\ phase # "down" => sessions # 0
  /\ phase = "down" => session = 0 /\ seq = 0 /\ tracked = {}
  /\ session = 0 => closing = "no"
  /\ phase = "orphans" => session # 0 /\ closing = "no"
  /\ seq \in 0..MaxSeq /\ pi \in PiState
  /\ phase # "down" => pi.asked <= seq
  /\ tracked \subseteq Agent

LEMMA EventTypes ==
  ASSUME Sessions, session # 0
  PROVE  /\ \A kind \in {"session_start", "agent_start", "agent_end", "turn_end",
                         "message_end", "session_shutdown"} : PiEvent(kind) \in Event
         /\ \A kind \in {"tool_execution_start", "tool_execution_end"}, c \in Call :
              ToolEvent(kind, c) \in Event
         /\ \A kind \in {"llm_request_start", "llm_request_end"}, n \in 1..MaxSeq :
              LlmEvent(kind, n) \in Event
         /\ \A kind \in BusKind, a \in Agent : AgentEvent(kind, a) \in Event
<1>1. session \in 1..MaxSessions
  BY TelemetryAssumption DEF Sessions
<1>2. \A kind \in {"session_start", "agent_start", "agent_end", "turn_end",
                   "message_end", "session_shutdown"} : PiEvent(kind) \in Event
  BY <1>1, TelemetryAssumption DEF PiEvent
<1>3. \A kind \in {"tool_execution_start", "tool_execution_end"}, c \in Call :
        ToolEvent(kind, c) \in Event
  BY <1>1, TelemetryAssumption DEF ToolEvent
<1>4. \A kind \in {"llm_request_start", "llm_request_end"}, n \in 1..MaxSeq :
        LlmEvent(kind, n) \in Event
  BY <1>1, TelemetryAssumption DEF LlmEvent
<1>5. \A kind \in BusKind, a \in Agent : AgentEvent(kind, a) \in Event
  BY <1>1, TelemetryAssumption DEF AgentEvent, BusKind, Terminal
<1> QED
  BY <1>2, <1>3, <1>4, <1>5

(* What Pi says while a session is open.                                   *)
PiSays(event) ==
  /\ phase = "up" /\ session # 0 /\ event \in Event
  /\ dispatch(event)
  /\ UNCHANGED <<phase, session, sessions, tracked, agents, announced, terminals, registryVars>>

PiSteps ==
  \/ agentStart \/ agentEnd \/ attributeOnly \/ messageEnd
  \/ \E c \in Call : toolExecutionStart(c) \/ toolExecutionEnd(c)
  \/ beforeProviderRequest \/ afterProviderResponse

LEMMA PiCalls ==
  ASSUME NEW p \in PiState, NEW c \in Call
  PROVE  /\ [p EXCEPT !.calls = @ \cup {c}] \in PiState
         /\ [p EXCEPT !.calls = @ \cup {c}].asked = p.asked
         /\ [p EXCEPT !.calls = @ \ {c}] \in PiState
         /\ [p EXCEPT !.calls = @ \ {c}].asked = p.asked
BY DEF PiState

LEMMA PiAsks ==
  ASSUME NEW p \in PiState
  PROVE  /\ \A b \in BOOLEAN : /\ [p EXCEPT !.turn = b] \in PiState
                               /\ [p EXCEPT !.turn = b].asked = p.asked
         /\ [p EXCEPT !.asked = @ + 1] \in PiState
         /\ [p EXCEPT !.asked = @ + 1].asked = p.asked + 1
         /\ [p EXCEPT !.answered = @ + 1] \in PiState
         /\ [p EXCEPT !.answered = @ + 1].asked = p.asked
BY DEF PiState

LEMMA PiStep ==
  ASSUME Sessions, PiSteps
  PROVE  /\ \E event \in Event : PiSays(event)
         /\ seq' \in 0..MaxSeq /\ pi' \in PiState /\ pi'.asked <= seq'
<1>0. /\ seq \in 0..MaxSeq /\ MaxSeq \in Nat /\ pi \in PiState /\ pi.asked <= seq
      /\ pi.asked \in Nat /\ pi.answered \in Nat
  <2>1. phase = "up"
    BY DEF PiSteps, agentStart, agentEnd, attributeOnly, messageEnd, toolExecutionStart,
           toolExecutionEnd, beforeProviderRequest, afterProviderResponse, Dispatching, Live
  <2> QED
    BY <2>1, TelemetryAssumption DEF Sessions, PiState
<1>1. ASSUME agentStart \/ agentEnd \/ attributeOnly \/ messageEnd
      PROVE  /\ \E event \in Event : PiSays(event)
             /\ seq' \in 0..MaxSeq /\ pi' \in PiState /\ pi'.asked <= seq'
  <2>1. \E kind \in {"agent_start", "agent_end", "turn_end", "message_end"} :
          Dispatching(PiEvent(kind))
    BY <1>1 DEF agentStart, agentEnd, attributeOnly, messageEnd
  <2>2. \E event \in Event : PiSays(event)
    BY <2>1, EventTypes DEF Dispatching, Live, PiSays
  <2>3. seq' = seq /\ (pi' = pi \/ \E b \in BOOLEAN : pi' = [pi EXCEPT !.turn = b])
    BY <1>1 DEF agentStart, agentEnd, attributeOnly, messageEnd
  <2>4. pi' \in PiState /\ pi'.asked = pi.asked
    BY <1>0, <2>3, PiAsks
  <2> QED
    BY <1>0, <2>2, <2>3, <2>4
<1>2. ASSUME NEW c \in Call, toolExecutionStart(c) \/ toolExecutionEnd(c)
      PROVE  /\ \E event \in Event : PiSays(event)
             /\ seq' \in 0..MaxSeq /\ pi' \in PiState /\ pi'.asked <= seq'
  <2>1. \E kind \in {"tool_execution_start", "tool_execution_end"} :
          Dispatching(ToolEvent(kind, c))
    BY <1>2 DEF toolExecutionStart, toolExecutionEnd
  <2>2. \E event \in Event : PiSays(event)
    BY <2>1, EventTypes DEF Dispatching, Live, PiSays
  <2>3. seq' = seq /\ \/ pi' = [pi EXCEPT !.calls = @ \cup {c}]
                      \/ pi' = [pi EXCEPT !.calls = @ \ {c}]
    BY <1>2 DEF toolExecutionStart, toolExecutionEnd
  <2>4. pi' \in PiState /\ pi'.asked = pi.asked
    BY <1>0, <2>3, PiCalls
  <2> QED
    BY <1>0, <2>2, <2>3, <2>4
<1>3. ASSUME beforeProviderRequest
      PROVE  /\ \E event \in Event : PiSays(event)
             /\ seq' \in 0..MaxSeq /\ pi' \in PiState /\ pi'.asked <= seq'
  <2>1. seq' = seq + 1 /\ seq' \in 1..MaxSeq
    BY <1>0, <1>3 DEF beforeProviderRequest
  <2>2. Dispatching(LlmEvent("llm_request_start", seq'))
    BY <1>3 DEF beforeProviderRequest
  <2>3. \E event \in Event : PiSays(event)
    BY <2>1, <2>2, EventTypes DEF Dispatching, Live, PiSays
  <2>4. pi' \in PiState /\ pi'.asked = pi.asked + 1
    BY <1>0, <1>3, PiAsks DEF beforeProviderRequest
  <2> QED
    BY <1>0, <2>1, <2>3, <2>4
<1>4. ASSUME afterProviderResponse
      PROVE  /\ \E event \in Event : PiSays(event)
             /\ seq' \in 0..MaxSeq /\ pi' \in PiState /\ pi'.asked <= seq'
  <2>1. seq' = seq /\ seq \in 1..MaxSeq
    BY <1>0, <1>4 DEF afterProviderResponse
  <2>2. Dispatching(LlmEvent("llm_request_end", seq))
    BY <1>4 DEF afterProviderResponse
  <2>3. \E event \in Event : PiSays(event)
    BY <2>1, <2>2, EventTypes DEF Dispatching, Live, PiSays
  <2>4. pi' \in PiState /\ pi'.asked = pi.asked
    BY <1>0, <1>4, PiAsks DEF afterProviderResponse
  <2> QED
    BY <1>0, <2>1, <2>3, <2>4
<1> QED
  BY <1>1, <1>2, <1>3, <1>4 DEF PiSteps

LEMMA DispatchKeeps ==
  ASSUME NEW event, dispatch(event)
  PROVE  UNCHANGED <<providers, job, immediates, closing, remaining, last>>
BY DEF dispatch, dispatcherVars

(* The steps of the chain, seen from the extension.                        *)
LEMMA ChainStep ==
  ASSUME DispatcherTypeOK, OnChain \/ Immediate \/ UNCHANGED vars
  PROVE  /\ DispatcherNext /\ UNCHANGED telemetryVars
         /\ closing = "no" => closing' = "no"
<1>1. CASE OnChain
  <2>1. broadcastEvent \/ Moves
    BY <1>1 DEF OnChain, Hand, Settle, CloseProviders, Moves
  <2>2. closing = "no" => closing' = "no"
    BY <1>1 DEF OnChain, Hand, Settle, CloseProviders, broadcastEvent, ProviderSettles,
                BatchBegins, BatchEnds, TailBegins, InFlightSettled, TailEnds, ProvidersClosed
  <2> QED
    BY <1>1, <2>1, <2>2 DEF OnChain, DispatcherNext
<1>2. CASE Immediate
  BY <1>2 DEF Immediate, ImmediateRuns, DispatcherNext, Moves
<1>3. CASE UNCHANGED vars
  <2>1. Moves
    BY <1>3 DEF vars, dispatcherVars, Moves, DispatcherTypeOK
  <2> QED
    BY <1>3, <2>1 DEF vars, dispatcherVars, DispatcherNext
<1> QED
  BY <1>1, <1>2, <1>3

LEMMA SessionsStep ==
  ASSUME Sessions, DispatcherTypeOK, [Next]_vars
  PROVE  Sessions' /\ DispatcherNext
<1>0. MaxSessions \in Nat /\ MaxSeq \in Nat
  BY TelemetryAssumption
<1>1. CASE PiSteps
  <2>1. PICK event \in Event : PiSays(event)
    BY <1>1, PiStep
  <2>2. seq' \in 0..MaxSeq /\ pi' \in PiState /\ pi'.asked <= seq'
    BY <1>1, PiStep
  <2>3. closing' = closing
    BY <2>1, DispatchKeeps DEF PiSays
  <2> QED
    BY <2>1, <2>2, <2>3 DEF PiSays, Sessions, DispatcherNext
<1>2. CASE initInstrumentation
  <2>1. /\ phase = "down" /\ phase' = "up" /\ sessions < MaxSessions /\ sessions' = sessions + 1
        /\ pi' = Quiet /\ providers' \subseteq Provider
        /\ UNCHANGED <<taken, queue, flushing, inFlight, job, immediates, closing, remaining, last,
                       shed, session, seq, tracked>>
    BY <1>2 DEF initInstrumentation, registerConfiguredProviders
  <2>2. pi' \in PiState /\ pi'.asked = 0
    BY <2>1 DEF Quiet, PiState
  <2>3. Moves
    BY <2>1 DEF Moves
  <2>4. sessions' \in 0..MaxSessions /\ sessions' # 0
    BY <1>0, <2>1 DEF Sessions
  <2>5. session = 0 /\ seq = 0 /\ closing = "no" /\ tracked = {}
    BY <2>1 DEF Sessions
  <2>6. seq' \in 0..MaxSeq /\ pi'.asked <= seq'
    BY <1>0, <2>1, <2>2, <2>5
  <2>7. Sessions'
    BY <2>1, <2>2, <2>4, <2>5, <2>6 DEF Sessions
  <2> QED
    BY <2>3, <2>7 DEF DispatcherNext
<1>3. CASE sessionStart
  <2>1. /\ phase = "up" /\ session = 0 /\ session' = sessions
        /\ dispatch([kind |-> "session_start", session |-> sessions])
        /\ UNCHANGED <<phase, sessions, seq, tracked, pi>>
    BY <1>3 DEF sessionStart, Live
  <2>2. sessions \in 1..MaxSessions
    BY <1>0, <2>1 DEF Sessions
  <2>3. [kind |-> "session_start", session |-> sessions] \in Event
    BY <2>2, TelemetryAssumption
  <2>4. closing' = closing
    BY <2>1, DispatchKeeps
  <2>5. Sessions'
    BY <2>1, <2>2, <2>4 DEF Sessions
  <2> QED
    BY <2>1, <2>3, <2>5 DEF DispatcherNext
<1>4. CASE LateProvider
  <2>1. UNCHANGED telemetryVars /\ closing' = closing
    BY <1>4 DEF LateProvider, registerProvider
  <2>2. Moves
    BY <1>4, TelemetryAssumption DEF LateProvider, registerProvider, Moves, DispatcherTypeOK
  <2> QED
    BY <2>1, <2>2 DEF telemetryVars, Sessions, DispatcherNext
<1>5. ASSUME NEW a \in Agent, NEW kind \in BusKind, NEW valid \in BOOLEAN,
             handleSubAgentBusEvent(a, kind, valid)
      PROVE  Sessions' /\ DispatcherNext
  <2>1. /\ phase = "up" /\ UNCHANGED <<phase, session, sessions, seq, pi>>
        /\ \/ UNCHANGED <<dispatcherVars, tracked>>
           \/ session # 0 /\ tracked' = TrackedAfter(a, kind) /\ dispatch(AgentEvent(kind, a))
    BY <1>5 DEF handleSubAgentBusEvent
  <2>2. CASE UNCHANGED <<dispatcherVars, tracked>>
    <3>1. Moves /\ closing' = closing
      BY <2>2 DEF dispatcherVars, Moves, DispatcherTypeOK
    <3>2. Sessions'
      BY <2>1, <2>2, <3>1 DEF Sessions
    <3> QED
      BY <3>1, <3>2 DEF DispatcherNext
  <2>3. CASE session # 0 /\ tracked' = TrackedAfter(a, kind) /\ dispatch(AgentEvent(kind, a))
    <3>1. AgentEvent(kind, a) \in Event
      BY <2>3, EventTypes
    <3>2. closing' = closing
      BY <2>3, DispatchKeeps
    <3>3. tracked' \subseteq Agent
      BY <2>3 DEF TrackedAfter, Sessions
    <3>4. Sessions'
      BY <2>1, <3>2, <3>3 DEF Sessions
    <3> QED
      BY <2>3, <3>1, <3>4 DEF DispatcherNext
  <2> QED
    BY <2>1, <2>2, <2>3
<1>6. CASE sessionShutdown
  <2>1. /\ session # 0 /\ closing = "no" /\ phase' = "orphans"
        /\ dispatch(PiEvent("session_shutdown"))
        /\ UNCHANGED <<session, sessions, seq, tracked, pi>>
    BY <1>6 DEF sessionShutdown
  <2>2. closing' = closing
    BY <2>1, DispatchKeeps
  <2>3. PiEvent("session_shutdown") \in Event
    BY <2>1, EventTypes
  <2>4. Sessions'
    BY <2>1, <2>2 DEF Sessions
  <2> QED
    BY <2>1, <2>3, <2>4 DEF DispatcherNext
<1>7. CASE flushOrphanSubAgents
  <2>1. PICK a \in tracked : tracked' = tracked \ {a} /\ dispatch(AgentEvent("subagent_failed", a))
    BY <1>7 DEF flushOrphanSubAgents
  <2>2. /\ phase = "orphans" /\ session # 0 /\ a \in Agent
        /\ UNCHANGED <<phase, session, sessions, seq, pi>>
    BY <1>7 DEF flushOrphanSubAgents, Sessions
  <2>3. AgentEvent("subagent_failed", a) \in Event
    BY <2>2, EventTypes DEF BusKind, Terminal
  <2>4. closing' = closing
    BY <2>1, DispatchKeeps
  <2>5. Sessions'
    BY <2>1, <2>2, <2>4 DEF Sessions
  <2> QED
    BY <2>1, <2>3, <2>5 DEF DispatcherNext
<1>8. CASE shutdownTelemetryDispatcher
  <2>1. /\ phase = "orphans" /\ phase' = "up" /\ ShutdownBegins
        /\ UNCHANGED <<session, sessions, seq, tracked, pi>>
    BY <1>8 DEF shutdownTelemetryDispatcher, OrphansFlushed
  <2>2. Sessions'
    BY <2>1 DEF Sessions
  <2> QED
    BY <2>1, <2>2 DEF DispatcherNext, Moves
<1>9. CASE teardownTelemetry
  <2>1. /\ closing = "done" /\ reset /\ phase' = "down" /\ session' = 0 /\ seq' = 0
        /\ tracked' = {} /\ UNCHANGED <<sessions, pi>>
    BY <1>9 DEF teardownTelemetry
  <2>2. closing' = "no"
    BY <2>1 DEF reset
  <2>3. Sessions'
    BY <1>0, <2>1, <2>2 DEF Sessions
  <2> QED
    BY <2>1, <2>3 DEF DispatcherNext, Moves
<1>10. CASE OnChain \/ Immediate \/ UNCHANGED vars
  <2>1. DispatcherNext /\ UNCHANGED telemetryVars /\ (closing = "no" => closing' = "no")
    BY <1>10, ChainStep
  <2> QED
    BY <2>1 DEF telemetryVars, Sessions
<1> QED
  BY <1>1, <1>2, <1>3, <1>4, <1>5, <1>6, <1>7, <1>8, <1>9, <1>10
     DEF Next, Pi, PiSteps, Bus, Finalize

LEMMA DispatcherStep ==
  ASSUME DispatcherInv, DispatcherNext
  PROVE  DispatcherInv' /\ [Fifo!Next]_(Fifo!fifoVars)
<1>1. ASSUME NEW event \in Event, dispatch(event)
      PROVE  DispatcherInv' /\ [Fifo!Next]_(Fifo!fifoVars)
  <2>1. CASE Accepts(event)
    BY <1>1, <2>1, AcceptStep DEF Fifo!Next
  <2>2. CASE ~Accepts(event)
    <3>1. Moves
      BY <1>1, <2>2 DEF dispatch, dispatcherVars, Moves, DispatcherInv, DispatcherTypeOK
    <3> QED
      BY <3>1, MoveStep
  <2> QED
    BY <2>1, <2>2
<1>2. CASE broadcastEvent
  BY <1>2, HandOverStep DEF Fifo!Next
<1>3. CASE Moves
  BY <1>3, MoveStep
<1> QED
  BY <1>1, <1>2, <1>3 DEF DispatcherNext

TelemetryInv == Sessions /\ DispatcherInv

LEMMA TelemetryInitially == Init => TelemetryInv /\ Fifo!Init
<1> SUFFICES ASSUME Init PROVE TelemetryInv /\ Fifo!Init
  OBVIOUS
<1>0. MaxSessions \in Nat /\ MaxSeq \in Nat /\ Cap \in Nat \ {0}
  BY TelemetryAssumption, DispatcherAssumption
<1>1. Sessions
  <2>1. pi \in PiState
    BY DEF Init, Quiet, PiState
  <2> QED
    BY <1>0, <2>1 DEF Init, DispatcherInit, Sessions
<1>2. DispatcherTypeOK
  <2>1. /\ <<>> \in Seq(Item) /\ <<>> \in Seq(Seq(Item))
        /\ [p \in Provider |-> 0] \in [Provider -> Nat] /\ "no" \in Closing
    BY DEF Closing
  <2> QED
    BY <2>1 DEF Init, DispatcherInit, DispatcherTypeOK
<1>3. Places
  <2>1. Len(<<>>) = 0
    OBVIOUS
  <2> QED
    BY <1>0, <2>1 DEF Init, DispatcherInit, Places
<1>4. Outstanding = <<>>
  <2>1. <<>> \in Seq(Item)
    OBVIOUS
  <2>2. <<>> \o <<>> = <<>>
    BY <2>1, NothingJoined
  <2>3. job = None /\ inFlight = <<>> /\ remaining = <<>> /\ queue = <<>>
    BY DEF Init, DispatcherInit
  <2> QED
    BY <2>2, <2>3, FlattenEmpty, Zenon DEF Outstanding
<1>5. Len(Outstanding) = 0
  BY <1>4
<1>6. InOrder /\ Between(Outstanding, 0, taken)
  BY <1>5 DEF InOrder, Rises, Between, Init, DispatcherInit
<1>7. Fifo!Init
  <2>1. {item.n : item \in Range(Outstanding)} = {}
    BY <1>4 DEF Range
  <2> QED
    BY <2>1 DEF Fifo!Init, Init, DispatcherInit
<1> QED
  BY <1>1, <1>2, <1>3, <1>6, <1>7 DEF TelemetryInv, DispatcherInv

LEMMA TelemetryStep ==
  ASSUME TelemetryInv, [Next]_vars
  PROVE  TelemetryInv' /\ DispatcherNext /\ [Fifo!Next]_(Fifo!fifoVars)
<1>1. Sessions' /\ DispatcherNext
  BY SessionsStep DEF TelemetryInv, DispatcherInv
<1> QED
  BY <1>1, DispatcherStep DEF TelemetryInv

(* The dispatcher implements LossyFifo, whatever the size of its queue and *)
(* whichever providers listen: each is given the events in the order they  *)
(* were accepted and none twice, an event is given up only to a full queue *)
(* of newer ones, and what shutdown finds is handed over before the        *)
(* dispatcher opens again.                                                 *)
THEOREM OrderIsAlwaysKept == Spec => KeepsOrder
<1>1. Spec => []TelemetryInv
  BY TelemetryInitially, TelemetryStep, PTL DEF Spec
<1> QED
  BY <1>1, TelemetryInitially, TelemetryStep, PTL DEF Spec, KeepsOrder, Fifo!Spec
-----------------------------------------------------------------------------
(* The terminal events of the sub-agents *)

TerminalsOf(a) ==
  /\ terminals[a] \in {0, 1}
  /\ phase # "down" /\ closing = "no" /\ terminals[a] = 1 => a \notin tracked
  /\ phase = "up" /\ closing = "no" /\ terminals[a] = 1 => agents[a] = "over"
  /\ phase # "down" /\ a \in announced => providers # {} /\ (a \in tracked \/ terminals[a] = 1)
  /\ closing # "no" /\ a \in announced => terminals[a] = 1

TerminalsInv ==
  /\ DOMAIN agents = Agent /\ terminals \in [Agent -> Nat]
  /\ \A a \in Agent : TerminalsOf(a)

LEMMA TerminalSteps ==
  ASSUME TerminalsInv, Sessions, UNCHANGED <<agents, announced, terminals, tracked>>,
         providers # {} => providers' # {},
         closing = "no" <=> closing' = "no",
         (phase = "up" /\ phase' = "orphans") \/ phase' = phase
  PROVE  TerminalsInv'
BY DEF TerminalsInv, TerminalsOf, Sessions

LEMMA BusTerminals ==
  ASSUME Terminal \cap Disabled = {}, TerminalsInv, Sessions,
         NEW a \in Agent, NEW kind \in BusKind, NEW valid \in BOOLEAN,
         handleSubAgentBusEvent(a, kind, valid)
  PROVE  TerminalsInv'
<1>1. /\ phase = "up" /\ UNCHANGED <<phase, session>> /\ AgentMoves(a, kind)
      /\ agents' = [agents EXCEPT ![a] = AgentStateAfter(a, kind)]
  BY DEF handleSubAgentBusEvent
<1>2. /\ DOMAIN agents' = Agent
      /\ \A b \in Agent : b # a => agents'[b] = agents[b]
      /\ kind \in Terminal => agents'[a] = "over"
      /\ agents[a] # "over"
      /\ kind \in Terminal => kind \notin {"subagent_created", "subagent_started"}
  BY <1>1 DEF TerminalsInv, AgentMoves, AgentStateAfter, BusKind, Terminal
<1>3. closing = "no" => terminals[a] = 0
  BY <1>1, <1>2 DEF TerminalsInv, TerminalsOf
<1>4. CASE UNCHANGED <<dispatcherVars, tracked, announced, terminals>>
  <2>1. UNCHANGED <<providers, closing>>
    BY <1>4 DEF dispatcherVars
  <2>2. ASSUME NEW b \in Agent PROVE TerminalsOf(b)'
    BY <1>1, <1>2, <1>3, <1>4, <2>1 DEF TerminalsInv, TerminalsOf
  <2> QED
    BY <1>2, <1>4, <2>2 DEF TerminalsInv
<1>5. CASE /\ tracked' = TrackedAfter(a, kind) /\ dispatch(AgentEvent(kind, a)) /\ Noted(a, kind)
  <2>1. UNCHANGED <<providers, closing>>
    BY <1>5, DispatchKeeps
  <2>2. AgentEvent(kind, a).kind = kind
    BY DEF AgentEvent
  <2>3. CASE Accepts(AgentEvent(kind, a))
    <3>1. /\ closing = "no" /\ providers # {} /\ terminals[a] = 0
          /\ announced' = IF kind = "subagent_created" THEN announced \cup {a} ELSE announced
          /\ terminals' = IF kind \in Terminal THEN [terminals EXCEPT ![a] = @ + 1] ELSE terminals
      BY <1>3, <1>5, <2>3 DEF Accepts, Noted
    <3>2. /\ terminals' \in [Agent -> Nat]
          /\ terminals'[a] = IF kind \in Terminal THEN 1 ELSE 0
          /\ \A b \in Agent : b # a => terminals'[b] = terminals[b]
      BY <3>1 DEF TerminalsInv
    <3>3. /\ kind \in Terminal => a \notin tracked'
          /\ kind = "subagent_created" => a \in tracked'
          /\ kind = "subagent_started" => tracked' = tracked
          /\ \A b \in Agent : b # a => (b \in tracked' <=> b \in tracked)
      BY <1>5 DEF TrackedAfter, Terminal
    <3>4. kind \in Terminal \/ kind = "subagent_created" \/ kind = "subagent_started"
      BY DEF BusKind
    <3>5. ASSUME NEW b \in Agent PROVE TerminalsOf(b)'
      <4>1. CASE b = a
        BY <1>1, <1>2, <2>1, <3>1, <3>2, <3>3, <3>4, <4>1 DEF TerminalsInv, TerminalsOf
      <4>2. CASE b # a
        <5>1. terminals'[b] = terminals[b] /\ agents'[b] = agents[b]
              /\ (b \in tracked' <=> b \in tracked) /\ (b \in announced' <=> b \in announced)
          BY <1>2, <3>1, <3>2, <3>3, <4>2
        <5> QED
          BY <1>1, <2>1, <5>1 DEF TerminalsInv, TerminalsOf
      <4> QED
        BY <4>1, <4>2
    <3> QED
      BY <1>2, <3>2, <3>5 DEF TerminalsInv
  <2>4. CASE ~Accepts(AgentEvent(kind, a))
    <3>1. UNCHANGED <<announced, terminals>>
      BY <1>5, <2>4 DEF Noted
    <3>2. closing # "no" \/ providers = {} \/ kind \notin Terminal
      BY <2>2, <2>4 DEF Accepts
    <3>3. \A b \in Agent : b # a => (b \in tracked' <=> b \in tracked)
      BY <1>5 DEF TrackedAfter
    <3>4. kind \notin Terminal => tracked \subseteq tracked'
      BY <1>5 DEF TrackedAfter
    <3>5. ASSUME NEW b \in Agent PROVE TerminalsOf(b)'
      <4>1. CASE b = a
        BY <1>1, <1>2, <1>3, <2>1, <3>1, <3>2, <3>4, <4>1 DEF TerminalsInv, TerminalsOf
      <4>2. CASE b # a
        <5>1. agents'[b] = agents[b] /\ (b \in tracked' <=> b \in tracked)
          BY <1>2, <3>3, <4>2
        <5> QED
          BY <1>1, <2>1, <3>1, <5>1 DEF TerminalsInv, TerminalsOf
      <4> QED
        BY <4>1, <4>2
    <3> QED
      BY <1>2, <3>1, <3>5 DEF TerminalsInv
  <2> QED
    BY <2>3, <2>4
<1> QED
  BY <1>4, <1>5 DEF handleSubAgentBusEvent

LEMMA TerminalsStep ==
  ASSUME Terminal \cap Disabled = {}, TerminalsInv, TelemetryInv, [Next]_vars
  PROVE  TerminalsInv'
<1>0. Sessions /\ DispatcherTypeOK
  BY DEF TelemetryInv, DispatcherInv
<1>1. CASE PiSteps
  <2>1. PICK event \in Event : PiSays(event)
    BY <1>0, <1>1, PiStep
  <2>2. UNCHANGED <<providers, closing, agents, announced, terminals, tracked, phase>>
    BY <2>1, DispatchKeeps DEF PiSays
  <2> QED
    BY <1>0, <2>2, TerminalSteps
<1>2. CASE initInstrumentation
  <2>1. /\ agents' = [a \in Agent |-> "none"] /\ terminals' = [a \in Agent |-> 0]
        /\ announced' = {}
    BY <1>2 DEF initInstrumentation
  <2> QED
    BY <2>1 DEF TerminalsInv, TerminalsOf
<1>3. CASE sessionStart \/ LateProvider
  <2>1. UNCHANGED <<closing, agents, announced, terminals, tracked, phase>>
        /\ (providers # {} => providers' # {})
    BY <1>3, DispatchKeeps DEF sessionStart, LateProvider, registerProvider, telemetryVars
  <2> QED
    BY <1>0, <2>1, TerminalSteps
<1>4. CASE Bus
  BY <1>0, <1>4, BusTerminals DEF Bus
<1>5. CASE sessionShutdown
  <2>1. /\ UNCHANGED <<closing, providers, agents, announced, terminals, tracked>>
        /\ phase = "up" /\ phase' = "orphans"
    BY <1>5, DispatchKeeps DEF sessionShutdown
  <2> QED
    BY <1>0, <2>1, TerminalSteps
<1>6. CASE flushOrphanSubAgents
  <2>1. PICK a \in tracked : /\ tracked' = tracked \ {a}
                             /\ dispatch(AgentEvent("subagent_failed", a))
                             /\ Noted(a, "subagent_failed")
    BY <1>6 DEF flushOrphanSubAgents
  <2>2. /\ phase = "orphans" /\ closing = "no" /\ a \in Agent
        /\ UNCHANGED <<phase, agents, providers, closing>>
    BY <1>0, <1>6, <2>1, DispatchKeeps DEF flushOrphanSubAgents, Sessions
  <2>3. "subagent_failed" \in Terminal /\ "subagent_failed" # "subagent_created"
    BY DEF Terminal
  <2>4. Accepts(AgentEvent("subagent_failed", a)) <=> providers # {}
    BY <2>2, <2>3 DEF Accepts, AgentEvent
  <2>5. terminals[a] = 0
    BY <2>2 DEF TerminalsInv, TerminalsOf
  <2>6. /\ announced' = announced /\ terminals' \in [Agent -> Nat]
        /\ terminals'[a] = IF providers # {} THEN 1 ELSE 0
        /\ \A b \in Agent : b # a => terminals'[b] = terminals[b]
    BY <2>1, <2>2, <2>3, <2>4, <2>5 DEF Noted, TerminalsInv
  <2>7. ASSUME NEW b \in Agent PROVE TerminalsOf(b)'
    <3>1. CASE b = a
      BY <2>1, <2>2, <2>5, <2>6, <3>1 DEF TerminalsInv, TerminalsOf
    <3>2. CASE b # a
      BY <2>1, <2>2, <2>6, <3>2 DEF TerminalsInv, TerminalsOf
    <3> QED
      BY <3>1, <3>2
  <2> QED
    BY <2>2, <2>6, <2>7 DEF TerminalsInv
<1>7. CASE shutdownTelemetryDispatcher
  <2>1. /\ phase = "orphans" /\ tracked = {} /\ closing' = "inFlight" /\ phase' = "up"
        /\ UNCHANGED <<providers, agents, announced, terminals, tracked>>
    BY <1>7 DEF shutdownTelemetryDispatcher, OrphansFlushed, ShutdownBegins
  <2> QED
    BY <2>1 DEF TerminalsInv, TerminalsOf
<1>8. CASE teardownTelemetry
  <2>1. closing' = "no" /\ phase' = "down" /\ UNCHANGED <<agents, announced, terminals>>
    BY <1>8 DEF teardownTelemetry, reset
  <2> QED
    BY <2>1 DEF TerminalsInv, TerminalsOf
<1>9. CASE OnChain \/ Immediate \/ UNCHANGED vars
  <2>1. UNCHANGED telemetryVars /\ (closing = "no" => closing' = "no")
    BY <1>0, <1>9, ChainStep
  <2>2. UNCHANGED providers /\ (closing # "no" => closing' # "no")
    BY <1>9 DEF OnChain, Hand, Settle, CloseProviders, broadcastEvent, ProviderSettles,
                BatchBegins, BatchEnds, TailBegins, TailEnds, ProvidersClosed, Immediate,
                ImmediateRuns, vars, dispatcherVars
  <2> QED
    BY <1>0, <2>1, <2>2, TerminalSteps DEF telemetryVars
<1> QED
  BY <1>1, <1>2, <1>3, <1>4, <1>5, <1>6, <1>7, <1>8, <1>9 DEF Next, Pi, PiSteps, Finalize

(* Every background agent that was announced has its one terminal event,   *)
(* from the bus or from the loop over the orphans, whatever the bus says   *)
(* and in whatever order, if the configuration leaves terminal events on.  *)
THEOREM TerminalEventsAreOne ==
  ASSUME Terminal \cap Disabled = {}
  PROVE  Spec => []OneTerminalEvent
<1>1. Init => TerminalsInv
  BY DEF Init, DispatcherInit, TerminalsInv, TerminalsOf
<1>2. TelemetryInv /\ TerminalsInv /\ [Next]_vars => (TelemetryInv /\ TerminalsInv)'
  BY TelemetryStep, TerminalsStep
<1>3. TerminalsInv => OneTerminalEvent
  BY DEF TerminalsInv, TerminalsOf, OneTerminalEvent
<1> QED
  BY <1>1, <1>2, <1>3, TelemetryInitially, PTL DEF Spec

-----------------------------------------------------------------------------
(* The spans *)

(* What may have a span: the turn, a call, a request.                      *)
Turn      == <<"turn", 0>>
ToolOf(c) == <<"tool", c>>
LlmOf(s)  == <<"llm", s>>

(* The registry knows m as the span of l.                                  *)
Known(l, m) ==
  \/ l = Turn /\ m = turnSpan /\ m # None
  \/ \E c \in DOMAIN toolSpans : l = ToolOf(c) /\ m = toolSpans[c]
  \/ \E s \in DOMAIN llmSpans : l = LlmOf(s) /\ m = llmSpans[s]

(* What an event starts, and what it ends.                                 *)
Begun(e) ==
  IF e.kind = "agent_start" THEN {Turn}
  ELSE IF e.kind = "tool_execution_start" THEN {ToolOf(e.call)}
  ELSE IF e.kind = "llm_request_start" THEN {LlmOf(e.seq)}
  ELSE {}

Ends(e, l) ==
  \/ e.kind = "session_shutdown"
  \/ e.kind = "agent_end" /\ l = Turn
  \/ e.kind = "tool_execution_end" /\ l = ToolOf(e.call)
  \/ e.kind = "llm_request_end" /\ l = LlmOf(e.seq)

After(b, e) == {l \in b : ~Ends(e, l)} \cup Begun(e)

(* No two share a span, which is open and no younger than what MLflow was  *)
(* given last.                                                             *)
KnownAreOpen ==
  /\ open \subseteq Nat
  /\ \A l, m : Known(l, m) => m \in open /\ m <= last["mlflow"]
  /\ \A k, l, m : Known(k, m) /\ Known(l, m) => k = l
  /\ latestLlmSpan # None => \E s : Known(LlmOf(s), latestLlmSpan)

(* p follows what the events of s start and end, none of them twice.       *)
Runs(p, s) ==
  /\ DOMAIN p = 0..Len(s)
  /\ \A k \in 1..Len(s) : /\ Begun(s[k].event) \cap p[k - 1] = {}
                          /\ p[k] = After(p[k - 1], s[k].event)

(* Nothing but what Pi has running, and nothing behind a shutdown.         *)
Within(b) ==
  /\ Turn \in b => pi.turn
  /\ \A c : ToolOf(c) \in b => c \in pi.calls
  /\ \A s : LlmOf(s) \in b => s \in 1..seq
  /\ phase # "up" \/ closing # "no" => b = {}

(* The events outstanding lead from what the registry knows to what Pi has *)
(* running.                                                                *)
Lead(p) ==
  /\ Runs(p, Outstanding)
  /\ \A l, m : Known(l, m) => l \in p[0]
  /\ Within(p[Len(Outstanding)])

OpenAreKnown ==
  /\ \A m \in open : \E l : Known(l, m)
  /\ \E p : Lead(p)
  /\ providers = {} => Outstanding = <<>> /\ \A l, m : ~Known(l, m)
  /\ phase = "down" => providers = {}
  /\ \A l, m : Known(l, m) =>
       "mlflow" \in providers /\ (job # None => "mlflow" \in job.to)
  /\ job # None /\ "mlflow" \in job.to => "mlflow" \in providers

SpanInv == KnownAreOpen /\ (~shed => OpenAreKnown)

LEMMA Tracked ==
  ASSUME NEW n \in Nat, NEW e, trackEvent(n, e)
  PROVE  /\ e.kind = "agent_start" => onAgentStart(n)
         /\ e.kind = "agent_end" => onAgentEnd
         /\ e.kind = "tool_execution_start" => onToolExecutionStart(n, e.call)
         /\ e.kind = "tool_execution_end" => onToolExecutionEnd(e.call)
         /\ e.kind = "llm_request_start" => onLlmRequestStart(n, e.seq)
         /\ e.kind = "llm_request_end" => onLlmRequestEnd(e.seq)
         /\ e.kind = "session_shutdown" => endAllForSession
         /\ e.kind \notin {"agent_start", "agent_end", "tool_execution_start",
                          "tool_execution_end", "llm_request_start", "llm_request_end",
                          "session_shutdown"} => UNCHANGED registryVars
BY DEF trackEvent, BusKind, Terminal, onSubAgentEvent, onAttributeEvent

LEMMA Followed ==
  ASSUME NEW n \in Nat, NEW e, trackEvent(n, e), open \subseteq Nat, turnSpan \in Nat \cup {None}
  PROVE  /\ \A l, m : Known(l, m)' <=>
                        \/ Known(l, m) /\ ~Ends(e, l) /\ l \notin Begun(e)
                        \/ l \in Begun(e) /\ m = n
         /\ \A m \in Nat : m \in open' <=>
                        \/ m \in open /\ ~\E l : Known(l, m) /\ Ends(e, l)
                        \/ Begun(e) # {} /\ m = n
         /\ open' \subseteq Nat
<1>0. None \notin Nat
  BY TelemetryAssumption
<1>1. CASE e.kind = "agent_start"
  <2>1. /\ turnSpan' = n /\ open' = open \cup {n}
        /\ UNCHANGED <<toolSpans, llmSpans, latestLlmSpan>>
    BY <1>1, Tracked DEF onAgentStart
  <2>2. Begun(e) = {Turn} /\ \A l : ~Ends(e, l)
    BY <1>1 DEF Begun, Ends
  <2> QED
    BY <1>0, <2>1, <2>2 DEF Known, Turn, ToolOf, LlmOf
<1>2. CASE e.kind = "agent_end"
  <2>1. /\ open' = open \ {turnSpan} /\ turnSpan' = None
        /\ UNCHANGED <<toolSpans, llmSpans, latestLlmSpan>>
    BY <1>2, Tracked DEF onAgentEnd
  <2>2. Begun(e) = {} /\ \A l : Ends(e, l) <=> l = Turn
    BY <1>2 DEF Begun, Ends
  <2> QED
    BY <1>0, <2>1, <2>2 DEF Known, Turn, ToolOf, LlmOf
<1>3. CASE e.kind = "tool_execution_start"
  <2>1. /\ toolSpans' = Put(toolSpans, e.call, n) /\ open' = open \cup {n}
        /\ UNCHANGED <<turnSpan, llmSpans, latestLlmSpan>>
    BY <1>3, Tracked DEF onToolExecutionStart
  <2>2. Begun(e) = {ToolOf(e.call)} /\ \A l : ~Ends(e, l)
    BY <1>3 DEF Begun, Ends
  <2>3. /\ DOMAIN toolSpans' = DOMAIN toolSpans \cup {e.call} /\ toolSpans'[e.call] = n
        /\ \A c \in DOMAIN toolSpans : c # e.call => toolSpans'[c] = toolSpans[c]
    BY <2>1 DEF Put
  <2> QED
    BY <1>0, <2>1, <2>2, <2>3 DEF Known, Turn, ToolOf, LlmOf
<1>4. CASE e.kind = "tool_execution_end"
  <2>1. /\ toolSpans' = Drop(toolSpans, e.call)
        /\ open' = IF e.call \in DOMAIN toolSpans THEN open \ {toolSpans[e.call]} ELSE open
        /\ UNCHANGED <<turnSpan, llmSpans, latestLlmSpan>>
    BY <1>4, Tracked DEF onToolExecutionEnd
  <2>2. Begun(e) = {} /\ \A l : Ends(e, l) <=> l = ToolOf(e.call)
    BY <1>4 DEF Begun, Ends
  <2>3. /\ DOMAIN toolSpans' = DOMAIN toolSpans \ {e.call}
        /\ \A c \in DOMAIN toolSpans : c # e.call => toolSpans'[c] = toolSpans[c]
    BY <2>1 DEF Drop, Restrict
  <2>4. \A m : Known(ToolOf(e.call), m) <=> e.call \in DOMAIN toolSpans /\ m = toolSpans[e.call]
    BY DEF Known, Turn, ToolOf, LlmOf
  <2>5. \A l, m : Known(l, m)' <=> Known(l, m) /\ l # ToolOf(e.call)
    BY <2>1, <2>3 DEF Known, Turn, ToolOf, LlmOf
  <2> QED
    BY <2>1, <2>2, <2>4, <2>5
<1>5. CASE e.kind = "llm_request_start"
  <2>1. /\ llmSpans' = Put(llmSpans, e.seq, n) /\ open' = open \cup {n}
        /\ UNCHANGED <<turnSpan, toolSpans>>
    BY <1>5, Tracked DEF onLlmRequestStart
  <2>2. Begun(e) = {LlmOf(e.seq)} /\ \A l : ~Ends(e, l)
    BY <1>5 DEF Begun, Ends
  <2>3. /\ DOMAIN llmSpans' = DOMAIN llmSpans \cup {e.seq} /\ llmSpans'[e.seq] = n
        /\ \A s \in DOMAIN llmSpans : s # e.seq => llmSpans'[s] = llmSpans[s]
    BY <2>1 DEF Put
  <2> QED
    BY <1>0, <2>1, <2>2, <2>3 DEF Known, Turn, ToolOf, LlmOf
<1>6. CASE e.kind = "llm_request_end"
  <2>1. /\ llmSpans' = Drop(llmSpans, e.seq)
        /\ open' = IF e.seq \in DOMAIN llmSpans THEN open \ {llmSpans[e.seq]} ELSE open
        /\ UNCHANGED <<turnSpan, toolSpans>>
    BY <1>6, Tracked DEF onLlmRequestEnd
  <2>2. Begun(e) = {} /\ \A l : Ends(e, l) <=> l = LlmOf(e.seq)
    BY <1>6 DEF Begun, Ends
  <2>3. /\ DOMAIN llmSpans' = DOMAIN llmSpans \ {e.seq}
        /\ \A s \in DOMAIN llmSpans : s # e.seq => llmSpans'[s] = llmSpans[s]
    BY <2>1 DEF Drop, Restrict
  <2>4. \A m : Known(LlmOf(e.seq), m) <=> e.seq \in DOMAIN llmSpans /\ m = llmSpans[e.seq]
    BY DEF Known, Turn, ToolOf, LlmOf
  <2>5. \A l, m : Known(l, m)' <=> Known(l, m) /\ l # LlmOf(e.seq)
    BY <2>1, <2>3 DEF Known, Turn, ToolOf, LlmOf
  <2> QED
    BY <2>1, <2>2, <2>4, <2>5
<1>7. CASE e.kind = "session_shutdown"
  <2>1. /\ open' = open \ ({turnSpan} \cup Range(toolSpans) \cup Range(llmSpans))
        /\ turnSpan' = None /\ toolSpans' = <<>> /\ llmSpans' = <<>>
    BY <1>7, Tracked DEF endAllForSession
  <2>2. Begun(e) = {} /\ \A l : Ends(e, l)
    BY <1>7 DEF Begun, Ends
  <2>3. \A l, m : ~Known(l, m)'
    BY <2>1 DEF Known
  <2>4. \A m \in Nat : (\E l : Known(l, m)) <=> m \in {turnSpan} \cup Range(toolSpans) \cup Range(llmSpans)
    BY <1>0 DEF Known, Range
  <2> QED
    BY <2>1, <2>2, <2>3, <2>4
<1>8. CASE e.kind \notin {"agent_start", "agent_end", "tool_execution_start",
                          "tool_execution_end", "llm_request_start", "llm_request_end",
                          "session_shutdown"}
  <2>1. UNCHANGED registryVars
    BY <1>8, Tracked
  <2>2. Begun(e) = {} /\ \A l : ~Ends(e, l)
    BY <1>8 DEF Begun, Ends
  <2> QED
    BY <2>1, <2>2 DEF registryVars, Known
<1> QED
  BY <1>1, <1>2, <1>3, <1>4, <1>5, <1>6, <1>7, <1>8

LEMMA LatestFollowed ==
  ASSUME NEW n \in Nat, NEW e, trackEvent(n, e),
         latestLlmSpan # None => \E s : Known(LlmOf(s), latestLlmSpan)
  PROVE  latestLlmSpan' # None => \E s : Known(LlmOf(s), latestLlmSpan)'
<1>1. \A s, m : Known(LlmOf(s), m) <=> s \in DOMAIN llmSpans /\ m = llmSpans[s]
  BY DEF Known, Turn, ToolOf, LlmOf
<1>2. \A s, m : Known(LlmOf(s), m)' <=> s \in DOMAIN llmSpans' /\ m = llmSpans'[s]
  BY DEF Known, Turn, ToolOf, LlmOf
<1>3. CASE e.kind = "llm_request_start"
  <2>1. llmSpans' = Put(llmSpans, e.seq, n) /\ latestLlmSpan' = n
    BY <1>3, Tracked DEF onLlmRequestStart
  <2>2. e.seq \in DOMAIN llmSpans' /\ llmSpans'[e.seq] = n
    BY <2>1 DEF Put
  <2> QED
    BY <1>2, <2>1, <2>2
<1>4. CASE e.kind = "llm_request_end"
  <2>1. /\ llmSpans' = Drop(llmSpans, e.seq)
        /\ IF e.seq \in DOMAIN llmSpans
           THEN latestLlmSpan' = IF latestLlmSpan = llmSpans[e.seq] THEN None ELSE latestLlmSpan
           ELSE latestLlmSpan' = latestLlmSpan
    BY <1>4, Tracked DEF onLlmRequestEnd
  <2>2. /\ DOMAIN llmSpans' = DOMAIN llmSpans \ {e.seq}
        /\ \A s \in DOMAIN llmSpans : s # e.seq => llmSpans'[s] = llmSpans[s]
    BY <2>1 DEF Drop, Restrict
  <2> QED
    BY <1>1, <1>2, <2>1, <2>2
<1>5. CASE e.kind = "session_shutdown"
  BY <1>5, Tracked DEF endAllForSession
<1>6. CASE e.kind \notin {"llm_request_start", "llm_request_end", "session_shutdown"}
  <2>1. llmSpans' = llmSpans /\ latestLlmSpan' = latestLlmSpan
    BY <1>6, Tracked DEF onAgentStart, onAgentEnd, onToolExecutionStart, onToolExecutionEnd,
                         registryVars
  <2> QED
    BY <1>1, <1>2, <2>1
<1> QED
  BY <1>3, <1>4, <1>5, <1>6

-----------------------------------------------------------------------------
(* What the events outstanding lead to *)

LEMMA RunsNothing == Runs([k \in {0} |-> {}], <<>>)
BY DEF Runs

LEMMA RunsAppend ==
  ASSUME NEW p, NEW s \in Seq(Item), NEW x \in Item, Runs(p, s),
         Begun(x.event) \cap p[Len(s)] = {}
  PROVE  \E q : /\ Runs(q, Append(s, x)) /\ q[0] = p[0]
                /\ q[Len(Append(s, x))] = After(p[Len(s)], x.event)
<1> DEFINE t == Append(s, x)
           q == [k \in 0..(Len(s) + 1) |-> IF k <= Len(s) THEN p[k] ELSE After(p[Len(s)], x.event)]
<1>1. /\ Len(s) \in Nat /\ Len(t) = Len(s) + 1 /\ t[Len(s) + 1] = x
      /\ \A k \in 1..Len(s) : t[k] = s[k]
  OBVIOUS
<1>2. /\ DOMAIN q = 0..Len(t) /\ q[Len(t)] = After(p[Len(s)], x.event)
      /\ \A k \in 0..Len(s) : q[k] = p[k]
  BY <1>1
<1> HIDE DEF q, t
<1>3. ASSUME NEW k \in 1..Len(t)
      PROVE  Begun(t[k].event) \cap q[k - 1] = {} /\ q[k] = After(q[k - 1], t[k].event)
  <2>1. CASE k = Len(t)
    <3>1. k = Len(s) + 1 /\ q[k - 1] = p[Len(s)] /\ t[k] = x
      BY <1>1, <1>2, <2>1
    <3> QED
      BY <1>2, <2>1, <3>1
  <2>2. CASE k # Len(t)
    <3>1. k \in 1..Len(s) /\ q[k - 1] = p[k - 1] /\ q[k] = p[k] /\ t[k] = s[k]
      BY <1>1, <1>2, <2>2
    <3> QED
      BY <3>1 DEF Runs
  <2> QED
    BY <2>1, <2>2
<1>4. Runs(q, t) /\ q[0] = p[0]
  BY <1>1, <1>2, <1>3 DEF Runs
<1> QED
  BY <1>2, <1>4 DEF t

LEMMA RunsOn ==
  ASSUME NEW p, NEW s \in Seq(Item), s # <<>>, Runs(p, s)
  PROVE  \E q : /\ Runs(q, Without(s, 1)) /\ q[0] = p[1]
                /\ q[Len(Without(s, 1))] = p[Len(s)]
<1> DEFINE w == Without(s, 1)
           q == [k \in 0..(Len(s) - 1) |-> p[k + 1]]
<1>1. /\ 1 \in 1..Len(s) /\ Len(s) \in Nat
  OBVIOUS
<1>2. /\ Len(w) = Len(s) - 1
      /\ \A k \in 1..(Len(s) - 1) : w[k] = IF k < 1 THEN s[k] ELSE s[k + 1]
  BY <1>1, WithoutType, Zenon
<1>3. /\ DOMAIN q = 0..Len(w) /\ q[0] = p[1] /\ q[Len(w)] = p[Len(s)]
      /\ \A k \in 0..Len(w) : q[k] = p[k + 1]
  BY <1>1, <1>2
<1> HIDE DEF q, w
<1>4. ASSUME NEW k \in 1..Len(w)
      PROVE  Begun(w[k].event) \cap q[k - 1] = {} /\ q[k] = After(q[k - 1], w[k].event)
  <2>1. w[k] = s[k + 1] /\ k + 1 \in 1..Len(s) /\ q[k - 1] = p[k] /\ q[k] = p[k + 1]
    BY <1>1, <1>2, <1>3
  <2>2. /\ Begun(s[k + 1].event) \cap p[(k + 1) - 1] = {}
        /\ p[k + 1] = After(p[(k + 1) - 1], s[k + 1].event)
    BY <2>1 DEF Runs
  <2>3. (k + 1) - 1 = k
    OBVIOUS
  <2> QED
    BY <2>1, <2>2, <2>3
<1>5. Runs(q, w)
  BY <1>3, <1>4 DEF Runs
<1> QED
  BY <1>3, <1>5 DEF w

-----------------------------------------------------------------------------
(* A step of the chain that hands an event over *)

LEMMA HandedNumber ==
  ASSUME DispatcherInv, broadcastEvent
  PROVE  /\ Outstanding \in Seq(Item) /\ Outstanding # <<>> /\ Len(Outstanding) \in Nat \ {0}
         /\ Outstanding[1] = Head(job.rest) /\ Outstanding[1].n \in Nat
         /\ last["mlflow"] \in Nat /\ last["mlflow"] < Outstanding[1].n
         /\ last'["mlflow"] = IF "mlflow" \in job.to THEN Outstanding[1].n ELSE last["mlflow"]
         /\ Outstanding' = Without(Outstanding, 1)
<1>1. /\ 1 \in 1..Len(Outstanding) /\ Outstanding[1] = Head(job.rest)
      /\ Outstanding' = Without(Outstanding, 1) /\ Head(job.rest).n \in Nat
      /\ Outstanding \in Seq(Item)
  BY HandedOver, PartTypes DEF DispatcherInv
<1>2. "mlflow" \in Provider
  BY TelemetryAssumption
<1>3. last["mlflow"] \in Nat
  BY <1>2 DEF DispatcherInv, DispatcherTypeOK
<1>4. last["mlflow"] < Outstanding[1].n
  BY <1>1, <1>2 DEF DispatcherInv, InOrder, Between
<1>5. last'["mlflow"] = IF "mlflow" \in job.to THEN Outstanding[1].n ELSE last["mlflow"]
  BY <1>1, <1>2 DEF broadcastEvent
<1> QED
  BY <1>1, <1>3, <1>4, <1>5

(* The event in hand and its number. *)
Given == Outstanding[1].event
Stamp == Outstanding[1].n

LEMMA HandFollows ==
  ASSUME DispatcherInv, KnownAreOpen, Hand, "mlflow" \in job.to
  PROVE  /\ trackEvent(Stamp, Given)
         /\ \A l, m : Known(l, m)' <=>
                        \/ Known(l, m) /\ ~Ends(Given, l) /\ l \notin Begun(Given)
                        \/ l \in Begun(Given) /\ m = Stamp
         /\ \A m \in Nat : m \in open' <=>
                        \/ m \in open /\ ~\E l : Known(l, m) /\ Ends(Given, l)
                        \/ Begun(Given) # {} /\ m = Stamp
         /\ open' \subseteq Nat
<1>1. Stamp \in Nat /\ Outstanding[1] = Head(job.rest)
  BY HandedNumber DEF Hand, Stamp
<1>2. trackEvent(Stamp, Given)
  BY <1>1 DEF Hand, Stamp, Given
<1>3. open \subseteq Nat /\ turnSpan \in Nat \cup {None}
  BY DEF KnownAreOpen, Known
<1> QED
  BY <1>1, <1>2, <1>3, Followed

LEMMA BegunIsOne == \A e, k, l : k \in Begun(e) /\ l \in Begun(e) => k = l
BY DEF Begun

LEMMA SameKnown ==
  ASSUME KnownAreOpen, UNCHANGED registryVars, last' = last
  PROVE  KnownAreOpen' /\ \A l, m : Known(l, m)' <=> Known(l, m)
BY DEF KnownAreOpen, Known, registryVars

LEMMA HandKnown ==
  ASSUME DispatcherInv, KnownAreOpen, Hand
  PROVE  KnownAreOpen'
<1>1. CASE "mlflow" \in job.to
  <2>1. /\ Stamp \in Nat /\ last["mlflow"] \in Nat /\ last["mlflow"] < Stamp /\ last'["mlflow"] = Stamp
    BY <1>1, HandedNumber DEF Hand, Stamp
  <2>2. /\ trackEvent(Stamp, Given)
        /\ \A l, m : Known(l, m)' <=>
                        \/ Known(l, m) /\ ~Ends(Given, l) /\ l \notin Begun(Given)
                        \/ l \in Begun(Given) /\ m = Stamp
        /\ \A m \in Nat : m \in open' <=>
                        \/ m \in open /\ ~\E l : Known(l, m) /\ Ends(Given, l)
                        \/ Begun(Given) # {} /\ m = Stamp
        /\ open' \subseteq Nat
    BY <1>1, HandFollows
  <2>3. latestLlmSpan' # None => \E s : Known(LlmOf(s), latestLlmSpan)'
    BY <2>1, <2>2, LatestFollowed DEF KnownAreOpen
  <2>4. ASSUME NEW l, NEW m, Known(l, m)
        PROVE  m \in open /\ m \in Nat /\ m <= last["mlflow"] /\ m # Stamp
    <3>1. m \in open /\ m \in Nat /\ m <= last["mlflow"]
      BY <2>4 DEF KnownAreOpen
    <3> QED
      BY <2>1, <3>1
  <2>5. ASSUME NEW l, NEW m, Known(l, m)'
        PROVE  m \in open' /\ m <= last'["mlflow"]
    <3>1. CASE Known(l, m) /\ ~Ends(Given, l) /\ l \notin Begun(Given)
      <4>1. ~\E k : Known(k, m) /\ Ends(Given, k)
        BY <3>1 DEF KnownAreOpen
      <4> QED
        BY <2>1, <2>2, <2>4, <3>1, <4>1
    <3>2. CASE l \in Begun(Given) /\ m = Stamp
      BY <2>1, <2>2, <3>2
    <3> QED
      BY <2>2, <2>5, <3>1, <3>2
  <2>6. ASSUME NEW k, NEW l, NEW m, Known(k, m)', Known(l, m)'
        PROVE  k = l
    <3>1. CASE Known(k, m)
      <4>1. Known(l, m)
        BY <2>2, <2>4, <2>6, <3>1
      <4> QED
        BY <3>1, <4>1 DEF KnownAreOpen
    <3>2. CASE ~Known(k, m)
      <4>1. k \in Begun(Given) /\ m = Stamp
        BY <2>2, <2>6, <3>2
      <4>2. l \in Begun(Given)
        BY <2>2, <2>4, <2>6, <4>1
      <4> QED
        BY <4>1, <4>2, BegunIsOne
    <3> QED
      BY <3>1, <3>2
  <2> QED
    BY <2>2, <2>3, <2>5, <2>6 DEF KnownAreOpen
<1>2. CASE "mlflow" \notin job.to
  <2>1. UNCHANGED registryVars
    BY <1>2 DEF Hand
  <2>2. last'["mlflow"] = last["mlflow"]
    BY <1>2, HandedNumber DEF Hand, Stamp
  <2> QED
    BY <2>1, <2>2 DEF KnownAreOpen, Known, registryVars
<1> QED
  BY <1>1, <1>2

LEMMA HandOpen ==
  ASSUME TelemetryInv, KnownAreOpen, OpenAreKnown, Hand, UNCHANGED telemetryVars
  PROVE  OpenAreKnown'
<1>1. PICK p : Lead(p)
  BY DEF OpenAreKnown
<1>2. /\ Outstanding \in Seq(Item) /\ Outstanding # <<>> /\ Len(Outstanding) \in Nat \ {0}
      /\ Stamp \in Nat /\ Outstanding' = Without(Outstanding, 1)
  BY HandedNumber DEF Hand, TelemetryInv, Stamp
<1>3. PICK q : /\ Runs(q, Outstanding') /\ q[0] = p[1]
               /\ q[Len(Outstanding')] = p[Len(Outstanding)]
  BY <1>1, <1>2, RunsOn DEF Lead
<1>4. Begun(Given) \cap p[0] = {} /\ p[1] = After(p[0], Given)
  <2>1. 1 \in 1..Len(Outstanding) /\ 1 - 1 = 0
    BY <1>2
  <2> QED
    BY <1>1, <2>1 DEF Lead, Runs, Given
<1>5. UNCHANGED <<providers, closing, phase, pi, seq>>
  BY DEF Hand, broadcastEvent, telemetryVars
<1>6. Within(q[Len(Outstanding)])'
  BY <1>1, <1>3, <1>5 DEF Lead, Within
<1>7. job # None /\ job' # None /\ job'.to = job.to
  <2>1. job \in Job /\ Head(job.rest) \in Item /\ job.rest # <<>> /\ job.rest \in Seq(Item)
    BY JobParts DEF Hand, broadcastEvent, Handing, TelemetryInv, DispatcherInv, DispatcherTypeOK
  <2>2. Tail(job.rest) \in Seq(Item) /\ job.to \in SUBSET Provider
    BY <2>1, JobParts
  <2>3. PICK j \in Job, rest \in Seq(Item), owed \in SUBSET Provider :
          j = job /\ rest = Tail(job.rest) /\ owed = job.to
    BY <2>1, <2>2
  <2>4. job' = [j EXCEPT !.rest = rest, !.owed = owed]
    BY <2>3 DEF Hand, broadcastEvent
  <2> DEFINE next == [j EXCEPT !.rest = rest, !.owed = owed]
  <2>5. next \in Job
    BY JobMovesOn
  <2>6. next.to = j.to
    BY DEF Job
  <2> HIDE DEF next
  <2>7. job' = next
    BY <2>4 DEF next
  <2> QED
    BY <2>3, <2>5, <2>6, <2>7, JobParts
<1>8. providers # {}
  BY <1>2 DEF OpenAreKnown
<1>9. phase # "down"
  BY <1>8 DEF OpenAreKnown
<1>10. CASE "mlflow" \in job.to
  <2>1. /\ \A l, m : Known(l, m)' <=>
                        \/ Known(l, m) /\ ~Ends(Given, l) /\ l \notin Begun(Given)
                        \/ l \in Begun(Given) /\ m = Stamp
        /\ \A m \in Nat : m \in open' <=>
                        \/ m \in open /\ ~\E l : Known(l, m) /\ Ends(Given, l)
                        \/ Begun(Given) # {} /\ m = Stamp
        /\ open' \subseteq Nat
    BY <1>10, HandFollows DEF TelemetryInv
  <2>2. \A l, m : Known(l, m) => l \in p[0] /\ l \notin Begun(Given)
    BY <1>1, <1>4 DEF Lead
  <2>3. \A l, m : Known(l, m)' => l \in q[0]
    BY <1>3, <1>4, <2>1, <2>2 DEF After
  <2>4. \A m \in open' : \E l : Known(l, m)'
    BY <2>1, <2>2 DEF OpenAreKnown
  <2>5. Lead(q)'
    BY <1>3, <1>6, <2>3 DEF Lead
  <2>6. "mlflow" \in providers
    BY <1>7, <1>10 DEF OpenAreKnown
  <2> QED
    BY <1>5, <1>7, <1>8, <1>9, <1>10, <2>4, <2>5, <2>6 DEF OpenAreKnown
<1>11. CASE "mlflow" \notin job.to
  <2>1. UNCHANGED registryVars
    BY <1>11 DEF Hand
  <2>2. \A l, m : ~Known(l, m) /\ ~Known(l, m)'
    BY <1>7, <1>11, <2>1 DEF OpenAreKnown, Known, registryVars
  <2>3. open' = {}
    BY <2>1, <2>2 DEF OpenAreKnown, registryVars
  <2>4. Lead(q)'
    BY <1>3, <1>6, <2>2 DEF Lead
  <2> QED
    BY <1>5, <1>7, <1>8, <1>9, <1>11, <2>2, <2>3, <2>4 DEF OpenAreKnown
<1> QED
  BY <1>10, <1>11

-----------------------------------------------------------------------------
(* The other steps *)

LEMMA NothingLeft ==
  ASSUME Outstanding' = <<>>, \A l, m : ~Known(l, m)', open' = {},
         phase' = "down" => providers' = {},
         job' # None /\ "mlflow" \in job'.to => "mlflow" \in providers'
  PROVE  OpenAreKnown'
<1>1. Runs([k \in {0} |-> {}], Outstanding') /\ [k \in {0} |-> {}][Len(Outstanding')] = {}
  BY RunsNothing
<1>2. Within({})'
  BY DEF Within
<1>3. Lead([k \in {0} |-> {}])'
  BY <1>1, <1>2 DEF Lead
<1> QED
  BY <1>3 DEF OpenAreKnown

LEMMA Untouched ==
  ASSUME OpenAreKnown, Outstanding' = Outstanding, UNCHANGED registryVars,
         \A b : Within(b) => Within(b)',
         providers \subseteq providers',
         phase' = "down" => phase = "down" /\ providers' = providers,
         job' # None => (job # None /\ job'.to = job.to) \/ job'.to = providers
  PROVE  OpenAreKnown'
<1>1. \A l, m : Known(l, m)' <=> Known(l, m)
  BY DEF Known, registryVars
<1>2. PICK p : Lead(p)
  BY DEF OpenAreKnown
<1>3. Lead(p)'
  BY <1>1, <1>2 DEF Lead
<1>4. \A m \in open' : \E l : Known(l, m)'
  BY <1>1 DEF OpenAreKnown, registryVars
<1>5. providers' = {} => Outstanding' = <<>> /\ \A l, m : ~Known(l, m)'
  BY <1>1 DEF OpenAreKnown
<1>6. \A l, m : Known(l, m)' =>
        "mlflow" \in providers' /\ (job' # None => "mlflow" \in job'.to)
  BY <1>1 DEF OpenAreKnown
<1>7. job' # None /\ "mlflow" \in job'.to => "mlflow" \in providers'
  BY DEF OpenAreKnown
<1>8. phase' = "down" => providers' = {}
  BY DEF OpenAreKnown
<1> QED
  BY <1>3, <1>4, <1>5, <1>6, <1>7, <1>8 DEF OpenAreKnown

LEMMA Dispatched ==
  ASSUME TelemetryInv, OpenAreKnown, ~shed', NEW event \in Event, dispatch(event),
         UNCHANGED registryVars, phase' = phase \/ phase' = "orphans",
         \A b : Within(b) /\ Accepts(event) =>
                  Begun(event) \cap b = {} /\ Within(After(b, event))',
         \A b : Within(b) /\ event.kind \in Disabled => Within(b)'
  PROVE  OpenAreKnown'
<1>1. \A l, m : Known(l, m)' <=> Known(l, m)
  BY DEF Known, registryVars
<1>2. UNCHANGED <<providers, job, closing>>
  BY DispatchKeeps
<1>3. PICK p : Lead(p)
  BY DEF OpenAreKnown
<1>6. PICK b : b = p[Len(Outstanding)] /\ Within(b)
  BY <1>3 DEF Lead
<1>4. CASE Accepts(event)
  <2>1. /\ ItemOf(event) \in Item /\ ItemOf(event).event = event
        /\ Len(queue) < Cap => Outstanding' = Append(Outstanding, ItemOf(event))
    BY <1>4, Accepted DEF TelemetryInv, DispatcherInv, ItemOf
  <2>2. Len(queue) < Cap
    <3>1. Len(queue) \in Nat /\ Cap \in Nat
      BY DispatcherAssumption DEF TelemetryInv, DispatcherInv, DispatcherTypeOK
    <3>2. ~(Len(queue) >= Cap)
      BY <1>4 DEF dispatch
    <3> QED
      BY <3>1, <3>2
  <2>3. Outstanding \in Seq(Item)
    BY PartTypes DEF TelemetryInv, DispatcherInv
  <2>4. Begun(event) \cap b = {} /\ Within(After(b, event))'
    BY <1>4, <1>6
  <2>5. PICK q : /\ Runs(q, Append(Outstanding, ItemOf(event))) /\ q[0] = p[0]
                 /\ q[Len(Append(Outstanding, ItemOf(event)))] = After(b, event)
    <3>1. Begun(ItemOf(event).event) \cap p[Len(Outstanding)] = {}
      BY <1>6, <2>1, <2>4
    <3>2. Runs(p, Outstanding)
      BY <1>3 DEF Lead
    <3>3. \E q : /\ Runs(q, Append(Outstanding, ItemOf(event))) /\ q[0] = p[0]
                 /\ q[Len(Append(Outstanding, ItemOf(event)))]
                      = After(p[Len(Outstanding)], ItemOf(event).event)
      BY <2>1, <2>3, <3>1, <3>2, RunsAppend
    <3> QED
      BY <1>6, <2>1, <3>3
  <2>6. Lead(q)'
    <3>1. Runs(q, Outstanding') /\ q[Len(Outstanding')] = After(b, event)
      BY <2>1, <2>2, <2>5
    <3>2. \A l, m : Known(l, m)' => l \in q[0]
      BY <1>1, <1>3, <2>5 DEF Lead
    <3> QED
      BY <2>4, <3>1, <3>2 DEF Lead
  <2>7. providers # {}
    BY <1>4 DEF Accepts
  <2> QED
    BY <1>1, <1>2, <2>6, <2>7 DEF OpenAreKnown, registryVars
<1>5. CASE ~Accepts(event)
  <2>1. UNCHANGED dispatcherVars
    BY <1>5 DEF dispatch
  <2>2. Outstanding' = Outstanding
    BY <2>1 DEF dispatcherVars, Outstanding
  <2>3. CASE providers = {}
    <3>1. Outstanding = <<>> /\ \A l, m : ~Known(l, m)
      BY <2>3 DEF OpenAreKnown
    <3>2. open = {}
      BY <3>1 DEF OpenAreKnown
    <3> QED
      BY <1>1, <1>2, <2>2, <2>3, <3>1, <3>2, NothingLeft DEF registryVars, OpenAreKnown
  <2>4. CASE closing # "no" \/ event.kind \in Disabled
    <3>1. \A d : Within(d) => Within(d)'
      BY <1>2, <2>4 DEF Within
    <3> QED
      BY <1>2, <2>2, <3>1, Untouched
  <2> QED
    BY <1>5, <2>3, <2>4 DEF Accepts
<1> QED
  BY <1>4, <1>5

(* What Pi says keeps to what Pi has running.                              *)
LEMMA TurnOpen ==
  ASSUME TelemetryInv, OpenAreKnown, ~shed', agentStart \/ agentEnd,
         "agent_end" \notin Disabled
  PROVE  OpenAreKnown'
<1>1. /\ phase = "up" /\ session # 0 /\ pi \in PiState /\ Sessions
      /\ UNCHANGED <<phase, seq, registryVars>>
  BY DEF agentStart, agentEnd, Dispatching, Live, TelemetryInv, Sessions
<1>2. CASE agentStart
  <2>1. PICK event \in Event : event = PiEvent("agent_start") /\ dispatch(event)
    BY <1>1, <1>2, EventTypes DEF agentStart, Dispatching
  <2>2. ~pi.turn /\ pi'.turn /\ pi'.calls = pi.calls
    BY <1>1, <1>2 DEF agentStart, PiState
  <2>3. Begun(event) = {Turn} /\ \A b : After(b, event) = b \cup {Turn}
    BY <2>1 DEF PiEvent, Begun, Ends, After
  <2>4. ASSUME NEW b, Within(b), Accepts(event)
        PROVE  Begun(event) \cap b = {} /\ Within(After(b, event))'
    <3>1. closing' = "no"
      BY <2>1, <2>4, DispatchKeeps DEF Accepts
    <3>2. Turn \notin b
      BY <2>2, <2>4 DEF Within
    <3>3. Within(b \cup {Turn})'
      BY <1>1, <2>2, <2>4, <3>1 DEF Within, Turn, ToolOf, LlmOf
    <3> QED
      BY <2>3, <3>2, <3>3
  <2>5. ASSUME NEW b, Within(b) PROVE Within(b)'
    BY <1>1, <2>1, <2>2, <2>5, DispatchKeeps DEF Within
  <2> QED
    BY <1>1, <2>1, <2>4, <2>5, Dispatched
<1>3. CASE agentEnd
  <2>1. PICK event \in Event : event = PiEvent("agent_end") /\ dispatch(event)
    BY <1>1, <1>3, EventTypes DEF agentEnd, Dispatching
  <2>2. pi'.calls = pi.calls
    BY <1>1, <1>3 DEF agentEnd, PiState
  <2>3. /\ Begun(event) = {} /\ \A b : After(b, event) = b \ {Turn}
        /\ event.kind \notin Disabled
    BY <2>1 DEF PiEvent, Begun, Ends, After
  <2>4. ASSUME NEW b, Within(b), Accepts(event)
        PROVE  Begun(event) \cap b = {} /\ Within(After(b, event))'
    <3>1. closing' = "no"
      BY <2>1, <2>4, DispatchKeeps DEF Accepts
    <3>2. Within(b \ {Turn})'
      BY <1>1, <2>2, <2>4, <3>1 DEF Within, Turn, ToolOf, LlmOf
    <3> QED
      BY <2>3, <3>2
  <2> QED
    BY <1>1, <2>1, <2>3, <2>4, Dispatched
<1> QED
  BY <1>2, <1>3

LEMMA CallOpen ==
  ASSUME TelemetryInv, OpenAreKnown, ~shed', "tool_execution_end" \notin Disabled,
         NEW c \in Call, toolExecutionStart(c) \/ toolExecutionEnd(c)
  PROVE  OpenAreKnown'
<1>1. /\ phase = "up" /\ session # 0 /\ pi \in PiState /\ Sessions
      /\ UNCHANGED <<phase, seq, registryVars>>
  BY DEF toolExecutionStart, toolExecutionEnd, Dispatching, Live, TelemetryInv, Sessions
<1>2. CASE toolExecutionStart(c)
  <2>1. PICK event \in Event : event = ToolEvent("tool_execution_start", c) /\ dispatch(event)
    BY <1>1, <1>2, EventTypes DEF toolExecutionStart, Dispatching
  <2>2. c \notin pi.calls /\ pi'.calls = pi.calls \cup {c} /\ pi'.turn = pi.turn
    BY <1>1, <1>2 DEF toolExecutionStart, PiState
  <2>3. Begun(event) = {ToolOf(c)} /\ \A b : After(b, event) = b \cup {ToolOf(c)}
    BY <2>1 DEF ToolEvent, Begun, Ends, After
  <2>4. ASSUME NEW b, Within(b), Accepts(event)
        PROVE  Begun(event) \cap b = {} /\ Within(After(b, event))'
    <3>1. closing' = "no"
      BY <2>1, <2>4, DispatchKeeps DEF Accepts
    <3>2. ToolOf(c) \notin b
      BY <2>2, <2>4 DEF Within
    <3>3. Within(b \cup {ToolOf(c)})'
      BY <1>1, <2>2, <2>4, <3>1 DEF Within, Turn, ToolOf, LlmOf
    <3> QED
      BY <2>3, <3>2, <3>3
  <2>5. ASSUME NEW b, Within(b) PROVE Within(b)'
    BY <1>1, <2>1, <2>2, <2>5, DispatchKeeps DEF Within
  <2> QED
    BY <1>1, <2>1, <2>4, <2>5, Dispatched
<1>3. CASE toolExecutionEnd(c)
  <2>1. PICK event \in Event : event = ToolEvent("tool_execution_end", c) /\ dispatch(event)
    BY <1>1, <1>3, EventTypes DEF toolExecutionEnd, Dispatching
  <2>2. pi'.calls = pi.calls \ {c} /\ pi'.turn = pi.turn
    BY <1>1, <1>3 DEF toolExecutionEnd, PiState
  <2>3. /\ Begun(event) = {} /\ \A b : After(b, event) = b \ {ToolOf(c)}
        /\ event.kind \notin Disabled
    BY <2>1 DEF ToolEvent, Begun, Ends, After
  <2>4. ASSUME NEW b, Within(b), Accepts(event)
        PROVE  Begun(event) \cap b = {} /\ Within(After(b, event))'
    <3>1. closing' = "no"
      BY <2>1, <2>4, DispatchKeeps DEF Accepts
    <3>2. Within(b \ {ToolOf(c)})'
      BY <1>1, <2>2, <2>4, <3>1 DEF Within, Turn, ToolOf, LlmOf
    <3> QED
      BY <2>3, <3>2
  <2> QED
    BY <1>1, <2>1, <2>3, <2>4, Dispatched
<1> QED
  BY <1>2, <1>3

LEMMA RequestOpen ==
  ASSUME TelemetryInv, OpenAreKnown, ~shed', beforeProviderRequest \/ afterProviderResponse
  PROVE  OpenAreKnown'
<1>1. /\ phase = "up" /\ session # 0 /\ pi \in PiState /\ Sessions /\ pi.asked <= seq
      /\ seq \in 0..MaxSeq /\ MaxSeq \in Nat /\ UNCHANGED <<phase, registryVars>>
  BY TelemetryAssumption DEF beforeProviderRequest, afterProviderResponse, Dispatching, Live,
                             TelemetryInv, Sessions
<1>2. CASE beforeProviderRequest
  <2>1. seq' = seq + 1 /\ seq' \in 1..MaxSeq /\ seq \in Nat
    BY <1>1, <1>2 DEF beforeProviderRequest
  <2>2. PICK s \in 1..MaxSeq : s = seq'
    BY <2>1
  <2>3. PICK event \in Event : event = LlmEvent("llm_request_start", s) /\ dispatch(event)
    BY <1>1, <1>2, <2>1, <2>2, EventTypes DEF beforeProviderRequest, Dispatching
  <2>4. pi'.calls = pi.calls /\ pi'.turn = pi.turn
    BY <1>1, <1>2 DEF beforeProviderRequest, PiState
  <2>5. Begun(event) = {LlmOf(s)} /\ \A b : After(b, event) = b \cup {LlmOf(s)}
    BY <2>3 DEF LlmEvent, Begun, Ends, After
  <2>6. ASSUME NEW b, Within(b), Accepts(event)
        PROVE  Begun(event) \cap b = {} /\ Within(After(b, event))'
    <3>1. closing' = "no"
      BY <2>3, <2>6, DispatchKeeps DEF Accepts
    <3>2. LlmOf(s) \notin b
      <4>1. s \notin 1..seq
        BY <2>1, <2>2
      <4> QED
        BY <2>6, <4>1 DEF Within
    <3>3. \A r \in 1..seq : r \in 1..seq'
      BY <2>1
    <3>4. s \in 1..seq'
      BY <2>1, <2>2
    <3>5. Within(b \cup {LlmOf(s)})'
      BY <1>1, <2>4, <2>6, <3>1, <3>3, <3>4 DEF Within, Turn, ToolOf, LlmOf
    <3> QED
      BY <2>5, <3>2, <3>5
  <2>7. ASSUME NEW b, Within(b) PROVE Within(b)'
    <3>1. \A r \in 1..seq : r \in 1..seq'
      BY <2>1
    <3> QED
      BY <1>1, <2>3, <2>4, <2>7, <3>1, DispatchKeeps DEF Within
  <2> QED
    BY <1>1, <2>3, <2>6, <2>7, Dispatched
<1>3. CASE afterProviderResponse
  <2>1. seq' = seq /\ seq \in 1..MaxSeq
    BY <1>1, <1>3 DEF afterProviderResponse, PiState
  <2>2. PICK event \in Event : event = LlmEvent("llm_request_end", seq) /\ dispatch(event)
    BY <1>1, <1>3, <2>1, EventTypes DEF afterProviderResponse, Dispatching
  <2>3. pi'.calls = pi.calls /\ pi'.turn = pi.turn
    BY <1>1, <1>3 DEF afterProviderResponse, PiState
  <2>4. Begun(event) = {} /\ \A b : After(b, event) \subseteq b
    BY <2>2 DEF LlmEvent, Begun, After
  <2>5. ASSUME NEW b, Within(b) PROVE Within(b)'
    BY <1>1, <2>1, <2>2, <2>3, <2>5, DispatchKeeps DEF Within
  <2>6. ASSUME NEW b, Within(b), Accepts(event)
        PROVE  Begun(event) \cap b = {} /\ Within(After(b, event))'
    <3>1. PICK d : d = After(b, event) /\ d \subseteq b
      BY <2>4
    <3>2. Within(d)'
      BY <2>5, <2>6, <3>1 DEF Within
    <3> QED
      BY <2>4, <3>1, <3>2
  <2> QED
    BY <1>1, <2>2, <2>5, <2>6, Dispatched
<1> QED
  BY <1>2, <1>3

LEMMA OtherSaysOpen ==
  ASSUME TelemetryInv, OpenAreKnown, ~shed', attributeOnly \/ messageEnd \/ sessionStart
  PROVE  OpenAreKnown'
<1>1. /\ phase = "up" /\ Sessions /\ UNCHANGED <<phase, pi, seq, registryVars>>
  BY DEF attributeOnly, messageEnd, sessionStart, Dispatching, Live, TelemetryInv
<1>2. PICK event \in Event : /\ dispatch(event)
                             /\ event.kind \in {"turn_end", "message_end", "session_start"}
  <2>1. CASE attributeOnly \/ messageEnd
    <3>1. \E kind \in {"turn_end", "message_end"} : dispatch(PiEvent(kind)) /\ session # 0
      BY <2>1 DEF attributeOnly, messageEnd, Dispatching
    <3> QED
      BY <1>1, <3>1, EventTypes DEF PiEvent
  <2>2. CASE sessionStart
    <3>1. sessions \in 1..MaxSessions
      BY <1>1, TelemetryAssumption DEF Sessions
    <3>2. [kind |-> "session_start", session |-> sessions] \in Event
      BY <3>1, TelemetryAssumption
    <3> QED
      BY <2>2, <3>2 DEF sessionStart
  <2> QED
    BY <2>1, <2>2
<1>3. Begun(event) = {} /\ \A b : After(b, event) \subseteq b
  BY <1>2 DEF Begun, After
<1>4. ASSUME NEW b, NEW d, Within(b), d \subseteq b PROVE Within(d)'
  BY <1>1, <1>2, <1>4, DispatchKeeps DEF Within
<1>5. ASSUME NEW b, Within(b) PROVE Begun(event) \cap b = {} /\ Within(After(b, event))'
  BY <1>3, <1>4, <1>5
<1> QED
  BY <1>1, <1>2, <1>4, <1>5, Dispatched

LEMMA BusOpen ==
  ASSUME TelemetryInv, OpenAreKnown, ~shed', Bus \/ flushOrphanSubAgents
  PROVE  OpenAreKnown'
<1>1. /\ Sessions /\ UNCHANGED <<phase, pi, seq, registryVars>>
  BY DEF Bus, handleSubAgentBusEvent, flushOrphanSubAgents, TelemetryInv
<1>2. CASE UNCHANGED dispatcherVars
  <2>1. \A b : Within(b) => Within(b)'
    BY <1>1, <1>2 DEF Within, dispatcherVars
  <2>2. Outstanding' = Outstanding
    BY <1>2 DEF dispatcherVars, Outstanding
  <2> QED
    BY <1>1, <1>2, <2>1, <2>2, Untouched DEF dispatcherVars
<1>3. CASE \E a \in Agent, kind \in BusKind : session # 0 /\ dispatch(AgentEvent(kind, a))
  <2>1. PICK event \in Event : dispatch(event) /\ event.kind \in BusKind
    BY <1>1, <1>3, EventTypes DEF AgentEvent
  <2>2. Begun(event) = {} /\ \A b : After(b, event) \subseteq b
    BY <2>1 DEF Begun, After, BusKind, Terminal
  <2>3. ASSUME NEW b, NEW d, Within(b), d \subseteq b PROVE Within(d)'
    BY <1>1, <2>1, <2>3, DispatchKeeps DEF Within
  <2>4. ASSUME NEW b, Within(b) PROVE Begun(event) \cap b = {} /\ Within(After(b, event))'
    BY <2>2, <2>3, <2>4
  <2> QED
    BY <1>1, <2>1, <2>3, <2>4, Dispatched
<1>4. CASE Bus
  <2>1. PICK a \in Agent, kind \in BusKind, valid \in BOOLEAN : handleSubAgentBusEvent(a, kind, valid)
    BY <1>4 DEF Bus
  <2>2. UNCHANGED dispatcherVars \/ (session # 0 /\ dispatch(AgentEvent(kind, a)))
    BY <2>1 DEF handleSubAgentBusEvent
  <2> QED
    BY <1>2, <1>3, <2>2
<1>5. CASE flushOrphanSubAgents
  <2>1. PICK a \in tracked : dispatch(AgentEvent("subagent_failed", a))
    BY <1>5 DEF flushOrphanSubAgents
  <2>2. a \in Agent /\ session # 0 /\ "subagent_failed" \in BusKind
    BY <1>1, <1>5 DEF flushOrphanSubAgents, Sessions, BusKind, Terminal
  <2> QED
    BY <1>3, <2>1, <2>2
<1> QED
  BY <1>4, <1>5

LEMMA ShutdownOpen ==
  ASSUME TelemetryInv, OpenAreKnown, ~shed', sessionShutdown,
         "session_shutdown" \notin Disabled
  PROVE  OpenAreKnown'
<1>1. Sessions /\ session # 0 /\ phase' = "orphans" /\ UNCHANGED registryVars
  BY DEF sessionShutdown, TelemetryInv
<1>2. PICK event \in Event : event = PiEvent("session_shutdown") /\ dispatch(event)
  BY <1>1, EventTypes DEF sessionShutdown
<1>3. /\ Begun(event) = {} /\ event.kind \notin Disabled
      /\ \A b : After(b, event) = {}
  BY <1>2 DEF PiEvent, Begun, Ends, After
<1>4. Within({})'
  BY DEF Within
<1>5. \A b : Begun(event) \cap b = {} /\ Within(After(b, event))'
  BY <1>3, <1>4
<1> QED
  BY <1>1, <1>2, <1>3, <1>5, Dispatched

(* The steps that move events, or nothing at all.                          *)
LEMMA MoveOpen ==
  ASSUME TelemetryInv, OpenAreKnown,
         \/ Settle \/ BatchBegins \/ BatchEnds \/ TailBegins \/ TailEnds \/ ImmediateRuns
         \/ (ShutdownBegins /\ phase = "orphans") \/ LateProvider \/ UNCHANGED vars,
         phase' = phase \/ (phase = "orphans" /\ phase' = "up"),
         UNCHANGED <<pi, seq, registryVars>>
  PROVE  OpenAreKnown'
<1>0. Sessions /\ DispatcherTypeOK /\ Places
  BY DEF TelemetryInv, DispatcherInv
<1>1. Outstanding' = Outstanding
  <2>1. CASE LateProvider \/ UNCHANGED vars
    BY <2>1 DEF LateProvider, registerProvider, vars, dispatcherVars, Outstanding
  <2>2. CASE ~(LateProvider \/ UNCHANGED vars)
    <3>1. Moves
      BY <2>2 DEF Moves, Settle
    <3> QED
      BY <1>0, <3>1, Moved
  <2> QED
    BY <2>1, <2>2
<1>2. /\ providers \subseteq providers' /\ (LateProvider \/ providers' = providers)
      /\ closing' = closing \/ (closing # "no" /\ closing' # "no") \/ phase = "orphans"
  BY DEF Settle, ProviderSettles, BatchBegins, BatchEnds, TailBegins, TailEnds, ImmediateRuns,
         InFlightSettled, ShutdownBegins, LateProvider, registerProvider, vars, dispatcherVars
<1>3. \A b : Within(b) => Within(b)'
  <2> SUFFICES ASSUME NEW b, Within(b) PROVE Within(b)'
    OBVIOUS
  <2> QED
    BY <1>2 DEF Within
<1>4. phase' = "down" => phase = "down" /\ providers' = providers
  BY <1>2 DEF LateProvider
<1>5. job' # None => (job # None /\ job'.to = job.to) \/ job'.to = providers
  <2>1. CASE Settle
    <3>1. PICK p \in Provider : ProviderSettles(p)
      BY <2>1 DEF Settle
    <3>2. job \in Job /\ job # None
      BY <1>0, <3>1 DEF ProviderSettles, DispatcherTypeOK
    <3>3. PICK owed : owed = job.owed \ {p}
      OBVIOUS
    <3>4. owed \in SUBSET Provider
      BY <3>2, <3>3, JobParts
    <3>5. job' = [job EXCEPT !.owed = owed]
      BY <3>1, <3>3 DEF ProviderSettles
    <3>6. job'.to = job.to
      BY <3>2, <3>5 DEF Job
    <3> QED
      BY <3>2, <3>6
  <2>2. CASE ~Settle
    BY <2>2 DEF BatchBegins, BatchEnds, TailBegins, TailEnds, ImmediateRuns, ShutdownBegins,
                LateProvider, registerProvider, vars, dispatcherVars
  <2> QED
    BY <2>1, <2>2
<1> QED
  BY <1>1, <1>2, <1>3, <1>4, <1>5, Untouched

(* The steps behind which nothing of a session is left.                    *)
LEMMA OpenAnew ==
  ASSUME TelemetryInv, KnownAreOpen, OpenAreKnown,
         initInstrumentation \/ (CloseProviders /\ UNCHANGED phase) \/ teardownTelemetry
  PROVE  OpenAreKnown'
<1>1. PICK p : Lead(p)
  BY DEF OpenAreKnown
<1>2. ASSUME Outstanding = <<>>, \A l, m : ~Known(l, m) PROVE open = {}
  BY <1>2 DEF OpenAreKnown
<1>3. CASE initInstrumentation
  <2>1. Outstanding = <<>> /\ (\A l, m : ~Known(l, m)) /\ providers = {}
    BY <1>3 DEF initInstrumentation, OpenAreKnown
  <2>2. Outstanding' = Outstanding /\ UNCHANGED <<job, registryVars>> /\ phase' = "up"
    BY <1>3 DEF initInstrumentation, Outstanding
  <2>3. \A l, m : ~Known(l, m)'
    BY <2>1, <2>2 DEF Known, registryVars
  <2>4. open' = {}
    BY <1>2, <2>1, <2>2 DEF registryVars
  <2>5. ~(job' # None /\ "mlflow" \in job'.to)
    BY <2>1, <2>2 DEF OpenAreKnown
  <2> QED
    BY <2>1, <2>2, <2>3, <2>4, <2>5, NothingLeft
<1>4. CASE (CloseProviders /\ UNCHANGED phase) \/ teardownTelemetry
  <2>1. closing \in {"providers", "done"} /\ UNCHANGED <<queue, inFlight, remaining, job>>
    BY <1>4 DEF CloseProviders, ProvidersClosed, teardownTelemetry, reset, TelemetryInv,
                DispatcherInv, Places
  <2>2. job = None /\ inFlight = <<>> /\ remaining = <<>> /\ queue = <<>>
    BY <2>1 DEF TelemetryInv, DispatcherInv, Places
  <2>3. Outstanding = <<>> /\ Outstanding' = Outstanding
    <3>1. <<>> \in Seq(Item)
      OBVIOUS
    <3>2. <<>> \o <<>> = <<>>
      BY <3>1, NothingJoined
    <3>3. Outstanding = <<>>
      BY <2>2, <3>2, FlattenEmpty, Zenon DEF Outstanding
    <3> QED
      BY <2>1, <3>3 DEF Outstanding
  <2>4. \A l, m : ~Known(l, m)
    <3>1. Len(Outstanding) = 0
      BY <2>3
    <3>2. p[0] = {}
      BY <1>1, <2>1, <3>1 DEF Lead, Within
    <3> QED
      BY <1>1, <3>2 DEF Lead
  <2>5. open = {}
    BY <1>2, <2>3, <2>4
  <2>6. CASE CloseProviders /\ UNCHANGED phase
    <3>1. /\ turnSpan' = None /\ toolSpans' = <<>> /\ llmSpans' = <<>>
          /\ UNCHANGED <<open, providers, phase>>
      BY <2>6 DEF CloseProviders, ProvidersClosed
    <3>2. \A l, m : ~Known(l, m)'
      BY <3>1 DEF Known
    <3> QED
      BY <2>1, <2>2, <2>3, <2>5, <3>1, <3>2, NothingLeft DEF OpenAreKnown
  <2>7. CASE teardownTelemetry
    <3>1. UNCHANGED registryVars /\ providers' = {}
      BY <2>7 DEF teardownTelemetry, reset
    <3>2. \A l, m : ~Known(l, m)'
      BY <2>4, <3>1 DEF Known, registryVars
    <3> QED
      BY <2>1, <2>2, <2>3, <2>5, <3>1, <3>2, NothingLeft DEF registryVars
  <2> QED
    BY <1>4, <2>6, <2>7
<1> QED
  BY <1>3, <1>4

LEMMA ShedStays ==
  ASSUME DispatcherNext
  PROVE  shed => shed'
<1>1. CASE \E event \in Event : dispatch(event)
  BY <1>1 DEF dispatch, dispatcherVars
<1>2. CASE broadcastEvent
  BY <1>2 DEF broadcastEvent
<1>3. CASE Moves
  BY <1>3 DEF Moves, ProviderSettles, BatchBegins, BatchEnds, TailBegins, TailEnds,
              ProvidersClosed, ImmediateRuns, ShutdownBegins, reset
<1> QED
  BY <1>1, <1>2, <1>3 DEF DispatcherNext

LEMMA KnownStep ==
  ASSUME TelemetryInv, KnownAreOpen, [Next]_vars
  PROVE  KnownAreOpen'
<1>1. CASE Hand
  BY <1>1, HandKnown DEF TelemetryInv
<1>2. CASE ~Hand
  <2>1. last' = last
    BY <1>2, DispatchKeeps DEF Next, Pi, Bus, Finalize, OnChain, Immediate, initInstrumentation,
       sessionStart, agentStart, agentEnd, attributeOnly, messageEnd, toolExecutionStart,
       toolExecutionEnd, beforeProviderRequest, afterProviderResponse, Dispatching, LateProvider,
       registerProvider, handleSubAgentBusEvent, sessionShutdown, flushOrphanSubAgents,
       shutdownTelemetryDispatcher, teardownTelemetry, Settle, CloseProviders, ProvidersClosed,
       ProviderSettles, BatchBegins, BatchEnds, TailBegins, TailEnds, ImmediateRuns,
       ShutdownBegins, reset, vars, dispatcherVars
  <2>2. CASE CloseProviders
    <3>1. /\ turnSpan' = None /\ toolSpans' = <<>> /\ llmSpans' = <<>> /\ latestLlmSpan' = None
          /\ open' = open
      BY <2>2 DEF CloseProviders
    <3>2. \A l, m : ~Known(l, m)'
      BY <3>1 DEF Known
    <3> QED
      BY <3>1, <3>2 DEF KnownAreOpen
  <2>3. CASE ~CloseProviders
    <3>1. UNCHANGED registryVars
      BY <1>2, <2>3 DEF Next, Pi, Bus, Finalize, OnChain, Immediate, initInstrumentation,
         sessionStart, agentStart, agentEnd, attributeOnly, messageEnd, toolExecutionStart,
         toolExecutionEnd, beforeProviderRequest, afterProviderResponse, Dispatching, LateProvider,
         handleSubAgentBusEvent, sessionShutdown, flushOrphanSubAgents,
         shutdownTelemetryDispatcher, teardownTelemetry, Settle, vars
    <3> QED
      BY <2>1, <3>1, SameKnown
  <2> QED
    BY <2>2, <2>3
<1> QED
  BY <1>1, <1>2

(* The configuration leaves on the events that end a turn, a call or all.  *)
EndsAreTold == {"agent_end", "tool_execution_end", "session_shutdown"} \cap Disabled = {}

LEMMA OpenStep ==
  ASSUME EndsAreTold, TelemetryInv, KnownAreOpen, OpenAreKnown, ~shed', [Next]_vars
  PROVE  OpenAreKnown'
<1>0. /\ "agent_end" \notin Disabled /\ "tool_execution_end" \notin Disabled
      /\ "session_shutdown" \notin Disabled
  BY DEF EndsAreTold
<1>1. CASE PiSteps \/ sessionStart
  BY <1>0, <1>1, TurnOpen, CallOpen, RequestOpen, OtherSaysOpen DEF PiSteps
<1>2. CASE Bus \/ flushOrphanSubAgents
  BY <1>2, BusOpen
<1>3. CASE sessionShutdown
  BY <1>0, <1>3, ShutdownOpen
<1>4. CASE initInstrumentation \/ teardownTelemetry
  BY <1>4, OpenAnew
<1>5. CASE CloseProviders /\ UNCHANGED telemetryVars
  BY <1>5, OpenAnew DEF telemetryVars
<1>6. CASE Hand /\ UNCHANGED telemetryVars
  BY <1>6, HandOpen
<1>7. CASE LateProvider \/ shutdownTelemetryDispatcher \/ UNCHANGED vars
  BY <1>7, MoveOpen DEF LateProvider, telemetryVars, registryVars, shutdownTelemetryDispatcher,
                        OrphansFlushed, vars
<1>8. CASE Immediate \/ (OnChain /\ ~CloseProviders /\ ~Hand)
  <2>1. UNCHANGED <<telemetryVars, registryVars>>
    BY <1>8 DEF Immediate, OnChain, Settle
  <2>2. Settle \/ BatchBegins \/ BatchEnds \/ TailBegins \/ TailEnds \/ ImmediateRuns
    BY <1>8 DEF Immediate, OnChain
  <2> QED
    BY <2>1, <2>2, MoveOpen DEF telemetryVars
<1> QED
  BY <1>1, <1>2, <1>3, <1>4, <1>5, <1>6, <1>7, <1>8 DEF Next, Pi, PiSteps, Finalize, OnChain

(* No attribute is set on a span that has ended, and no span is left open  *)
(* behind a session that gave up no event, if the configuration leaves on  *)
(* the events that end spans.                                              *)
THEOREM SpansAreAlwaysKept ==
  ASSUME EndsAreTold
  PROVE  Spec => []SpansAreKept
<1>1. Init => SpanInv
  <2> SUFFICES ASSUME Init PROVE SpanInv
    OBVIOUS
  <2>1. \A l, m : ~Known(l, m)
    BY DEF Init, Known
  <2>2. KnownAreOpen
    BY <2>1 DEF Init, KnownAreOpen
  <2>3. Outstanding = <<>>
    <3>1. <<>> \in Seq(Item)
      OBVIOUS
    <3>2. <<>> \o <<>> = <<>>
      BY <3>1, NothingJoined
    <3> QED
      BY <3>2, FlattenEmpty, Zenon DEF Outstanding, Init, DispatcherInit
  <2>4. Lead([k \in {0} |-> {}])
    <3>1. Within({})
      BY DEF Within
    <3> QED
      BY <2>1, <2>3, <3>1, RunsNothing DEF Lead
  <2> QED
    BY <2>1, <2>2, <2>3, <2>4 DEF Init, DispatcherInit, SpanInv, OpenAreKnown
<1>2. TelemetryInv /\ SpanInv /\ [Next]_vars => (TelemetryInv /\ SpanInv)'
  <2> SUFFICES ASSUME TelemetryInv, SpanInv, [Next]_vars PROVE TelemetryInv' /\ SpanInv'
    OBVIOUS
  <2>1. TelemetryInv' /\ (shed => shed')
    BY TelemetryStep, ShedStays
  <2>2. KnownAreOpen'
    BY KnownStep DEF SpanInv
  <2>3. ~shed' => OpenAreKnown'
    BY <2>1, OpenStep DEF SpanInv
  <2> QED
    BY <2>1, <2>2, <2>3 DEF SpanInv
<1>3. SpanInv => SpansAreKept
  <2> SUFFICES ASSUME SpanInv PROVE SpansAreKept
    OBVIOUS
  <2>1. turnSpan # None => turnSpan \in open
    BY DEF SpanInv, KnownAreOpen, Known
  <2>2. latestLlmSpan # None => latestLlmSpan \in open
    BY DEF SpanInv, KnownAreOpen
  <2>3. \A c \in DOMAIN toolSpans : toolSpans[c] \in open
    <3>1. \A c \in DOMAIN toolSpans : Known(ToolOf(c), toolSpans[c])
      BY DEF Known
    <3> QED
      BY <3>1 DEF SpanInv, KnownAreOpen
  <2>4. \A s \in DOMAIN llmSpans : llmSpans[s] \in open
    <3>1. \A s \in DOMAIN llmSpans : Known(LlmOf(s), llmSpans[s])
      BY DEF Known
    <3> QED
      BY <3>1 DEF SpanInv, KnownAreOpen
  <2>5. phase = "down" /\ ~shed => open = {}
    BY DEF SpanInv, OpenAreKnown
  <2> QED
    BY <2>1, <2>2, <2>3, <2>4, <2>5 DEF SpansAreKept, Range
<1> QED
  BY <1>1, <1>2, <1>3, TelemetryInitially, PTL DEF Spec
=============================================================================
