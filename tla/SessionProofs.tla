----------------------------- MODULE SessionProofs -----------------------------
(***************************************************************************)
(* What a session promises whatever the numbers of ids, proxies, requests  *)
(* and changes.                                                            *)
(***************************************************************************)
EXTENDS Session, FiniteSetTheorems, SequenceTheorems, TLAPS

-----------------------------------------------------------------------------
(* Queues of messages of no particular type.                               *)

Queue(q) == q \in Seq(ToSet(q))

LEMMA QueueIs ==
  ASSUME NEW q, Queue(q)
  PROVE  /\ Len(q) \in Nat /\ DOMAIN q = 1 .. Len(q)
         /\ q = <<>> <=> Len(q) = 0
         /\ \A x : x \in ToSet(q) <=> \E i \in 1 .. Len(q) : x = q[i]
BY DEF Queue, ToSet

LEMMA FunctionIsQueue ==
  ASSUME NEW n \in Nat, NEW f, f = [i \in 1 .. n |-> f[i]]
  PROVE  Queue(f) /\ Len(f) = n
<1>1. f \in [1 .. n -> ToSet(f)]
  BY DEF ToSet
<1>2. f \in Seq(ToSet(f))
  BY <1>1
<1> QED
  BY <1>1, <1>2 DEF Queue

LEMMA SeqIsQueue ==
  ASSUME NEW S, NEW q \in Seq(S)
  PROVE  Queue(q)
<1>1. q = [i \in 1 .. Len(q) |-> q[i]] /\ Len(q) \in Nat
  BY LenProperties
<1> QED
  BY <1>1, FunctionIsQueue

LEMMA QueueTail ==
  ASSUME NEW q, Queue(q), q # <<>>
  PROVE  /\ Queue(Tail(q)) /\ Len(Tail(q)) = Len(q) - 1 /\ Head(q) = q[1]
         /\ Len(q) \in Nat \ {0}
         /\ \A i \in 1 .. Len(Tail(q)) : Tail(q)[i] = q[i + 1]
<1>1. q \in Seq(ToSet(q))
  BY DEF Queue
<1>2. Tail(q) \in Seq(ToSet(q)) /\ Len(Tail(q)) = Len(q) - 1
      /\ \A i \in 1 .. Len(Tail(q)) : Tail(q)[i] = q[i + 1]
  BY <1>1, HeadTailProperties
<1>3. Queue(Tail(q))
  BY <1>2, SeqIsQueue
<1>4. Len(q) \in Nat \ {0}
  BY <1>1, EmptySeq
<1>5. Head(q) = q[1]
  BY <1>1, <1>4
<1> QED
  BY <1>2, <1>3, <1>4, <1>5

LEMMA QueueConcat ==
  ASSUME NEW q, Queue(q), NEW r, Queue(r)
  PROVE  /\ Queue(q \o r) /\ Len(q \o r) = Len(q) + Len(r)
         /\ Len(q) \in Nat /\ Len(r) \in Nat
         /\ \A i \in 1 .. Len(q) : (q \o r)[i] = q[i]
         /\ \A i \in Len(q) + 1 .. Len(q) + Len(r) : (q \o r)[i] = r[i - Len(q)]
         /\ \A i \in 1 .. Len(r) : (q \o r)[Len(q) + i] = r[i]
<1> DEFINE S == ToSet(q) \cup ToSet(r)
<1>1. q \in Seq(S) /\ r \in Seq(S)
  BY SeqMonotonic DEF Queue
<1> HIDE DEF S
<1>2. /\ q \o r \in Seq(S) /\ Len(q \o r) = Len(q) + Len(r)
      /\ \A i \in 1 .. Len(q) + Len(r) :
           (q \o r)[i] = IF i <= Len(q) THEN q[i] ELSE r[i - Len(q)]
  BY <1>1, ConcatProperties
<1>3. Len(q) \in Nat /\ Len(r) \in Nat
  BY <1>1
<1>4. Queue(q \o r)
  BY <1>2, SeqIsQueue
<1> QED
  BY <1>2, <1>3, <1>4

-----------------------------------------------------------------------------
(* Numbers of requests.                                                    *)

USE SpaResultsAssumption

(* As long as fewer requests are under way than there are numbers, a       *)
(* number tells which request is meant.                                    *)
LEMMA NumbersDiffer ==
  ASSUME NEW o \in Nat, NEW u \in Nat, o <= u, u - o < AsyncBit, NumberOf(o) = NumberOf(u)
  PROVE  o = u
<1>1. o % AsyncBit = u % AsyncBit
  BY DEF NumberOf, FromSeq, SeqBits
<1>2. o = AsyncBit * (o \div AsyncBit) + (o % AsyncBit) /\ o \div AsyncBit \in Int
  OBVIOUS
<1>3. u = AsyncBit * (u \div AsyncBit) + (u % AsyncBit) /\ u \div AsyncBit \in Int
  OBVIOUS
<1>4. u - o = AsyncBit * (u \div AsyncBit - o \div AsyncBit)
  BY <1>1, <1>2, <1>3
<1>5. u \div AsyncBit = o \div AsyncBit
  <2> DEFINE d == u \div AsyncBit - o \div AsyncBit
  <2>1. d \in Int /\ 0 <= AsyncBit * d /\ AsyncBit * d < AsyncBit
    BY <1>2, <1>3, <1>4
  <2>2. d = 0
    <3> HIDE DEF d
    <3>1. CASE d >= 1
      <4>1. AsyncBit * d >= AsyncBit
        BY <2>1, <3>1
      <4> QED
        BY <2>1, <4>1
    <3>2. CASE d <= -1
      <4>1. AsyncBit * d <= -AsyncBit
        BY <2>1, <3>2
      <4> QED
        BY <2>1, <4>1
    <3> QED
      BY <2>1, <3>1, <3>2
  <2> QED
    BY <1>2, <1>3, <2>2
<1> QED
  BY <1>1, <1>2, <1>3, <1>5

(* The number of a sync comes back to the program as it was given. *)
LEMMA NumbersAreAsync ==
  ASSUME NEW o \in Nat
  PROVE  /\ IntoAsyncResult(NumberOf(o)) = Async(NumberOf(o))
         /\ FromRaw(NumberOf(o)) = Async(NumberOf(o))
<1>1. NumberOf(o) \in AsyncBit .. (2 * AsyncBit - 1)
  BY DEF NumberOf, FromSeq, SeqBits
<1> QED
  BY <1>1 DEF IntoAsyncResult, IntoResult, FromRaw, IsAsync, Async

-----------------------------------------------------------------------------
(* The wire: the program's requests reach the server in order, and what    *)
(* the server sends for them comes back in that order.                     *)

(* A done of the core. *)
IsDone(e) == e.to = "core" /\ e.name = "done"

(* The last request that was handled. *)
Handled == calls - Len(requests)

(* The requests under way are the last ones, in order. *)
RequestsInOrder ==
  /\ Queue(requests) /\ calls \in Nat /\ Len(requests) <= calls
  /\ \A i \in 1 .. Len(requests) : requests[i].ordinal = Handled + i

(* Events for requests come in the order of those; a sync has one event.   *)
EventsInOrder ==
  /\ Queue(events)
  /\ \A i \in 1 .. Len(events) :
       /\ events[i].ordinal \in 0 .. Handled
       /\ IsDone(events[i]) => /\ events[i].ordinal > 0 /\ events[i].id = CoreId
                               /\ events[i].seq = NumberOf(events[i].ordinal)
  /\ \A i, j \in 1 .. Len(events) :
       i < j /\ events[j].ordinal > 0 =>
         /\ events[i].ordinal <= events[j].ordinal
         /\ IsDone(events[i]) \/ IsDone(events[j]) => events[i].ordinal < events[j].ordinal

(* The sync that is waited for is under way, itself or its done; among     *)
(* what is older there are fewer requests than numbers.                    *)
SyncIsComing ==
  pending # None =>
    /\ pending.ordinal \in 1 .. calls /\ pending.seq = Async(NumberOf(pending.ordinal))
    /\ \A o \in InFlight : pending.ordinal - o < AsyncBit
    /\ \/ \E i \in 1 .. Len(requests) :
            requests[i].kind = "sync" /\ requests[i].ordinal = pending.ordinal
       \/ \E i \in 1 .. Len(events) :
            IsDone(events[i]) /\ events[i].ordinal = pending.ordinal

(* What was before the last sync seen done is over. *)
SyncedIsOver ==
  /\ synced \in 0 .. Handled
  /\ \A i \in 1 .. Len(events) : events[i].ordinal = 0 \/ events[i].ordinal > synced

WireInv == RequestsInOrder /\ EventsInOrder /\ SyncIsComing /\ SyncedIsOver

(* One more event for a request, or some that nobody asked for. *)
Emits(es, o) ==
  /\ Queue(es) /\ events' = events \o es
  /\ \A i \in 1 .. Len(es) : es[i].ordinal = o /\ ~IsDone(es[i])

LEMMA OrdinalOf ==
  ASSUME NEW to, NEW name, NEW o, NEW r, DOMAIN r \cap {"to", "name", "ordinal"} = {}
  PROVE  /\ With(Event(to, name, o), r).to = to
         /\ With(Event(to, name, o), r).name = name
         /\ With(Event(to, name, o), r).ordinal = o
         /\ \A x \in DOMAIN r : With(Event(to, name, o), r)[x] = r[x]
         /\ DOMAIN With(Event(to, name, o), r) = {"to", "name", "ordinal"} \cup DOMAIN r
BY DEF Event, With

LEMMA InFlightIs ==
  ASSUME Queue(requests), Queue(events)
  PROVE  \A o : o \in InFlight <=>
           /\ o # 0
           /\ \/ \E i \in 1 .. Len(requests) : requests[i].ordinal = o
              \/ \E i \in 1 .. Len(events) : events[i].ordinal = o
<1>1. \A m : m \in ToSet(requests) <=> \E i \in 1 .. Len(requests) : m = requests[i]
  BY QueueIs
<1>2. \A m : m \in ToSet(events) <=> \E i \in 1 .. Len(events) : m = events[i]
  BY QueueIs
<1> QED
  BY <1>1, <1>2 DEF InFlight

LEMMA InFlightIsAfter ==
  ASSUME Queue(requests)', Queue(events)'
  PROVE  \A o : o \in InFlight' <=>
           /\ o # 0
           /\ \/ \E i \in 1 .. Len(requests') : requests'[i].ordinal = o
              \/ \E i \in 1 .. Len(events') : events'[i].ordinal = o
<1>1. \A m : m \in ToSet(requests') <=> \E i \in 1 .. Len(requests') : m = requests'[i]
  BY QueueIs
<1>2. \A m : m \in ToSet(events') <=> \E i \in 1 .. Len(events') : m = events'[i]
  BY QueueIs
<1> QED
  BY <1>1, <1>2 DEF InFlight

(* The program makes requests. *)
LEMMA RequestsKeepWire ==
  ASSUME WireInv, NEW rs, Queue(rs), Request(rs), synced' = synced,
         \A i \in 1 .. Len(rs) : {"kind", "ordinal"} \cap DOMAIN rs[i] = {"kind"},
         \/ pending' = pending
         \/ /\ Len(rs) = 1 /\ rs[1].kind = "sync"
            /\ pending' = [seq |-> Async(NumberOf(calls + 1)), ordinal |-> calls + 1]
  PROVE  WireInv'
<1> DEFINE ns == [i \in DOMAIN rs |-> With(rs[i], [ordinal |-> calls + i])]
<1>1. Len(rs) \in Nat /\ DOMAIN rs = 1 .. Len(rs)
  BY QueueIs
<1>2. Queue(ns) /\ Len(ns) = Len(rs)
  BY <1>1, FunctionIsQueue
<1>3. \A i \in 1 .. Len(rs) : ns[i].ordinal = calls + i /\ ns[i].kind = rs[i].kind
  BY <1>1 DEF With
<1>4. /\ requests' = requests \o ns /\ events' = events /\ calls' = calls + Len(rs)
      /\ \A o \in InFlight : calls + Len(rs) - o < AsyncBit
  BY DEF Request
<1> HIDE DEF ns
<1>5. /\ Queue(requests') /\ Len(requests') = Len(requests) + Len(rs) /\ Len(requests) \in Nat
      /\ \A i \in 1 .. Len(requests) : requests'[i] = requests[i]
      /\ \A i \in Len(requests) + 1 .. Len(requests) + Len(rs) :
           requests'[i] = ns[i - Len(requests)]
  <2>1. Queue(requests)
    BY DEF WireInv, RequestsInOrder
  <2>2. /\ Queue(requests \o ns) /\ Len(requests \o ns) = Len(requests) + Len(ns)
        /\ Len(requests) \in Nat
        /\ \A i \in 1 .. Len(requests) : (requests \o ns)[i] = requests[i]
        /\ \A i \in Len(requests) + 1 .. Len(requests) + Len(ns) :
             (requests \o ns)[i] = ns[i - Len(requests)]
    BY ONLY <1>2, <2>1, QueueConcat
  <2> QED
    BY <1>2, <1>4, <2>2
<1>6. calls \in Nat /\ Handled' = Handled /\ Handled \in Nat
  BY <1>1, <1>4, <1>5 DEF WireInv, RequestsInOrder, Handled
<1>7. RequestsInOrder'
  BY <1>1, <1>3, <1>4, <1>5, <1>6 DEF WireInv, RequestsInOrder, Handled
<1>8. EventsInOrder' /\ SyncedIsOver'
  BY <1>4, <1>6 DEF WireInv, EventsInOrder, SyncedIsOver
<1>9. SyncIsComing'
  <2>1. \A o \in InFlight' : o \in InFlight \/ o \in calls + 1 .. calls + Len(rs)
    <3>1. \A o \in InFlight' : /\ o # 0
                               /\ \/ \E i \in 1 .. Len(requests') : requests'[i].ordinal = o
                                  \/ \E i \in 1 .. Len(events) : events[i].ordinal = o
      BY <1>4, <1>7, <1>8, InFlightIsAfter DEF RequestsInOrder, EventsInOrder
    <3>2. \A i \in 1 .. Len(requests') :
            \/ i \in 1 .. Len(requests) /\ requests'[i].ordinal = requests[i].ordinal
            \/ requests'[i].ordinal \in calls + 1 .. calls + Len(rs)
      BY <1>1, <1>3, <1>5, <1>6
    <3> QED
      BY <3>1, <3>2, InFlightIs DEF WireInv, RequestsInOrder, EventsInOrder
  <2>2. \A o \in InFlight : o \in Int
    BY InFlightIs DEF WireInv, RequestsInOrder, EventsInOrder, Handled
  <2>3. CASE pending' = pending
    <3> SUFFICES ASSUME pending # None
                 PROVE  SyncIsComing'
      BY <2>3 DEF SyncIsComing
    <3>1. /\ pending'.ordinal \in 1 .. calls /\ pending'.seq = Async(NumberOf(pending'.ordinal))
          /\ \A o \in InFlight : pending'.ordinal - o < AsyncBit
      BY <2>3 DEF WireInv, SyncIsComing
    <3>2. \A o \in InFlight' : pending'.ordinal - o < AsyncBit
      BY <2>1, <3>1, <1>1, <1>6
    <3>3. pending'.ordinal \in 1 .. calls'
      BY <3>1, <1>1, <1>4, <1>6
    <3>4. \/ \E i \in 1 .. Len(requests') :
               requests'[i].kind = "sync" /\ requests'[i].ordinal = pending'.ordinal
          \/ \E i \in 1 .. Len(events') :
               IsDone(events'[i]) /\ events'[i].ordinal = pending'.ordinal
      BY <2>3, <1>1, <1>4, <1>5 DEF WireInv, SyncIsComing
    <3> QED
      BY <3>1, <3>2, <3>3, <3>4 DEF SyncIsComing
  <2>4. CASE /\ Len(rs) = 1 /\ rs[1].kind = "sync"
             /\ pending' = [seq |-> Async(NumberOf(calls + 1)), ordinal |-> calls + 1]
    <3>1. \A o \in InFlight' : pending'.ordinal - o < AsyncBit
      BY <2>1, <2>2, <2>4, <1>4, <1>6
    <3>2. requests'[Len(requests')].kind = "sync" /\ requests'[Len(requests')].ordinal = calls + 1
      BY <2>4, <1>3, <1>5
    <3> QED
      BY <2>4, <3>1, <3>2, <1>4, <1>5, <1>6 DEF SyncIsComing
  <2> QED
    BY <2>3, <2>4
<1> QED
  BY <1>7, <1>8, <1>9 DEF WireInv

(* The oldest request is taken off the wire. *)
LEMMA HandlingTakes ==
  ASSUME WireInv, NEW kind, Handles(kind)
  PROVE  /\ RequestsInOrder' /\ Handled' = Handled + 1 /\ Handled \in Nat
         /\ req.ordinal = Handled' /\ req = requests[1] /\ req.kind = kind
         /\ calls' = calls /\ pending' = pending /\ synced' = synced
         /\ Len(requests) \in Nat \ {0} /\ Len(requests') = Len(requests) - 1
         /\ \A i \in 1 .. Len(requests') : requests'[i] = requests[i + 1]
<1>1. /\ requests # <<>> /\ requests' = Tail(requests) /\ Head(requests).kind = kind
      /\ calls' = calls /\ pending' = pending /\ synced' = synced
  BY DEF Handles, programVars
<1>2. /\ Queue(requests') /\ Len(requests') = Len(requests) - 1 /\ Head(requests) = requests[1]
      /\ Len(requests) \in Nat \ {0}
      /\ \A i \in 1 .. Len(requests') : requests'[i] = requests[i + 1]
  BY <1>1, QueueTail DEF WireInv, RequestsInOrder
<1>3. /\ calls \in Nat /\ Len(requests) <= calls
      /\ \A i \in 1 .. Len(requests) : requests[i].ordinal = calls - Len(requests) + i
  BY DEF WireInv, RequestsInOrder, Handled
<1> QED
  BY <1>1, <1>2, <1>3 DEF RequestsInOrder, Handled, req

(* The server sends events that are no done. *)
LEMMA EventsKeepWire ==
  ASSUME WireInv, NEW o, NEW es, Emits(es, o), pending' = pending, synced' = synced,
         \/ /\ o = 0 /\ requests' = requests /\ calls' = calls
         \/ \E kind : Handles(kind) /\ kind # "sync" /\ o = req.ordinal
  PROVE  WireInv'
<1>1. /\ RequestsInOrder' /\ calls' = calls /\ Handled \in Nat /\ Handled' \in Nat
      /\ Handled <= Handled' /\ Handled' <= calls
      /\ o \in {0, Handled'} /\ (o > 0 => o > Handled)
  <2>1. CASE o = 0 /\ requests' = requests /\ calls' = calls
    BY <2>1 DEF WireInv, RequestsInOrder, Handled, Queue
  <2>2. CASE \E kind : Handles(kind) /\ o = req.ordinal
    <3>1. RequestsInOrder' /\ Handled' = Handled + 1 /\ Handled \in Nat
          /\ o = Handled' /\ calls' = calls
      BY <2>2, HandlingTakes
    <3> QED
      BY <3>1 DEF RequestsInOrder, Handled, Queue
  <2> QED
    BY <2>1, <2>2
<1>2. /\ Queue(events') /\ Len(events') = Len(events) + Len(es)
      /\ Len(events) \in Nat /\ Len(es) \in Nat
      /\ \A i \in 1 .. Len(events) : events'[i] = events[i]
      /\ \A i \in Len(events) + 1 .. Len(events) + Len(es) : events'[i] = es[i - Len(events)]
  <2>1. Queue(events) /\ Queue(es) /\ events' = events \o es
    BY DEF WireInv, EventsInOrder, Emits
  <2> QED
    BY ONLY <2>1, QueueConcat
<1>3. \A i \in Len(events) + 1 .. Len(events') : events'[i].ordinal = o /\ ~IsDone(events'[i])
  BY <1>2 DEF Emits
<1>4. \A i \in 1 .. Len(events') : i \in 1 .. Len(events) \/ i \in Len(events) + 1 .. Len(events')
  BY <1>2
<1>5. EventsInOrder'
  <2>1. \A i \in 1 .. Len(events) :
          /\ events[i].ordinal \in 0 .. Handled
          /\ IsDone(events[i]) => /\ events[i].ordinal > 0 /\ events[i].id = CoreId
                                  /\ events[i].seq = NumberOf(events[i].ordinal)
    BY DEF WireInv, EventsInOrder
  <2>2. \A i, j \in 1 .. Len(events) :
          i < j /\ events[j].ordinal > 0 =>
            /\ events[i].ordinal <= events[j].ordinal
            /\ IsDone(events[i]) \/ IsDone(events[j]) => events[i].ordinal < events[j].ordinal
    BY DEF WireInv, EventsInOrder
  <2>3. \A i \in 1 .. Len(events') :
          /\ events'[i].ordinal \in 0 .. Handled'
          /\ IsDone(events'[i]) => /\ events'[i].ordinal > 0 /\ events'[i].id = CoreId
                                   /\ events'[i].seq = NumberOf(events'[i].ordinal)
    <3> TAKE i \in 1 .. Len(events')
    <3>1. CASE i \in 1 .. Len(events)
      BY <3>1, <2>1, <1>1, <1>2
    <3>2. CASE i \in Len(events) + 1 .. Len(events')
      BY <3>2, <1>1, <1>3
    <3> QED
      BY <3>1, <3>2, <1>4
  <2>4. \A i, j \in 1 .. Len(events') :
          i < j /\ events'[j].ordinal > 0 =>
            /\ events'[i].ordinal <= events'[j].ordinal
            /\ IsDone(events'[i]) \/ IsDone(events'[j]) => events'[i].ordinal < events'[j].ordinal
    <3> TAKE i, j \in 1 .. Len(events')
    <3> HAVE i < j /\ events'[j].ordinal > 0
    <3>1. CASE j \in 1 .. Len(events)
      BY <3>1, <2>2, <1>2
    <3>2. CASE i \in 1 .. Len(events) /\ j \in Len(events) + 1 .. Len(events')
      <4>1. events'[j].ordinal = o /\ o > Handled
        BY <3>2, <1>1, <1>3
      <4>2. events'[i] = events[i] /\ events[i].ordinal \in 0 .. Handled
        BY <3>2, <1>2, <2>1
      <4> QED
        BY <4>1, <4>2, <1>1
    <3>3. CASE i \in Len(events) + 1 .. Len(events') /\ j \in Len(events) + 1 .. Len(events')
      BY <3>3, <1>1, <1>3
    <3> QED
      BY <3>1, <3>2, <3>3, <1>4, <1>2
  <2> QED
    BY <1>2, <2>3, <2>4 DEF EventsInOrder
<1>6. SyncedIsOver'
  BY <1>1, <1>2, <1>3, <1>4 DEF WireInv, SyncedIsOver
<1>7. SyncIsComing'
  <2> SUFFICES ASSUME pending # None
               PROVE  /\ \A x \in InFlight' : pending.ordinal - x < AsyncBit
                      /\ \/ \E i \in 1 .. Len(requests') :
                              /\ requests'[i].kind = "sync"
                              /\ requests'[i].ordinal = pending.ordinal
                         \/ \E i \in 1 .. Len(events') :
                              IsDone(events'[i]) /\ events'[i].ordinal = pending.ordinal
    BY <1>1 DEF WireInv, SyncIsComing
  <2>1. \A x \in InFlight' : x \in InFlight
    <3>1. \A x \in InFlight' : /\ x # 0
                               /\ \/ \E i \in 1 .. Len(requests') : requests'[i].ordinal = x
                                  \/ \E i \in 1 .. Len(events') : events'[i].ordinal = x
      BY <1>1, <1>5, InFlightIsAfter DEF RequestsInOrder, EventsInOrder
    <3>2. \A i \in 1 .. Len(requests') : \E j \in 1 .. Len(requests) : requests'[i] = requests[j]
      <4>1. CASE requests' = requests
        BY <4>1
      <4>2. CASE \E kind : Handles(kind)
        BY <4>2, HandlingTakes
      <4> QED
        BY <4>1, <4>2
    <3>3. o # 0 => \E j \in 1 .. Len(requests) : requests[j].ordinal = o
      BY HandlingTakes
    <3>4. \A i \in 1 .. Len(events') :
            \/ \E j \in 1 .. Len(events) : events'[i].ordinal = events[j].ordinal
            \/ events'[i].ordinal = o
      BY <1>2, <1>3, <1>4
    <3>5. Queue(requests) /\ Queue(events)
      BY DEF WireInv, RequestsInOrder, EventsInOrder
    <3> QED
      BY <3>1, <3>2, <3>3, <3>4, <3>5, InFlightIs
  <2>2. \/ \E i \in 1 .. Len(requests') :
             requests'[i].kind = "sync" /\ requests'[i].ordinal = pending.ordinal
        \/ \E i \in 1 .. Len(events') :
             IsDone(events'[i]) /\ events'[i].ordinal = pending.ordinal
    <3>1. CASE \E i \in 1 .. Len(events) : IsDone(events[i]) /\ events[i].ordinal = pending.ordinal
      BY <3>1, <1>2
    <3>2. CASE requests' = requests
      BY <3>1, <3>2 DEF WireInv, SyncIsComing
    <3>3. ASSUME NEW kind, Handles(kind), kind # "sync",
                 NEW i \in 1 .. Len(requests), requests[i].kind = "sync",
                 requests[i].ordinal = pending.ordinal
          PROVE  \E j \in 1 .. Len(requests') :
                   requests'[j].kind = "sync" /\ requests'[j].ordinal = pending.ordinal
      <4>1. requests[1].kind # "sync" /\ Len(requests) \in Nat \ {0}
            /\ Len(requests') = Len(requests) - 1
            /\ \A j \in 1 .. Len(requests') : requests'[j] = requests[j + 1]
        BY <3>3, HandlingTakes
      <4>2. i - 1 \in 1 .. Len(requests') /\ requests'[i - 1] = requests[i]
        BY <3>3, <4>1
      <4> QED
        BY <3>3, <4>2
    <3> QED
      BY <3>1, <3>2, <3>3 DEF WireInv, SyncIsComing
  <2> QED
    BY <2>1, <2>2 DEF WireInv, SyncIsComing
<1> QED
  BY <1>1, <1>5, <1>6, <1>7 DEF WireInv

(* The done of a sync is the last event so far. *)
LEMMA SyncKeepsWire ==
  ASSUME WireInv, HandleSync
  PROVE  WireInv'
<1> DEFINE done == With(Event("core", "done", req.ordinal),
                        [id |-> CoreId, seq |-> NumberOf(req.ordinal)])
<1>1. /\ RequestsInOrder' /\ Handled' = Handled + 1 /\ Handled \in Nat
      /\ req.ordinal = Handled' /\ req = requests[1]
      /\ calls' = calls /\ pending' = pending /\ synced' = synced
      /\ Len(requests) \in Nat \ {0} /\ Len(requests') = Len(requests) - 1
      /\ \A i \in 1 .. Len(requests') : requests'[i] = requests[i + 1]
  BY HandlingTakes DEF HandleSync
<1>2. /\ done.to = "core" /\ done.name = "done" /\ done.ordinal = Handled'
      /\ done.id = CoreId /\ done.seq = NumberOf(done.ordinal)
  BY <1>1 DEF With, Event
<1>3. events' = events \o <<done>>
  BY DEF HandleSync, Emit
<1> HIDE DEF done
<1>4. /\ Queue(events') /\ Len(events') = Len(events) + 1 /\ Len(events) \in Nat
      /\ \A i \in 1 .. Len(events) : events'[i] = events[i]
      /\ events'[Len(events')] = done
  <2>1. Queue(events)
    BY DEF WireInv, EventsInOrder
  <2>2. <<done>> \in Seq({done}) /\ Len(<<done>>) = 1 /\ <<done>>[1] = done
    OBVIOUS
  <2>3. Queue(<<done>>)
    BY <2>2, SeqIsQueue
  <2> HIDE <2>2
  <2>4. /\ Queue(events \o <<done>>) /\ Len(events \o <<done>>) = Len(events) + Len(<<done>>)
        /\ Len(events) \in Nat
        /\ \A i \in 1 .. Len(events) : (events \o <<done>>)[i] = events[i]
        /\ \A i \in 1 .. Len(<<done>>) : (events \o <<done>>)[Len(events) + i] = <<done>>[i]
    BY ONLY <2>1, <2>3, QueueConcat
  <2> QED
    BY <1>3, <2>2, <2>4
<1>5. \A i \in 1 .. Len(events') : i \in 1 .. Len(events) \/ i = Len(events')
  BY <1>4
<1>6. EventsInOrder'
  <2>1. \A i \in 1 .. Len(events) :
          /\ events[i].ordinal \in 0 .. Handled
          /\ IsDone(events[i]) => /\ events[i].ordinal > 0 /\ events[i].id = CoreId
                                  /\ events[i].seq = NumberOf(events[i].ordinal)
    BY DEF WireInv, EventsInOrder
  <2>2. \A i, j \in 1 .. Len(events) :
          i < j /\ events[j].ordinal > 0 =>
            /\ events[i].ordinal <= events[j].ordinal
            /\ IsDone(events[i]) \/ IsDone(events[j]) => events[i].ordinal < events[j].ordinal
    BY DEF WireInv, EventsInOrder
  <2>3. \A i \in 1 .. Len(events') :
          /\ events'[i].ordinal \in 0 .. Handled'
          /\ IsDone(events'[i]) => /\ events'[i].ordinal > 0 /\ events'[i].id = CoreId
                                   /\ events'[i].seq = NumberOf(events'[i].ordinal)
    BY <1>1, <1>2, <1>4, <1>5, <2>1
  <2>4. \A i, j \in 1 .. Len(events') :
          i < j /\ events'[j].ordinal > 0 =>
            /\ events'[i].ordinal <= events'[j].ordinal
            /\ IsDone(events'[i]) \/ IsDone(events'[j]) => events'[i].ordinal < events'[j].ordinal
    <3> TAKE i, j \in 1 .. Len(events')
    <3> HAVE i < j /\ events'[j].ordinal > 0
    <3>1. i \in 1 .. Len(events) /\ events'[i] = events[i]
      BY <1>4
    <3>2. CASE j \in 1 .. Len(events)
      BY <3>1, <3>2, <2>2, <1>4
    <3>3. CASE j = Len(events')
      BY <3>1, <3>3, <2>1, <1>1, <1>2, <1>4
    <3> QED
      BY <3>2, <3>3, <1>5
  <2> QED
    BY <1>4, <2>3, <2>4 DEF EventsInOrder
<1>7. SyncedIsOver'
  <2>1. synced' \in 0 .. Handled' /\ Handled' > synced'
    BY <1>1 DEF WireInv, SyncedIsOver
  <2>2. \A i \in 1 .. Len(events) : events'[i].ordinal = 0 \/ events'[i].ordinal > synced'
    BY <1>1, <1>4 DEF WireInv, SyncedIsOver
  <2>3. events'[Len(events')].ordinal > synced'
    BY <1>2, <1>4, <2>1
  <2>4. \A i \in 1 .. Len(events') : events'[i].ordinal = 0 \/ events'[i].ordinal > synced'
    BY ONLY <1>5, <2>2, <2>3
  <2> QED
    BY <2>1, <2>4 DEF SyncedIsOver
<1>8. SyncIsComing'
  <2> SUFFICES ASSUME pending # None
               PROVE  /\ \A x \in InFlight' : pending.ordinal - x < AsyncBit
                      /\ \/ \E i \in 1 .. Len(requests') :
                              /\ requests'[i].kind = "sync"
                              /\ requests'[i].ordinal = pending.ordinal
                         \/ \E i \in 1 .. Len(events') :
                              IsDone(events'[i]) /\ events'[i].ordinal = pending.ordinal
    BY <1>1 DEF WireInv, SyncIsComing
  <2>1. \A x \in InFlight' : x \in InFlight
    <3>1. \A x \in InFlight' : /\ x # 0
                               /\ \/ \E i \in 1 .. Len(requests') : requests'[i].ordinal = x
                                  \/ \E i \in 1 .. Len(events') : events'[i].ordinal = x
      BY <1>1, <1>6, InFlightIsAfter DEF RequestsInOrder, EventsInOrder
    <3>2. \A i \in 1 .. Len(requests') : \E j \in 1 .. Len(requests) : requests'[i] = requests[j]
      BY <1>1
    <3>3. \A i \in 1 .. Len(events') :
            \/ \E j \in 1 .. Len(events) : events'[i].ordinal = events[j].ordinal
            \/ events'[i].ordinal = requests[1].ordinal
      BY <1>1, <1>2, <1>4, <1>5
    <3>4. Queue(requests) /\ Queue(events) /\ 1 \in 1 .. Len(requests)
      BY <1>1 DEF WireInv, RequestsInOrder, EventsInOrder
    <3> QED
      BY <3>1, <3>2, <3>3, <3>4, InFlightIs
  <2>2. CASE \E i \in 1 .. Len(events) : IsDone(events[i]) /\ events[i].ordinal = pending.ordinal
    BY <2>1, <2>2, <1>4 DEF WireInv, SyncIsComing
  <2>3. CASE requests[1].ordinal = pending.ordinal
    <3>1. IsDone(events'[Len(events')]) /\ events'[Len(events')].ordinal = pending.ordinal
          /\ Len(events') \in 1 .. Len(events')
      BY <2>3, <1>1, <1>2, <1>4 DEF IsDone
    <3> QED
      BY <2>1, <3>1 DEF WireInv, SyncIsComing
  <2>4. ASSUME NEW i \in 1 .. Len(requests), i # 1, requests[i].kind = "sync",
               requests[i].ordinal = pending.ordinal
        PROVE  \E j \in 1 .. Len(requests') :
                 requests'[j].kind = "sync" /\ requests'[j].ordinal = pending.ordinal
    <3>1. i - 1 \in 1 .. Len(requests') /\ requests'[i - 1] = requests[i]
      BY <2>4, <1>1
    <3> QED
      BY <2>4, <3>1
  <2> QED
    BY <2>1, <2>2, <2>3, <2>4 DEF WireInv, SyncIsComing
<1> QED
  BY <1>1, <1>6, <1>7, <1>8 DEF WireInv

(* The oldest event is delivered; only the done of the sync waited for     *)
(* makes a difference.                                                     *)
LEMMA DeliveryKeepsWire ==
  ASSUME WireInv, events # <<>>, events' = Tail(events),
         requests' = requests, calls' = calls,
         IF IsDone(ev) /\ pending # None /\ Async(ev.seq) = pending.seq
         THEN synced' = pending.ordinal /\ pending' = None
         ELSE synced' = synced /\ pending' = pending
  PROVE  WireInv'
<1>1. /\ Queue(events') /\ Len(events') = Len(events) - 1 /\ Len(events) \in Nat \ {0}
      /\ ev = events[1] /\ 1 \in 1 .. Len(events)
      /\ \A i \in 1 .. Len(events') : events'[i] = events[i + 1] /\ i + 1 \in 1 .. Len(events)
  <2>1. /\ Queue(events') /\ Len(events') = Len(events) - 1 /\ Len(events) \in Nat \ {0}
        /\ Head(events) = events[1]
        /\ \A i \in 1 .. Len(events') : events'[i] = events[i + 1]
    BY QueueTail DEF WireInv, EventsInOrder
  <2> QED
    BY <2>1 DEF ev
<1>2. RequestsInOrder' /\ Handled' = Handled /\ Handled \in Nat
  BY DEF WireInv, RequestsInOrder, Handled, Queue
<1>3. EventsInOrder'
  <2>1. \A i \in 1 .. Len(events') :
          /\ events'[i].ordinal \in 0 .. Handled'
          /\ IsDone(events'[i]) => /\ events'[i].ordinal > 0 /\ events'[i].id = CoreId
                                   /\ events'[i].seq = NumberOf(events'[i].ordinal)
    BY <1>1, <1>2 DEF WireInv, EventsInOrder
  <2>2. \A i, j \in 1 .. Len(events') :
          i < j /\ events'[j].ordinal > 0 =>
            /\ events'[i].ordinal <= events'[j].ordinal
            /\ IsDone(events'[i]) \/ IsDone(events'[j]) => events'[i].ordinal < events'[j].ordinal
    <3> TAKE i, j \in 1 .. Len(events')
    <3>1. i < j => i + 1 < j + 1
      BY <1>1
    <3> QED
      BY <3>1, <1>1 DEF WireInv, EventsInOrder
  <2> QED
    BY <1>1, <2>1, <2>2 DEF EventsInOrder
<1>4. \A o \in InFlight' : o \in InFlight
  <2>1. Queue(requests) /\ Queue(events) /\ Queue(requests') /\ Queue(events')
    BY <1>2, <1>3 DEF WireInv, RequestsInOrder, EventsInOrder
  <2> QED
    BY <1>1, <2>1, InFlightIs, InFlightIsAfter
<1>5. CASE IsDone(ev) /\ pending # None /\ Async(ev.seq) = pending.seq
  <2>1. /\ ev.ordinal \in Nat \ {0} /\ ev.ordinal \in 0 .. Handled /\ ev.seq = NumberOf(ev.ordinal)
        /\ pending.ordinal \in 1 .. calls /\ pending.seq = Async(NumberOf(pending.ordinal))
    BY <1>1, <1>2, <1>5 DEF WireInv, EventsInOrder, SyncIsComing
  <2>2. NumberOf(ev.ordinal) = NumberOf(pending.ordinal)
    BY <1>5, <2>1 DEF Async
  <2>3. ev.ordinal <= pending.ordinal
    <3>1. CASE \E i \in 1 .. Len(requests) : requests[i].ordinal = pending.ordinal
      BY <3>1, <1>2, <2>1 DEF WireInv, RequestsInOrder, Queue
    <3>2. ASSUME NEW i \in 1 .. Len(events), events[i].ordinal = pending.ordinal
          PROVE  ev.ordinal <= pending.ordinal
      <4>1. CASE i = 1
        BY <3>2, <4>1, <1>1, <2>1
      <4>2. CASE i # 1
        BY <3>2, <4>2, <1>1, <2>1 DEF WireInv, EventsInOrder
      <4> QED
        BY <4>1, <4>2
    <3> QED
      BY <3>1, <3>2, <1>5 DEF WireInv, SyncIsComing
  <2>4. ev.ordinal \in InFlight
    BY <1>1, <2>1, InFlightIs DEF WireInv, RequestsInOrder, EventsInOrder
  <2>5. pending.ordinal - ev.ordinal < AsyncBit
    BY <1>5, <2>4 DEF WireInv, SyncIsComing
  <2>6. ev.ordinal = pending.ordinal
    BY <2>1, <2>2, <2>3, <2>5, NumbersDiffer
  <2>7. synced' = ev.ordinal /\ pending' = None
    BY <1>5, <2>6
  <2>8. \A i \in 1 .. Len(events') : events'[i].ordinal = 0 \/ events'[i].ordinal > ev.ordinal
    <3> TAKE i \in 1 .. Len(events')
    <3>1. /\ i + 1 \in 1 .. Len(events) /\ 1 < i + 1 /\ events'[i] = events[i + 1]
          /\ events[i + 1].ordinal \in Nat
      BY <1>1, <1>2 DEF WireInv, EventsInOrder
    <3> QED
      BY <3>1, <1>1, <1>5 DEF WireInv, EventsInOrder
  <2> QED
    BY <1>2, <1>3, <2>1, <2>7, <2>8 DEF WireInv, SyncedIsOver, SyncIsComing
<1>6. CASE ~(IsDone(ev) /\ pending # None /\ Async(ev.seq) = pending.seq)
  <2>1. synced' = synced /\ pending' = pending
    BY <1>6
  <2>2. SyncedIsOver'
    BY <1>1, <1>2, <2>1 DEF WireInv, SyncedIsOver
  <2>3. SyncIsComing'
    <3> SUFFICES ASSUME pending # None
                 PROVE  \/ \E i \in 1 .. Len(requests) :
                             requests[i].kind = "sync" /\ requests[i].ordinal = pending.ordinal
                        \/ \E i \in 1 .. Len(events') :
                             IsDone(events'[i]) /\ events'[i].ordinal = pending.ordinal
      BY <1>4, <2>1 DEF WireInv, SyncIsComing
    <3>1. ASSUME NEW i \in 1 .. Len(events), IsDone(events[i]), events[i].ordinal = pending.ordinal
          PROVE  \E j \in 1 .. Len(events') :
                   IsDone(events'[j]) /\ events'[j].ordinal = pending.ordinal
      <4>1. i # 1
        BY <3>1, <1>1, <1>6 DEF WireInv, EventsInOrder, SyncIsComing
      <4>2. i - 1 \in 1 .. Len(events') /\ events'[i - 1] = events[i]
        BY <4>1, <1>1
      <4> QED
        BY <3>1, <4>2
    <3> QED
      BY <3>1 DEF WireInv, SyncIsComing
  <2> QED
    BY <1>2, <1>3, <2>2, <2>3 DEF WireInv
<1> QED
  BY <1>5, <1>6

-----------------------------------------------------------------------------
(* The server's side.                                                      *)

ServerTypes ==
  /\ DOMAIN object = Id
  /\ \A i \in Id : object[i] # None => \E t \in Kind : object[i] \in Object(t)
  /\ gens \in Nat
  /\ \A i \in Id : object[i] # None => object[i].gen \in 1 .. gens
  /\ resource \in [Proxy -> Resource \cup {None}]
  /\ \A p \in Proxy : resource[p] # None => object[resource[p].id] # None
  /\ listed \in BOOLEAN

(* What a proxy stands for, or will when its request is handled. *)
StandsFor(p, t) ==
  \/ resource[p] # None /\ object[resource[p].id].type = t
  \/ \E i \in 1 .. Len(requests) :
       requests[i].kind \in {"bind", "create"} /\ requests[i].proxy = p /\ requests[i].type = t

(* A call of a method of type t, as the server will read it. *)
IsMethodOf(r, t) ==
  \E m \in DOMAIN Interface(t).methods :
    /\ r.slot = Interface(t).methods[m]
    /\ IF m = "enum_params" THEN r.id \in {IdAny, "Props"} ELSE r.value \in Arg(m)

RequestTypes ==
  /\ Queue(requests)
  /\ \A i \in 1 .. Len(requests) :
       /\ requests[i].kind \in {"bind", "create", "destroy", "method"} => requests[i].proxy \in Proxy
       /\ requests[i].kind \in {"bind", "destroy_global"} => requests[i].id \in Id
       /\ requests[i].kind = "create" => requests[i].type \in Kind
       /\ requests[i].kind = "method" =>
            \A t \in Kind : StandsFor(requests[i].proxy, t) => IsMethodOf(requests[i], t)

ServerInv == ServerTypes /\ RequestTypes

(* What is said of the object that a proxy stands for. *)
Contents == {"info", "property", "param", "permissions"}

IsAbout(e, o) == e.name \in Contents /\ e.of = o.type /\ e.gen = o.gen

IsGlobal(e)       == e.to = "registry" /\ e.name = "global"
IsGlobalRemove(e) == e.to = "registry" /\ e.name = "global_remove"

(* What a step of the server may send: answers, what is so after the step, *)
(* and that an object has gone in it.                                      *)
Says(e) ==
  \/ e.to \in Proxy /\ e.name \in {"bound", "removed"}
  \/ e.to = "core" /\ e.name = "error"
  \/ e.to \in Proxy /\ resource'[e.to] # None /\ IsAbout(e, object'[resource'[e.to].id])
  \/ /\ IsGlobal(e) /\ listed' /\ e.id \in Id /\ object'[e.id] # None
     /\ e.gen = object'[e.id].gen /\ e.type = object'[e.id].type
  \/ /\ IsGlobalRemove(e) /\ listed /\ e.id \in Id /\ object[e.id] # None /\ object'[e.id] = None
     /\ e.gen = object[e.id].gen

(* What becomes of the objects in a step that sends es. *)
Becomes(es, i) ==
  \/ object'[i] = None /\ object[i] = None
  \/ /\ object'[i] # None /\ object[i] # None
     /\ object'[i].type = object[i].type /\ object'[i].gen = object[i].gen
  \/ object[i] = None /\ object'[i] # None /\ object'[i].gen = gens' /\ gens' = gens + 1
  \/ /\ object[i] # None /\ object'[i] = None
     /\ listed => \E k \in 1 .. Len(es) : /\ IsGlobalRemove(es[k]) /\ es[k].id = i
                                          /\ es[k].gen = object[i].gen

(* What becomes of what proxies stand for. *)
Rebinds(p) ==
  resource'[p] # None =>
    \/ resource[p] # None /\ resource'[p].id = resource[p].id /\ object[resource[p].id] # None
    \/ /\ requests # <<>> /\ req.proxy = p /\ req.kind = "bind" /\ resource'[p].id = req.id
       /\ object[req.id] # None /\ object[req.id].type = req.type
    \/ /\ requests # <<>> /\ req.proxy = p /\ req.kind = "create"
       /\ object[resource'[p].id] = None /\ object'[resource'[p].id].type = req.type

(* Only get_registry makes the server send registry events. *)
Lists == listed' # listed => listed' = TRUE /\ requests # <<>> /\ req.kind = "get_registry"

(* A step of the server, for a request or unasked. *)
ServerStep(o) ==
  /\ ServerTypes'
  /\ gens' \in {gens, gens + 1} /\ Lists
  /\ \A p \in Proxy : Rebinds(p)
  /\ \E es : /\ Emits(es, o) /\ \A i \in 1 .. Len(es) : Says(es[i])
             /\ \A i \in Id : Becomes(es, i)

-----------------------------------------------------------------------------
USE SessionAssumption, NoneAssumption

LEMMA SetsEnumerate ==
  ASSUME NEW S, IsFiniteSet(S)
  PROVE  /\ Cardinality(S) \in Nat /\ SetToSeq(S) \in [1 .. Cardinality(S) -> S]
         /\ \A x \in S : \E i \in 1 .. Cardinality(S) : SetToSeq(S)[i] = x
<1>1. Cardinality(S) \in Nat /\ ExistsBijection(1 .. Cardinality(S), S)
  BY FS_CardinalityType
<1>2. \E f \in [1 .. Cardinality(S) -> S] : IsInjective(f)
  BY <1>1 DEF ExistsBijection, Bijection, Injection
<1>3. SetToSeq(S) \in [1 .. Cardinality(S) -> S] /\ IsInjective(SetToSeq(S))
  BY <1>2 DEF SetToSeq
<1>4. SetToSeq(S) \in Injection(1 .. Cardinality(S), S)
  BY <1>3 DEF Injection
<1>5. IsFiniteSet(1 .. Cardinality(S)) /\ Cardinality(1 .. Cardinality(S)) = Cardinality(S)
  BY <1>1, FS_Interval
<1>6. SetToSeq(S) \in Surjection(1 .. Cardinality(S), S)
  BY <1>4, <1>5, FS_Injection
<1> QED
  BY <1>1, <1>3, <1>6 DEF Surjection

LEMMA SingleIsQueue ==
  ASSUME NEW e
  PROVE  Queue(<<e>>) /\ Len(<<e>>) = 1 /\ <<e>>[1] = e
<1>1. <<e>> \in Seq({e}) /\ Len(<<e>>) = 1 /\ <<e>>[1] = e
  OBVIOUS
<1> QED
  BY <1>1, SeqIsQueue

LEMMA EmptyIsQueue == Queue(<<>>) /\ Len(<<>>) = 0
<1>1. <<>> \in Seq({}) /\ Len(<<>>) = 0
  OBVIOUS
<1> QED
  BY <1>1, SeqIsQueue

LEMMA BoundIsFinite ==
  ASSUME NEW id
  PROVE  Bound(id) \subseteq Proxy /\ IsFiniteSet(Bound(id))
BY FS_Subset DEF Bound

(* What is said is no done, so that only a sync is answered by one. *)
LEMMA SaidIsNotDone ==
  ASSUME NEW e, Says(e)
  PROVE  ~IsDone(e)
BY DEF Says, IsDone, IsAbout, Contents, IsGlobal, IsGlobalRemove

LEMMA TypesDiffer ==
  ASSUME NEW t
  PROVE  ToStr(ObjectType(t)) = t
BY DEF ToStr, ObjectType

LEMMA SlotHasName ==
  ASSUME NEW table, NEW name, \E i \in DOMAIN table : table[i] = name
  PROVE  table[Slot(table, name)] = name
BY DEF Slot

(* The slot that a method has for the program is its slot on the server:   *)
(* the port's, which goes through the node's table, included.              *)
LEMMA SlotsAgree ==
  ASSUME NEW t \in Kind, NEW m \in DOMAIN Interface(t).methods
  PROVE  TableOf(t)[Interface(t).methods[m]] = m
<1>1. CASE t = "Node"
  <2>1. m \in {"subscribe_params", "enum_params", "set_param", "send_command"}
        /\ Interface(t).methods[m] = Slot(NodeTable, m) /\ TableOf(t) = NodeTable
    BY <1>1 DEF Interface, Node, TableOf
  <2>2. \E i \in DOMAIN NodeTable : NodeTable[i] = m
    <3>1. NodeTable[2] = "subscribe_params" /\ NodeTable[3] = "enum_params"
          /\ NodeTable[4] = "set_param" /\ NodeTable[5] = "send_command" /\ DOMAIN NodeTable = 1 .. 5
      BY DEF NodeTable
    <3> QED
      BY <2>1, <3>1
  <2> QED
    BY <2>1, <2>2, SlotHasName
<1>2. CASE t = "Port"
  <2>1. m \in {"subscribe_params", "enum_params"} /\ TableOf(t) = PortTable
        /\ Interface(t).methods[m] = IF m = "enum_params" THEN Slot(NodeTable, m) ELSE Slot(PortTable, m)
    BY <1>2 DEF Interface, Port, TableOf
  <2>2. PortTable[2] = "subscribe_params" /\ PortTable[3] = "enum_params" /\ DOMAIN PortTable = 1 .. 3
    BY DEF PortTable
  <2>3. Slot(NodeTable, "enum_params") = 3
    BY DEF NodeTable, Slot
  <2>4. CASE m = "enum_params"
    BY <2>1, <2>2, <2>3, <2>4
  <2>5. CASE m = "subscribe_params"
    BY <2>1, <2>2, <2>5, SlotHasName
  <2> QED
    BY <2>1, <2>4, <2>5
<1>3. CASE t = "Device"
  <2>1. m \in {"subscribe_params", "enum_params", "set_param"}
        /\ Interface(t).methods[m] = Slot(DeviceTable, m) /\ TableOf(t) = DeviceTable
    BY <1>3 DEF Interface, Device, TableOf
  <2>2. DeviceTable[2] = "subscribe_params" /\ DeviceTable[3] = "enum_params"
        /\ DeviceTable[4] = "set_param" /\ DOMAIN DeviceTable = 1 .. 4
    BY DEF DeviceTable
  <2> QED
    BY <2>1, <2>2, SlotHasName
<1>4. CASE t = "Client"
  <2>1. m \in {"error", "update_properties", "get_permissions", "update_permissions"}
        /\ Interface(t).methods[m] = Slot(ClientTable, m) /\ TableOf(t) = ClientTable
    BY <1>4 DEF Interface, Client, TableOf
  <2>2. ClientTable[2] = "error" /\ ClientTable[3] = "update_properties"
        /\ ClientTable[4] = "get_permissions" /\ ClientTable[5] = "update_permissions"
        /\ DOMAIN ClientTable = 1 .. 5
    BY DEF ClientTable
  <2> QED
    BY <2>1, <2>2, SlotHasName
<1>5. CASE t = "Metadata"
  <2>1. m \in {"set_property", "clear"}
        /\ Interface(t).methods[m] = Slot(MetadataTable, m) /\ TableOf(t) = MetadataTable
    BY <1>5 DEF Interface, Metadata, TableOf
  <2>2. MetadataTable[2] = "set_property" /\ MetadataTable[3] = "clear" /\ DOMAIN MetadataTable = 1 .. 3
    BY DEF MetadataTable
  <2> QED
    BY <2>1, <2>2, SlotHasName
<1>6. CASE t \in {"Link", "Module", "Factory"}
  BY <1>6 DEF Interface, Link, Module, Factory
<1> QED
  BY <1>1, <1>2, <1>3, <1>4, <1>5, <1>6 DEF Kind

(* These have parameters. *)
LEMMA EnumTypes ==
  ASSUME NEW t \in Kind, "enum_params" \in DOMAIN Interface(t).methods
  PROVE  t \in {"Node", "Port", "Device"}
<1>1. t # "Client"
  BY DEF Interface, Client
<1>2. t # "Metadata"
  BY DEF Interface, Metadata
<1>3. t \notin {"Link", "Module", "Factory"}
  BY DEF Interface, Link, Module, Factory
<1> QED
  BY <1>1, <1>2, <1>3 DEF Kind

-----------------------------------------------------------------------------
(* The events of the server.                                               *)

LEMMA ToProxyIs ==
  ASSUME NEW p, NEW o, NEW name \in Contents, NEW k
  PROVE  /\ ToProxy(p, o, name, k).to = p /\ ToProxy(p, o, name, k).name = name
         /\ ToProxy(p, o, name, k).ordinal = k /\ IsAbout(ToProxy(p, o, name, k), o)
BY DEF ToProxy, Event, With, IsAbout

LEMMA ChangeIs ==
  ASSUME NEW p, NEW o, NEW mask, NEW k
  PROVE  /\ Change(p, o, mask, k).to = p /\ Change(p, o, mask, k).name \in {"info", "property"}
         /\ Change(p, o, mask, k).ordinal = k /\ IsAbout(Change(p, o, mask, k), o)
<1>1. \A key : /\ Property(p, o, key, k).to = p /\ Property(p, o, key, k).name = "property"
               /\ Property(p, o, key, k).ordinal = k /\ IsAbout(Property(p, o, key, k), o)
  BY DEF Property, ToProxy, Event, With, IsAbout, Contents
<1>2. LET e == With(ToProxy(p, o, "info", k), [info |-> RawInfo(o, mask)])
      IN  e.to = p /\ e.name = "info" /\ e.ordinal = k /\ IsAbout(e, o)
  BY DEF ToProxy, Event, With, IsAbout, Contents
<1> QED
  BY <1>1, <1>2 DEF Change

LEMMA ClearedIs ==
  ASSUME NEW p, NEW o, NEW key, NEW k
  PROVE  /\ Property(p, o, key, k).to = p /\ Property(p, o, key, k).name = "property"
         /\ Property(p, o, key, k).ordinal = k /\ IsAbout(Property(p, o, key, k), o)
BY DEF Property, ToProxy, Event, With, IsAbout, Contents

LEMMA ParamIs ==
  ASSUME NEW p, NEW o, NEW seq, NEW k
  PROVE  /\ Param(p, o, seq, k).to = p /\ Param(p, o, seq, k).name = "param"
         /\ Param(p, o, seq, k).ordinal = k /\ IsAbout(Param(p, o, seq, k), o)
         /\ Param(p, o, seq, k).seq = seq
BY DEF Param, ToProxy, Event, With, IsAbout, Contents

LEMMA GlobalIs ==
  ASSUME NEW id, NEW o, NEW k
  PROVE  /\ IsGlobal(Global(id, o, k)) /\ Global(id, o, k).ordinal = k
         /\ Global(id, o, k).id = id /\ Global(id, o, k).gen = o.gen
         /\ Global(id, o, k).type = o.type
BY DEF Global, Event, With, IsGlobal

LEMMA ErrorIs ==
  ASSUME NEW on, NEW k
  PROVE  /\ Error(on, k).to = "core" /\ Error(on, k).name = "error" /\ Error(on, k).id = on
         /\ Error(on, k).ordinal = k
BY DEF Error, Event, With

(* One event for each of a set. *)
LEMMA EachIs ==
  ASSUME NEW S, IsFiniteSet(S), NEW f, f = [i \in 1 .. Cardinality(S) |-> f[i]]
  PROVE  /\ Queue(f) /\ Len(f) = Cardinality(S) /\ Len(f) \in Nat
         /\ \A i \in 1 .. Len(f) : SetToSeq(S)[i] \in S
         /\ \A x \in S : \E i \in 1 .. Len(f) : SetToSeq(S)[i] = x
<1>1. /\ Cardinality(S) \in Nat /\ SetToSeq(S) \in [1 .. Cardinality(S) -> S]
      /\ \A x \in S : \E i \in 1 .. Cardinality(S) : SetToSeq(S)[i] = x
  BY SetsEnumerate
<1>2. Queue(f) /\ Len(f) = Cardinality(S)
  BY <1>1, FunctionIsQueue
<1> QED
  BY <1>1, <1>2

(* A proxy or the registry is told of an object that goes. *)
LEMMA GoneIs ==
  ASSUME ServerTypes, Queue(events), NEW id \in Id, object[id] # None, NEW k, Gone(id, k),
         gens' = gens, listed' = listed
  PROVE  ServerStep(k)
<1> DEFINE Removed(p) == Event(p, "removed", k)
           rs == Each(Bound(id), Removed)
           gr == With(Event("registry", "global_remove", k), [id |-> id, gen |-> object[id].gen])
           gs == IF listed THEN <<gr>> ELSE <<>>
<1>1. /\ events' = events \o (rs \o gs)
      /\ object' = [object EXCEPT ![id] = None]
      /\ resource' = [p \in Proxy |-> IF p \in Bound(id) THEN None ELSE resource[p]]
  BY DEF Gone, Emit
<1>2. /\ Queue(rs)
      /\ \A i \in 1 .. Len(rs) : rs[i].ordinal = k /\ rs[i].to \in Proxy /\ rs[i].name = "removed"
  <2>1. rs = [i \in 1 .. Cardinality(Bound(id)) |-> Event(SetToSeq(Bound(id))[i], "removed", k)]
    BY DEF Each
  <2>2. /\ Queue(rs) /\ Len(rs) = Cardinality(Bound(id)) /\ Len(rs) \in Nat
        /\ \A i \in 1 .. Len(rs) : SetToSeq(Bound(id))[i] \in Bound(id)
    <3>1. rs = [i \in 1 .. Cardinality(Bound(id)) |-> rs[i]]
      BY <2>1
    <3> QED
      BY <3>1, BoundIsFinite, EachIs
  <2>3. \A i \in 1 .. Len(rs) : rs[i] = Event(SetToSeq(Bound(id))[i], "removed", k)
    BY <2>1, <2>2
  <2> HIDE DEF rs
  <2> QED
    BY <2>2, <2>3, BoundIsFinite DEF Event
<1>3. /\ IsGlobalRemove(gr) /\ gr.ordinal = k /\ gr.id = id /\ gr.gen = object[id].gen
  BY DEF With, Event, IsGlobalRemove
<1>4. /\ Queue(gs) /\ Len(gs) = (IF listed THEN 1 ELSE 0)
      /\ listed => gs[1] = gr
  BY SingleIsQueue, EmptyIsQueue
<1> HIDE DEF rs, gr, gs
<1> DEFINE es == rs \o gs
<1>5. /\ Queue(es) /\ Len(es) = Len(rs) + Len(gs) /\ Len(rs) \in Nat /\ Len(gs) \in Nat
      /\ \A i \in 1 .. Len(rs) : es[i] = rs[i]
      /\ \A i \in Len(rs) + 1 .. Len(rs) + Len(gs) : es[i] = gs[i - Len(rs)]
      /\ \A i \in 1 .. Len(gs) : es[Len(rs) + i] = gs[i]
  <2>1. Queue(rs) /\ Queue(gs)
    BY <1>2, <1>4
  <2>2. /\ Queue(rs \o gs) /\ Len(rs \o gs) = Len(rs) + Len(gs)
        /\ Len(rs) \in Nat /\ Len(gs) \in Nat
        /\ \A i \in 1 .. Len(rs) : (rs \o gs)[i] = rs[i]
        /\ \A i \in Len(rs) + 1 .. Len(rs) + Len(gs) : (rs \o gs)[i] = gs[i - Len(rs)]
        /\ \A i \in 1 .. Len(gs) : (rs \o gs)[Len(rs) + i] = gs[i]
    BY <2>1, QueueConcat
  <2> QED
    BY <2>2
<1> HIDE DEF es
<1>6. \A i \in 1 .. Len(es) : \/ es[i].to \in Proxy /\ es[i].name = "removed" /\ es[i].ordinal = k
                              \/ listed /\ es[i] = gr
  <2> TAKE i \in 1 .. Len(es)
  <2>1. CASE i \in 1 .. Len(rs)
    BY <2>1, <1>2, <1>5
  <2>2. CASE i \in Len(rs) + 1 .. Len(rs) + Len(gs)
    BY <2>2, <1>4, <1>5
  <2> QED
    BY <2>1, <2>2, <1>5
<1>7. object'[id] = None /\ \A i \in Id \ {id} : object'[i] = object[i]
  BY <1>1 DEF ServerTypes
<1>8. \A i \in 1 .. Len(es) : Says(es[i])
  BY <1>3, <1>6, <1>7 DEF Says
<1>9. Emits(es, k)
  BY <1>1, <1>3, <1>5, <1>6, <1>8, SaidIsNotDone DEF Emits, es
<1>10. ServerTypes'
  BY <1>1, <1>7 DEF ServerTypes, Bound
<1>11. \A i \in Id : Becomes(es, i)
  <2>1. listed => Len(rs) + 1 \in 1 .. Len(es) /\ es[Len(rs) + 1] = gr
    BY <1>4, <1>5
  <2> QED
    BY <2>1, <1>3, <1>7 DEF Becomes
<1>12. \A p \in Proxy : Rebinds(p)
  BY <1>1 DEF Rebinds, ServerTypes
<1> QED
  BY <1>8, <1>9, <1>10, <1>11, <1>12 DEF ServerStep, Lists

(* Events a step may send. *)
Sayable(es, k) == Queue(es) /\ \A i \in 1 .. Len(es) : es[i].ordinal = k /\ Says(es[i])

LEMMA NothingIsSayable ==
  ASSUME NEW k
  PROVE  Sayable(<<>>, k)
BY EmptyIsQueue DEF Sayable

LEMMA OneIsSayable ==
  ASSUME NEW k, NEW e, e.ordinal = k, Says(e)
  PROVE  Sayable(<<e>>, k)
BY SingleIsQueue DEF Sayable

LEMMA PairIsBoth ==
  ASSUME NEW a, NEW b
  PROVE  <<a>> \o <<b>> = <<a, b>>
<1>1. <<a>> \in Seq({a, b}) /\ <<b>> \in Seq({a, b}) /\ <<a, b>> \in Seq({a, b})
      /\ Len(<<a>>) = 1 /\ Len(<<b>>) = 1 /\ Len(<<a, b>>) = 2
      /\ <<a>>[1] = a /\ <<b>>[1] = b /\ <<a, b>>[1] = a /\ <<a, b>>[2] = b
  OBVIOUS
<1>2. /\ <<a>> \o <<b>> \in Seq({a, b}) /\ Len(<<a>> \o <<b>>) = 2
      /\ (<<a>> \o <<b>>)[1] = a /\ (<<a>> \o <<b>>)[2] = b
  BY <1>1, ConcatProperties
<1>3. \A i \in 1 .. 2 : (<<a>> \o <<b>>)[i] = <<a, b>>[i]
  BY <1>1, <1>2
<1> QED
  BY <1>1, <1>2, <1>3, SeqEqual

LEMMA BothAreSayable ==
  ASSUME NEW k, NEW a, NEW b, Sayable(a, k), Sayable(b, k)
  PROVE  Sayable(a \o b, k)
<1>1. Queue(a) /\ Queue(b)
  BY DEF Sayable
<1>2. /\ Queue(a \o b) /\ Len(a \o b) = Len(a) + Len(b) /\ Len(a) \in Nat /\ Len(b) \in Nat
      /\ \A i \in 1 .. Len(a) : (a \o b)[i] = a[i]
      /\ \A i \in Len(a) + 1 .. Len(a) + Len(b) : (a \o b)[i] = b[i - Len(a)]
  BY ONLY <1>1, QueueConcat
<1>3. \A i \in 1 .. Len(a \o b) : \/ i \in 1 .. Len(a)
                                  \/ i \in Len(a) + 1 .. Len(a) + Len(b) /\ i - Len(a) \in 1 .. Len(b)
  BY <1>2
<1>4. \A i \in 1 .. Len(a) : a[i].ordinal = k /\ Says(a[i])
  BY DEF Sayable
<1>5. \A i \in 1 .. Len(b) : b[i].ordinal = k /\ Says(b[i])
  BY DEF Sayable
<1>6. \A i \in 1 .. Len(a \o b) : (a \o b)[i].ordinal = k /\ Says((a \o b)[i])
  BY <1>2, <1>3, <1>4, <1>5
<1> QED
  BY <1>2, <1>6 DEF Sayable

(* What a step of the server that sends es comes to. *)
LEMMA StepSays ==
  ASSUME NEW k, NEW es, Sayable(es, k), events' = events \o es,
         ServerTypes', gens' \in {gens, gens + 1}, Lists,
         \A p \in Proxy : Rebinds(p), \A i \in Id : Becomes(es, i)
  PROVE  ServerStep(k)
<1>1. Emits(es, k)
  BY SaidIsNotDone DEF Sayable, Emits
<1> QED
  BY <1>1 DEF Sayable, ServerStep

LEMMA FieldValuesAre ==
  /\ \A n \in Nat : n \in FieldValue
  /\ \A n \in Nat : {n} \in FieldValue
  /\ Null \in FieldValue
  /\ "suspended" \in FieldValue /\ "init" \in FieldValue /\ "error" \in FieldValue
<1>1. \A n \in Nat : n \in FieldValue
  BY DEF FieldValue
<1>2. \A n \in Nat : {n} \in FieldValue
  <2>1. \A n \in Nat : {n} \in SUBSET Nat
    OBVIOUS
  <2> QED
    BY <2>1, Zenon DEF FieldValue
<1>3. "suspended" \in FieldValue /\ "init" \in FieldValue /\ "error" \in FieldValue
  <2>1. "suspended" \in State /\ "init" \in State /\ "error" \in State
    BY DEF State
  <2> QED
    BY <2>1, Zenon DEF FieldValue
<1>4. Null \in FieldValue
  BY DEF FieldValue
<1> QED
  BY <1>1, <1>2, <1>3, <1>4

(* An object of which a field gets a value is still that object. *)
LEMMA FieldIsSet ==
  ASSUME NEW t \in Kind, NEW o \in Object(t), NEW f, NEW v \in FieldValue,
         NEW n, n = [o EXCEPT !.fields[f] = v]
  PROVE  n \in Object(t) /\ n # None /\ n.type = o.type /\ n.gen = o.gen /\ n.type = t
<1>1. n.type = o.type /\ n.gen = o.gen /\ n.fields = [o.fields EXCEPT ![f] = v] /\ o.type = t
      /\ n = [type |-> n.type, gen |-> n.gen, fields |-> n.fields]
  BY DEF Object
<1>2. n.fields \in [Fields(t) -> FieldValue]
  BY <1>1 DEF Object
<1>3. n \in Object(t)
  BY <1>1, <1>2 DEF Object
<1> QED
  BY <1>1, <1>3, NoneAssumption

LEMMA NewIsObject ==
  ASSUME NEW t \in Kind, NEW g \in Nat
  PROVE  /\ NewObject(t, g) \in Object(t) /\ NewObject(t, g) # None
         /\ NewObject(t, g).type = t /\ NewObject(t, g).gen = g
<1>1. \A f : Initially(t, f) \in FieldValue
  BY FieldValuesAre DEF Initially
<1>2. NewObject(t, g) \in Object(t)
  BY <1>1 DEF NewObject, Object
<1> QED
  BY <1>2, NoneAssumption DEF NewObject

(* A step that changes a field, and tells those who are bound. *)
LEMMA SetIs ==
  ASSUME ServerTypes, Queue(events), NEW id \in Id, object[id] # None, NEW f,
         NEW v \in FieldValue, NEW k, Set(id, f, v, k), UNCHANGED <<gens, listed, resource>>
  PROVE  ServerStep(k)
<1> DEFINE n == [object[id] EXCEPT !.fields[f] = v]
           Changed(p) == Change(p, n, {f}, k)
           Params(p)  == Param(p, n, 0, k)
           Subscribed == {p \in Bound(id) : f = "params" /\ resource[p].subscribed}
           cs == Each(Bound(id), Changed)
           ps == Each(Subscribed, Params)
<1>1. object' = [object EXCEPT ![id] = n] /\ events' = events \o (cs \o ps)
  BY DEF Set, Emit
<1>2. PICK t \in Kind : object[id] \in Object(t)
  BY DEF ServerTypes
<1>3. n \in Object(t) /\ n # None /\ n.type = object[id].type /\ n.gen = object[id].gen
  BY <1>2, FieldIsSet
<1>4. cs = [i \in 1 .. Cardinality(Bound(id)) |-> Change(SetToSeq(Bound(id))[i], n, {f}, k)]
  BY DEF Each
<1>5. ps = [i \in 1 .. Cardinality(Subscribed) |-> Param(SetToSeq(Subscribed)[i], n, 0, k)]
  BY DEF Each
<1> HIDE DEF n, cs, ps
<1>6. object'[id] = n /\ \A i \in Id \ {id} : object'[i] = object[i]
  BY <1>1 DEF ServerTypes
<1>7. \A p \in Bound(id) : p \in Proxy /\ resource'[p] # None /\ object'[resource'[p].id] = n
  BY <1>6 DEF Bound
<1>8. Sayable(cs, k)
  <2>1. /\ Queue(cs) /\ Len(cs) = Cardinality(Bound(id)) /\ Len(cs) \in Nat
        /\ \A i \in 1 .. Len(cs) : SetToSeq(Bound(id))[i] \in Bound(id)
    <3>1. cs = [i \in 1 .. Cardinality(Bound(id)) |-> cs[i]]
      BY <1>4
    <3> QED
      BY <3>1, BoundIsFinite, EachIs
  <2>2. \A i \in 1 .. Len(cs) : cs[i] = Change(SetToSeq(Bound(id))[i], n, {f}, k)
    BY <1>4, <2>1
  <2> QED
    BY <1>7, <2>1, <2>2, ChangeIs DEF Sayable, Says
<1>9. Sayable(ps, k)
  <2>1. Subscribed \subseteq Bound(id) /\ IsFiniteSet(Subscribed)
    BY BoundIsFinite, FS_Subset
  <2> HIDE DEF Subscribed
  <2>2. /\ Queue(ps) /\ Len(ps) = Cardinality(Subscribed) /\ Len(ps) \in Nat
        /\ \A i \in 1 .. Len(ps) : SetToSeq(Subscribed)[i] \in Subscribed
    <3>1. ps = [i \in 1 .. Cardinality(Subscribed) |-> ps[i]]
      BY <1>5
    <3> QED
      BY <2>1, <3>1, EachIs
  <2>3. \A i \in 1 .. Len(ps) : ps[i] = Param(SetToSeq(Subscribed)[i], n, 0, k)
    BY <1>5, <2>2
  <2> QED
    BY <1>7, <2>1, <2>2, <2>3, ParamIs DEF Sayable, Says
<1>10. Sayable(cs \o ps, k)
  BY <1>8, <1>9, BothAreSayable
<1>11. ServerTypes'
  BY <1>1, <1>3, <1>6 DEF ServerTypes
<1>12. \A i \in Id : Becomes(cs \o ps, i)
  BY <1>3, <1>6 DEF Becomes
<1>13. \A p \in Proxy : Rebinds(p)
  BY DEF Rebinds, ServerTypes
<1> QED
  BY <1>1, <1>10, <1>11, <1>12, <1>13, StepSays DEF Lists

(* What is sent of an object to a new proxy, and of a new object to the    *)
(* registry.                                                               *)
LEMMA FirstIsSayable ==
  ASSUME NEW p \in Proxy, NEW o, NEW k, resource'[p] # None, object'[resource'[p].id] = o
  PROVE  Sayable(First(p, o, k), k)
<1>1. Sayable(<<Change(p, o, Fields(o.type), k)>>, k)
  <2>1. LET e == Change(p, o, Fields(o.type), k) IN e.ordinal = k /\ Says(e)
    BY ChangeIs DEF Says
  <2> QED
    BY <2>1, OneIsSayable
<1> QED
  BY <1>1, NothingIsSayable DEF First

LEMMA AnnounceIsSayable ==
  ASSUME NEW i \in Id, NEW k, object'[i] # None, listed' = listed
  PROVE  Sayable(Announce(i, object'[i], k), k)
<1>1. listed => Sayable(<<Global(i, object'[i], k)>>, k)
  <2>1. listed => LET e == Global(i, object'[i], k) IN e.ordinal = k /\ Says(e)
    BY GlobalIs DEF Says
  <2> QED
    BY <2>1, OneIsSayable
<1> QED
  BY <1>1, NothingIsSayable DEF Announce

LEMMA AnswerIsSayable ==
  ASSUME NEW p \in Proxy, NEW name \in {"bound", "removed"}, NEW k
  PROVE  Sayable(<<Event(p, name, k)>>, k)
BY OneIsSayable DEF Event, Says

LEMMA ErrorIsSayable ==
  ASSUME NEW on, NEW k
  PROVE  Sayable(<<Error(on, k)>>, k)
BY ErrorIs, OneIsSayable DEF Says

LEMMA ParamIsSayable ==
  ASSUME NEW p \in Proxy, NEW o, NEW s, NEW k, resource'[p] # None, object'[resource'[p].id] = o
  PROVE  Sayable(<<Param(p, o, s, k)>>, k)
BY ParamIs, OneIsSayable DEF Says

LEMMA SilenceIsSent ==
  ASSUME Queue(events), events' = events
  PROVE  events' = events \o <<>>
BY DEF Queue

(* The oldest request. *)
LEMMA RequestIs ==
  ASSUME ServerInv, NEW kind, Handles(kind)
  PROVE  /\ requests # <<>> /\ req = requests[1] /\ req.kind = kind /\ requests' = Tail(requests)
         /\ 1 \in 1 .. Len(requests)
         /\ kind \in {"bind", "create", "destroy", "method"} => req.proxy \in Proxy
         /\ kind \in {"bind", "destroy_global"} => req.id \in Id
         /\ kind = "create" => req.type \in Kind
         /\ kind = "method" => \A t \in Kind : StandsFor(req.proxy, t) => IsMethodOf(req, t)
<1>1. Queue(requests) /\ requests # <<>> /\ Head(requests).kind = kind /\ requests' = Tail(requests)
  BY DEF ServerInv, RequestTypes, Handles
<1>2. Head(requests) = requests[1] /\ Len(requests) \in Nat \ {0}
  BY <1>1, QueueTail
<1> QED
  BY <1>1, <1>2 DEF ServerInv, RequestTypes, req

LEMMA GetRegistryIs ==
  ASSUME ServerInv, Queue(events), HandleGetRegistry
  PROVE  ServerStep(req.ordinal)
<1> DEFINE S == {i \in Id : object[i] # None}
           Listed(i) == Global(i, object[i], req.ordinal)
           es == Each(S, Listed)
<1>1. events' = events \o es /\ listed' = TRUE /\ UNCHANGED <<object, gens, resource>>
  BY DEF HandleGetRegistry, Emit
<1>2. es = [i \in 1 .. Cardinality(S) |-> Global(SetToSeq(S)[i], object[SetToSeq(S)[i]], req.ordinal)]
  BY DEF Each
<1>3. S \subseteq Id /\ IsFiniteSet(S) /\ \A i \in S : object[i] # None
  BY FS_Subset
<1> HIDE DEF S, es
<1>4. /\ Queue(es) /\ Len(es) = Cardinality(S) /\ Len(es) \in Nat
      /\ \A i \in 1 .. Len(es) : SetToSeq(S)[i] \in S
  <2>1. es = [i \in 1 .. Cardinality(S) |-> es[i]]
    BY <1>2
  <2> QED
    BY <1>3, <2>1, EachIs
<1>5. Sayable(es, req.ordinal)
  <2>1. \A i \in 1 .. Len(es) :
          /\ SetToSeq(S)[i] \in Id /\ object'[SetToSeq(S)[i]] # None
          /\ es[i] = Global(SetToSeq(S)[i], object'[SetToSeq(S)[i]], req.ordinal)
    BY <1>1, <1>2, <1>3, <1>4
  <2> QED
    BY <1>1, <1>4, <2>1, GlobalIs DEF Sayable, Says
<1>6. ServerTypes'
  BY <1>1 DEF ServerInv, ServerTypes
<1>7. \A i \in Id : Becomes(es, i)
  BY <1>1 DEF Becomes
<1>8. \A p \in Proxy : Rebinds(p)
  BY <1>1 DEF Rebinds, ServerInv, ServerTypes
<1>9. Lists
  BY <1>1, RequestIs DEF Lists, HandleGetRegistry
<1> QED
  BY <1>1, <1>5, <1>6, <1>7, <1>8, <1>9, StepSays

(* A proxy that stands for nothing is told so. *)
LEMMA RefusalIs ==
  ASSUME ServerTypes, NEW p \in Proxy, Refuse(p), listed' = listed
  PROVE  ServerStep(req.ordinal)
<1>1. Sayable(<<Error(p, req.ordinal)>> \o <<Event(p, "removed", req.ordinal)>>, req.ordinal)
  BY ErrorIsSayable, AnswerIsSayable, BothAreSayable
<1>2. <<Error(p, req.ordinal)>> \o <<Event(p, "removed", req.ordinal)>>
        = <<Error(p, req.ordinal), Event(p, "removed", req.ordinal)>>
  BY PairIsBoth
<1>3. events' = events \o <<Error(p, req.ordinal), Event(p, "removed", req.ordinal)>>
      /\ UNCHANGED <<object, gens, resource>>
  BY DEF Refuse, Emit
<1>4. ServerTypes'
  BY <1>3 DEF ServerTypes
<1>5. \A i \in Id : Becomes(<<Error(p, req.ordinal), Event(p, "removed", req.ordinal)>>, i)
  BY <1>3 DEF Becomes
<1>6. \A q \in Proxy : Rebinds(q)
  BY <1>3 DEF Rebinds, ServerTypes
<1> QED
  BY <1>1, <1>2, <1>3, <1>4, <1>5, <1>6, StepSays DEF Lists

LEMMA BindIs ==
  ASSUME ServerInv, Queue(events), HandleBind
  PROVE  ServerStep(req.ordinal)
<1> DEFINE o == object[req.id]
<1>1. /\ requests # <<>> /\ req.kind = "bind" /\ req.proxy \in Proxy /\ req.id \in Id
      /\ listed' = listed
  BY RequestIs DEF HandleBind
<1>2. CASE o # None /\ ToStr(ObjectType(o.type)) = req.type
  <2> DEFINE es == <<Event(req.proxy, "bound", req.ordinal)>> \o First(req.proxy, o, req.ordinal)
  <2>1. /\ resource' = [resource EXCEPT ![req.proxy] =
                          [id |-> req.id, subscribed |-> FALSE, owner |-> FALSE]]
        /\ events' = events \o es /\ object' = object /\ gens' = gens
    BY <1>2 DEF HandleBind, Emit
  <2>2. o.type = req.type
    BY <1>2, TypesDiffer
  <2>3. /\ resource'[req.proxy] # None /\ resource'[req.proxy].id = req.id
        /\ [id |-> req.id, subscribed |-> FALSE, owner |-> FALSE] \in Resource
        /\ \A p \in Proxy \ {req.proxy} : resource'[p] = resource[p]
    <3>1. [id |-> req.id, subscribed |-> FALSE, owner |-> FALSE] \in Resource
      BY <1>1 DEF Resource
    <3> QED
      BY <1>1, <2>1, <3>1 DEF ServerInv, ServerTypes
  <2>4. Sayable(es, req.ordinal)
    <3>1. Sayable(<<Event(req.proxy, "bound", req.ordinal)>>, req.ordinal)
      BY <1>1, AnswerIsSayable
    <3>2. Sayable(First(req.proxy, o, req.ordinal), req.ordinal)
      BY <1>1, <2>1, <2>3, FirstIsSayable
    <3> QED
      BY <3>1, <3>2, BothAreSayable
  <2> HIDE DEF es
  <2>5. ServerTypes'
    BY <1>1, <1>2, <2>1, <2>3 DEF ServerInv, ServerTypes
  <2>6. \A i \in Id : Becomes(es, i)
    BY <2>1 DEF Becomes
  <2>7. \A p \in Proxy : Rebinds(p)
    BY <1>1, <1>2, <2>1, <2>2, <2>3 DEF Rebinds, ServerInv, ServerTypes
  <2> QED
    BY <1>1, <2>1, <2>4, <2>5, <2>6, <2>7, StepSays DEF Lists
<1>3. CASE ~(o # None /\ ToStr(ObjectType(o.type)) = req.type)
  <2>1. Refuse(req.proxy)
    BY <1>3 DEF HandleBind
  <2> QED
    BY <1>1, <2>1, RefusalIs DEF ServerInv
<1> QED
  BY <1>2, <1>3

LEMMA CreateIs ==
  ASSUME ServerInv, Queue(events), HandleCreate
  PROVE  ServerStep(req.ordinal)
<1>1. /\ requests # <<>> /\ req.kind = "create" /\ req.proxy \in Proxy /\ req.type \in Kind
      /\ listed' = listed
  BY RequestIs DEF HandleCreate
<1>2. CASE \A i \in Id : object[i] # None
  <2>1. Refuse(req.proxy)
    BY <1>2 DEF HandleCreate
  <2> QED
    BY <1>1, <2>1, RefusalIs DEF ServerInv
<1>3. CASE ~ \A i \in Id : object[i] # None
  <2> DEFINE i == CHOOSE j \in Id : object[j] = None
             o == NewObject(req.type, gens + 1)
             r == [id |-> i, subscribed |-> FALSE, owner |-> TRUE]
             es == Announce(i, o, req.ordinal) \o <<Event(req.proxy, "bound", req.ordinal)>>
                     \o First(req.proxy, o, req.ordinal)
  <2>1. i \in Id /\ object[i] = None
    BY <1>3
  <2>2. /\ object' = [object EXCEPT ![i] = o] /\ gens' = gens + 1
        /\ resource' = [resource EXCEPT ![req.proxy] = r] /\ events' = events \o es
    BY <1>3 DEF HandleCreate, Emit
  <2>3. gens \in Nat /\ gens + 1 \in Nat
    BY DEF ServerInv, ServerTypes
  <2>4. o \in Object(req.type) /\ o # None /\ o.type = req.type /\ o.gen = gens + 1
    BY <1>1, <2>3, NewIsObject
  <2>5. r \in Resource /\ r.id = i
    BY <2>1 DEF Resource
  <2> HIDE DEF i, o, r
  <2>6. object'[i] = o /\ \A j \in Id \ {i} : object'[j] = object[j]
    BY <2>1, <2>2 DEF ServerInv, ServerTypes
  <2>7. resource'[req.proxy] = r /\ r # None /\ \A p \in Proxy \ {req.proxy} : resource'[p] = resource[p]
    BY <1>1, <2>2, <2>5 DEF ServerInv, ServerTypes
  <2>8. Sayable(es, req.ordinal)
    <3>1. Sayable(Announce(i, o, req.ordinal), req.ordinal)
      BY <1>1, <2>1, <2>4, <2>6, AnnounceIsSayable
    <3>2. Sayable(<<Event(req.proxy, "bound", req.ordinal)>>, req.ordinal)
      BY <1>1, AnswerIsSayable
    <3>3. Sayable(First(req.proxy, o, req.ordinal), req.ordinal)
      BY <1>1, <2>5, <2>6, <2>7, FirstIsSayable
    <3> QED
      BY <3>1, <3>2, <3>3, BothAreSayable
  <2> HIDE DEF es
  <2>9. ServerTypes'
    <3>1. \A j \in Id : object'[j] # None =>
            (\E t \in Kind : object'[j] \in Object(t)) /\ object'[j].gen \in 1 .. gens'
      BY <1>1, <2>2, <2>3, <2>4, <2>6 DEF ServerInv, ServerTypes
    <3>2. \A p \in Proxy : /\ resource'[p] \in Resource \cup {None}
                           /\ resource'[p] # None => object'[resource'[p].id] # None
      BY <2>1, <2>4, <2>5, <2>6, <2>7 DEF ServerInv, ServerTypes, Resource
    <3>3. DOMAIN object' = Id /\ DOMAIN resource' = Proxy /\ gens' \in Nat
          /\ resource' = [p \in Proxy |-> resource'[p]]
      BY <2>2, <2>3 DEF ServerInv, ServerTypes
    <3> QED
      BY <1>1, <3>1, <3>2, <3>3 DEF ServerInv, ServerTypes
  <2>10. \A j \in Id : Becomes(es, j)
    BY <2>1, <2>2, <2>4, <2>6 DEF Becomes
  <2>11. \A p \in Proxy : Rebinds(p)
    BY <1>1, <2>1, <2>4, <2>5, <2>6, <2>7 DEF Rebinds, ServerInv, ServerTypes
  <2> QED
    BY <1>1, <2>2, <2>8, <2>9, <2>10, <2>11, StepSays DEF Lists
<1> QED
  BY <1>2, <1>3

LEMMA DestroyIs ==
  ASSUME ServerInv, Queue(events), HandleDestroy
  PROVE  ServerStep(req.ordinal)
<1> DEFINE r == resource[req.proxy]
<1>1. req.proxy \in Proxy /\ listed' = listed /\ gens' = gens
  BY RequestIs DEF HandleDestroy
<1>2. ASSUME events' = events, object' = object,
             resource' = resource \/ resource' = [resource EXCEPT ![req.proxy] = None]
      PROVE  ServerStep(req.ordinal)
  <2>1. events' = events \o <<>> /\ Sayable(<<>>, req.ordinal)
    BY <1>2, SilenceIsSent, NothingIsSayable
  <2>2. ServerTypes'
    BY <1>1, <1>2 DEF ServerInv, ServerTypes
  <2>3. \A i \in Id : Becomes(<<>>, i)
    BY <1>2 DEF Becomes
  <2>4. \A p \in Proxy : Rebinds(p)
    BY <1>1, <1>2 DEF Rebinds, ServerInv, ServerTypes
  <2> QED
    BY <1>1, <2>1, <2>2, <2>3, <2>4, StepSays DEF Lists
<1>3. CASE r # None /\ r.owner
  <2>1. Gone(r.id, req.ordinal) /\ r.id \in Id /\ object[r.id] # None
    BY <1>1, <1>3 DEF HandleDestroy, ServerInv, ServerTypes, Resource
  <2> QED
    BY <1>1, <2>1, GoneIs DEF ServerInv
<1>4. CASE r = None
  BY <1>2, <1>4 DEF HandleDestroy
<1>5. CASE r # None /\ ~r.owner
  BY <1>2, <1>5 DEF HandleDestroy
<1> QED
  BY <1>3, <1>4, <1>5

LEMMA DestroyGlobalIs ==
  ASSUME ServerInv, Queue(events), HandleDestroyGlobal
  PROVE  ServerStep(req.ordinal)
<1>1. req.id \in Id /\ listed' = listed /\ gens' = gens
  BY RequestIs DEF HandleDestroyGlobal
<1>2. CASE object[req.id] # None
  BY <1>1, <1>2, GoneIs DEF ServerInv, HandleDestroyGlobal
<1>3. CASE object[req.id] = None
  <2>1. events' = events \o <<Error("registry", req.ordinal)>> /\ UNCHANGED <<object, resource>>
    BY <1>3 DEF HandleDestroyGlobal, Emit
  <2>2. Sayable(<<Error("registry", req.ordinal)>>, req.ordinal)
    BY ErrorIsSayable
  <2>3. ServerTypes'
    BY <1>1, <2>1 DEF ServerInv, ServerTypes
  <2>4. \A i \in Id : Becomes(<<Error("registry", req.ordinal)>>, i)
    BY <2>1 DEF Becomes
  <2>5. \A p \in Proxy : Rebinds(p)
    BY <2>1 DEF Rebinds, ServerInv, ServerTypes
  <2> QED
    BY <1>1, <2>1, <2>2, <2>3, <2>4, <2>5, StepSays DEF Lists
<1> QED
  BY <1>2, <1>3

(* A call of a method goes to the slot of the method that was meant. *)
LEMMA MethodIs ==
  ASSUME ServerInv, Queue(events), HandleMethod
  PROVE  ServerStep(req.ordinal)
<1> DEFINE p == req.proxy
           r == resource[p]
           o == object[r.id]
           k == req.ordinal
           name == TableOf(o.type)[req.slot]
<1>1. p \in Proxy /\ listed' = listed /\ gens' = gens
  BY RequestIs DEF HandleMethod
<1>2. ASSUME NEW es, Sayable(es, k), events' = events \o es, object' = object,
             \/ resource' = resource
             \/ r # None /\ resource' = [resource EXCEPT ![p].subscribed = TRUE]
      PROVE  ServerStep(k)
  <2>1. DOMAIN resource' = Proxy /\ resource' = [q \in Proxy |-> resource'[q]]
    BY <1>2 DEF ServerInv, ServerTypes
  <2>2. \A q \in Proxy : \/ resource'[q] = resource[q]
                         \/ /\ resource[q] # None /\ resource'[q] \in Resource
                            /\ resource'[q].id = resource[q].id
    <3>1. CASE resource' = resource
      BY <3>1
    <3>2. CASE r # None /\ resource' = [resource EXCEPT ![p].subscribed = TRUE]
      <4>1. DOMAIN resource = Proxy /\ r \in Resource
        BY <1>1, <3>2 DEF ServerInv, ServerTypes
      <4>2. resource'[p] = [r EXCEPT !.subscribed = TRUE]
            /\ \A q \in Proxy \ {p} : resource'[q] = resource[q]
        BY <1>1, <3>2, <4>1
      <4>3. resource'[p] \in Resource /\ resource'[p].id = r.id
        BY <4>1, <4>2 DEF Resource
      <4> QED
        BY <3>2, <4>2, <4>3
    <3> QED
      BY <1>2, <3>1, <3>2
  <2>3. ServerTypes'
    <3>1. \A q \in Proxy : /\ resource'[q] \in Resource \cup {None}
                           /\ resource'[q] # None => object'[resource'[q].id] # None
      BY <1>2, <2>2 DEF ServerInv, ServerTypes
    <3>2. resource' \in [Proxy -> Resource \cup {None}]
      BY <2>1, <3>1
    <3> QED
      BY <1>1, <1>2, <3>1, <3>2 DEF ServerInv, ServerTypes
  <2>4. \A i \in Id : Becomes(es, i)
    BY <1>2 DEF Becomes
  <2>5. \A q \in Proxy : Rebinds(q)
    BY <2>2 DEF Rebinds, ServerInv, ServerTypes
  <2> QED
    BY <1>1, <1>2, <2>3, <2>4, <2>5, StepSays DEF Lists
<1>3. CASE r = None
  <2>1. events' = events \o <<Error(p, k)>> /\ UNCHANGED <<object, resource>>
    BY <1>3 DEF HandleMethod, Emit
  <2> QED
    BY <1>2, <2>1, ErrorIsSayable
<1>4. CASE r # None
  <2>1. r.id \in Id /\ o # None /\ o.type \in Kind /\ o \in Object(o.type)
    BY <1>1, <1>4 DEF ServerInv, ServerTypes, Resource, Object
  <2>2. PICK m \in DOMAIN Interface(o.type).methods :
          /\ req.slot = Interface(o.type).methods[m]
          /\ IF m = "enum_params" THEN req.id \in {IdAny, "Props"} ELSE req.value \in Arg(m)
    <3>1. IsMethodOf(req, o.type)
      BY <1>4, <2>1, RequestIs DEF HandleMethod, StandsFor
    <3> QED
      BY <3>1 DEF IsMethodOf
  <2>3. name = m
    BY <2>1, <2>2, SlotsAgree
  <2>4. CASE name = "subscribe_params"
    <3>1. /\ resource' = [resource EXCEPT ![p].subscribed = TRUE] /\ object' = object
          /\ events' = events \o <<Param(p, o, 0, k)>>
      BY <1>4, <2>4 DEF HandleMethod, Emit
    <3>2. resource'[p] # None /\ object'[resource'[p].id] = o
      <4>1. resource[p] \in Resource
        BY <1>1, <1>4 DEF ServerInv, ServerTypes
      <4>2. resource'[p] \in Resource /\ resource'[p].id = r.id
        BY <1>1, <3>1, <4>1 DEF ServerInv, ServerTypes, Resource
      <4> QED
        BY <3>1, <4>2
    <3> QED
      BY <1>1, <1>2, <1>4, <3>1, <3>2, ParamIsSayable
  <2>5. CASE name = "enum_params"
    <3>1. /\ resource' = resource /\ object' = object
          /\ events' = events \o <<Param(p, o, req.seq, k)>>
      BY <1>4, <2>2, <2>3, <2>5 DEF HandleMethod, Emit
    <3> QED
      BY <1>1, <1>2, <1>4, <3>1, ParamIsSayable
  <2>6. CASE name = "get_permissions"
    <3> DEFINE e == With(ToProxy(p, o, "permissions", k), [index |-> 0, permissions |-> <<>>])
    <3>1. resource' = resource /\ object' = object /\ events' = events \o <<e>>
      BY <1>4, <2>6 DEF HandleMethod, Emit
    <3>2. e.to = p /\ e.name = "permissions" /\ e.ordinal = k /\ e.of = o.type /\ e.gen = o.gen
      BY DEF ToProxy, Event, With
    <3> HIDE DEF e
    <3>3. Sayable(<<e>>, k)
      <4>1. e.ordinal = k /\ Says(e)
        BY <1>1, <1>4, <3>1, <3>2 DEF Says, IsAbout, Contents
      <4> QED
        BY <4>1, OneIsSayable
    <3> QED
      BY <1>2, <3>1, <3>3
  <2>7. CASE name \in {"set_param", "send_command", "update_properties", "set_property"}
    <3>1. PICK f : Set(r.id, f, req.value, k) /\ resource' = resource
      BY <1>4, <2>7 DEF HandleMethod
    <3>2. req.value \in FieldValue
      <4>1. req.value \in Arg(name)
        BY <2>2, <2>3, <2>7
      <4> QED
        BY <2>7, <4>1, FieldValuesAre DEF Arg
    <3> QED
      BY <1>1, <2>1, <3>1, <3>2, SetIs DEF ServerInv
  <2>8. CASE name = "clear"
    <3> DEFINE c == [o EXCEPT !.fields["key"] = Null]
               Cleared(q) == Property(q, c, Null, k)
               B == Bound(r.id)
               es == Each(B, Cleared)
    <3>1. object' = [object EXCEPT ![r.id] = c] /\ events' = events \o es /\ resource' = resource
      BY <1>4, <2>8 DEF HandleMethod, Emit
    <3>2. c \in Object(o.type) /\ c # None /\ c.type = o.type /\ c.gen = o.gen
      <4>1. Null \in FieldValue
        BY FieldValuesAre
      <4>2. c = [o EXCEPT !.fields["key"] = Null]
        OBVIOUS
      <4> HIDE DEF c
      <4> QED
        BY <2>1, <4>1, <4>2, FieldIsSet
    <3>3. es = [i \in 1 .. Cardinality(B) |-> Property(SetToSeq(B)[i], c, Null, k)]
      BY DEF Each
    <3> HIDE DEF c, es
    <3>4. object'[r.id] = c /\ \A i \in Id \ {r.id} : object'[i] = object[i]
      BY <2>1, <3>1 DEF ServerInv, ServerTypes
    <3>5. \A q \in B : q \in Proxy /\ resource'[q] # None /\ object'[resource'[q].id] = c
      BY <3>1, <3>4 DEF Bound
    <3>6. Sayable(es, k)
      <4>1. B \subseteq Proxy /\ IsFiniteSet(B)
        BY BoundIsFinite
      <4> HIDE DEF B
      <4>2. /\ Queue(es) /\ Len(es) = Cardinality(B) /\ Len(es) \in Nat
            /\ \A i \in 1 .. Len(es) : SetToSeq(B)[i] \in B
        <5>1. es = [i \in 1 .. Cardinality(B) |-> es[i]]
          BY <3>3
        <5> QED
          BY <4>1, <5>1, EachIs
      <4>3. \A i \in 1 .. Len(es) : es[i] = Property(SetToSeq(B)[i], c, Null, k)
        BY <3>3, <4>2
      <4> QED
        BY <3>5, <4>2, <4>3, ClearedIs DEF Sayable, Says
    <3>7. ServerTypes'
      <4>1. \A i \in Id : object'[i] # None =>
              (\E t \in Kind : object'[i] \in Object(t)) /\ object'[i].gen \in 1 .. gens
        BY <2>1, <3>2, <3>4 DEF ServerInv, ServerTypes
      <4>2. \A q \in Proxy : resource[q] # None => object'[resource[q].id] # None
        BY <3>2, <3>4 DEF ServerInv, ServerTypes, Resource
      <4> QED
        BY <1>1, <3>1, <4>1, <4>2 DEF ServerInv, ServerTypes
    <3>8. \A i \in Id : Becomes(es, i)
      BY <2>1, <3>2, <3>4 DEF Becomes
    <3>9. \A q \in Proxy : Rebinds(q)
      BY <3>1 DEF Rebinds, ServerInv, ServerTypes
    <3> QED
      BY <1>1, <3>1, <3>6, <3>7, <3>8, <3>9, StepSays DEF Lists
  <2>9. CASE name \notin {"subscribe_params", "enum_params", "get_permissions", "set_param",
                           "send_command", "update_properties", "set_property", "clear"}
    <3>1. UNCHANGED <<object, resource, events>>
      BY <1>4, <2>9 DEF HandleMethod
    <3> QED
      BY <1>2, <3>1, SilenceIsSent, NothingIsSayable
  <2> QED
    BY <2>4, <2>5, <2>6, <2>7, <2>8, <2>9
<1> QED
  BY <1>3, <1>4

-----------------------------------------------------------------------------
(* What the server does unasked. *)

LEMMA AppearsIs ==
  ASSUME ServerTypes, Queue(events), NEW id \in Id, NEW t \in New, Appears(id, t)
  PROVE  ServerStep(0)
<1> DEFINE o == NewObject(t, gens + 1)
           es == Announce(id, o, 0)
<1>1. /\ object[id] = None /\ object' = [object EXCEPT ![id] = o] /\ gens' = gens + 1
      /\ events' = events \o es /\ resource' = resource /\ listed' = listed
  BY DEF Appears, Unasked, Emit
<1>2. gens \in Nat /\ gens + 1 \in Nat
  BY DEF ServerTypes
<1>3. t \in Kind
  OBVIOUS
<1>4. o \in Object(t) /\ o # None /\ o.gen = gens + 1
  BY <1>2, <1>3, NewIsObject
<1> HIDE DEF o
<1>5. object'[id] = o /\ \A i \in Id \ {id} : object'[i] = object[i]
  BY <1>1 DEF ServerTypes
<1>6. Sayable(es, 0)
  BY <1>1, <1>4, <1>5, AnnounceIsSayable
<1> HIDE DEF es
<1>7. ServerTypes'
  <2>1. \A j \in Id : object'[j] # None =>
          (\E u \in Kind : object'[j] \in Object(u)) /\ object'[j].gen \in 1 .. gens'
    BY <1>1, <1>2, <1>3, <1>4, <1>5 DEF ServerTypes
  <2>2. \A p \in Proxy : resource[p] # None => object'[resource[p].id] # None
    BY <1>4, <1>5 DEF ServerTypes, Resource
  <2> QED
    BY <1>1, <1>2, <2>1, <2>2 DEF ServerTypes
<1>8. \A i \in Id : Becomes(es, i)
  BY <1>1, <1>4, <1>5 DEF Becomes
<1>9. \A p \in Proxy : Rebinds(p)
  BY <1>1 DEF Rebinds, ServerTypes
<1> QED
  BY <1>1, <1>6, <1>7, <1>8, <1>9, StepSays DEF Lists

LEMMA ChangesIs ==
  ASSUME ServerTypes, Queue(events), NEW id \in Id, NEW f, NEW v, Changes(id, f, v)
  PROVE  ServerStep(0)
<1>1. /\ object[id] # None /\ Set(id, f, v, 0) /\ UNCHANGED <<gens, listed, resource>>
      /\ v \in Values(object[id].type, f)
  BY DEF Changes, Unasked
<1>2. v \in FieldValue
  BY <1>1, FieldValuesAre DEF Values
<1> QED
  BY <1>1, <1>2, SetIs

LEMMA VanishesIs ==
  ASSUME ServerTypes, Queue(events), NEW id \in Id, Vanishes(id)
  PROVE  ServerStep(0)
BY GoneIs DEF Vanishes, Unasked

-----------------------------------------------------------------------------
(* The program's side.                                                     *)

ProxyTypes ==
  /\ DOMAIN proxy = Proxy
  /\ \A p \in Proxy :
       /\ DOMAIN proxy[p] = DOMAIN NoProxy
       /\ proxy[p].state \in {"unused", "live", "gone"}
       /\ proxy[p].state = "live" => proxy[p].type \in Kind

(* Of a proxy that was not used yet nothing is under way. *)
UnusedIsFresh ==
  \A p \in Proxy : proxy[p].state = "unused" =>
    /\ resource[p] = None /\ proxy[p].from = None /\ proxy[p].asked = {}
    /\ \A k \in 1 .. Len(requests) :
         requests[k].kind \in {"bind", "create", "method"} => requests[k].proxy # p
    /\ \A k \in 1 .. Len(events) : events[k].to = p => events[k].name \notin Contents

(* A proxy is of the type of the object it stands for, or will. *)
TypesAgree ==
  \A p \in Proxy : proxy[p].state = "live" =>
    \A t \in Kind : StandsFor(p, t) => t = proxy[p].type

EventTypes ==
  \A k \in 1 .. Len(events) :
    /\ events[k].to \in Proxy => events[k].name \in Contents \cup {"bound", "removed"}
    /\ events[k].to \in Proxy /\ events[k].name \in Contents /\ proxy[events[k].to].state = "live" =>
         events[k].of = proxy[events[k].to].type
    /\ events[k].to = "registry" => events[k].name \in RegistryCallbacks /\ events[k].id \in Id
    /\ IsGlobal(events[k]) => events[k].type \in Kind

GlobalTypes ==
  /\ DOMAIN globals = Id
  /\ \A i \in Id : globals[i] # None => \E t \in Kind : globals[i].type = ObjectType(t)

ProxyInv == ProxyTypes /\ UnusedIsFresh /\ TypesAgree /\ EventTypes /\ GlobalTypes

SessionInv == WireInv /\ ServerInv /\ ProxyInv

-----------------------------------------------------------------------------
(* What the program was told has gone, or will be by the first n events. *)
Going(g, n) ==
  g \in told \/ \E k \in 1 .. n : IsGlobalRemove(events[k]) /\ events[k].gen = g

(* An object of which the program will know in time that it has gone. *)
Known(g, i) ==
  Going(g, Len(events)) \/ (listed /\ object[i] # None /\ object[i].gen = g)

(* Nothing is known of the server before get_registry. *)
ListedFirst ==
  /\ registry = {} => ~listed /\ \A k \in 1 .. Len(requests) : requests[k].kind # "get_registry"
  /\ ~listed => /\ \A i \in Id : globals[i] = None
                /\ \A p \in Proxy : proxy[p].from = None
                /\ \A k \in 1 .. Len(events) : ~IsGlobal(events[k])

GlobalsAreKnown ==
  /\ \A k \in 1 .. Len(events) : IsGlobal(events[k]) => Known(events[k].gen, events[k].id)
  /\ \A i \in Id : globals[i] # None => Known(globals[i].gen, i)

(* If a proxy is bound to another object than was meant, or will be, the   *)
(* news that the one meant has gone is ahead of all the events for it.     *)
BoundIsKnown ==
  \A p \in Proxy : proxy[p].from # None =>
    /\ \A k \in 1 .. Len(requests) :
         /\ requests[k].kind = "bind" /\ requests[k].proxy = p => Known(proxy[p].from, requests[k].id)
         /\ requests[k].kind = "create" => requests[k].proxy # p
    /\ resource[p] # None =>
         Going(proxy[p].from, Len(events)) \/ object[resource[p].id].gen = proxy[p].from
    /\ \A k \in 1 .. Len(events) :
         events[k].to = p /\ events[k].name \in Contents =>
           Going(proxy[p].from, k - 1) \/ events[k].gen = proxy[p].from
    /\ proxy[p].shows \in {None, proxy[p].from} \/ proxy[p].from \in told

StaleInv ==
  ListedFirst /\ ("global_remove" \in registry => GlobalsAreKnown /\ BoundIsKnown)

-----------------------------------------------------------------------------
(* A call of enum_params, as the program made it. *)
Asks(r, p, s) ==
  /\ r.kind = "method" /\ r.proxy = p
  /\ "enum_params" \in DOMAIN Interface(proxy[p].type).methods
  /\ r.slot = Interface(proxy[p].type).methods["enum_params"]
  /\ r.seq = s /\ s \in Nat

(* It is answered by the parameters, or by an error if the object has gone. *)
Answers(e, p, s) ==
  \/ e \in ParamEvent(FieldValue) /\ e.to = p /\ e.seq = s
  \/ e.to = "core" /\ e.name = "error" /\ e.id = p

AskedInv ==
  \A p \in Proxy : \A s \in proxy[p].asked :
    /\ proxy[p].state = "live" /\ "param" \in proxy[p].closures
    /\ "enum_params" \in DOMAIN Interface(proxy[p].type).methods
    /\ \/ \E k \in 1 .. Len(requests) : Asks(requests[k], p, s)
       \/ \E k \in 1 .. Len(events) : Answers(events[k], p, s)

-----------------------------------------------------------------------------
(* Steps of the server keep the types of what is under way.                *)

LEMMA Appended ==
  ASSUME NEW q, Queue(q), NEW r, Queue(r), NEW s, s = q \o r
  PROVE  /\ Queue(s) /\ Len(s) = Len(q) + Len(r) /\ Len(q) \in Nat /\ Len(r) \in Nat
         /\ \A k \in 1 .. Len(s) :
              \/ k \in 1 .. Len(q) /\ s[k] = q[k]
              \/ k > Len(q) /\ \E j \in 1 .. Len(r) : s[k] = r[j]
         /\ \A k \in 1 .. Len(q) : k \in 1 .. Len(s) /\ s[k] = q[k]
         /\ \A k \in 1 .. Len(r) : Len(q) + k \in 1 .. Len(s) /\ s[Len(q) + k] = r[k]
<1>1. /\ Queue(s) /\ Len(s) = Len(q) + Len(r) /\ Len(q) \in Nat /\ Len(r) \in Nat
      /\ \A i \in 1 .. Len(q) : s[i] = q[i]
      /\ \A i \in Len(q) + 1 .. Len(q) + Len(r) : s[i] = r[i - Len(q)]
      /\ \A i \in 1 .. Len(r) : s[Len(q) + i] = r[i]
  <2>1. Queue(q) /\ Queue(r)
    OBVIOUS
  <2>2. /\ Queue(q \o r) /\ Len(q \o r) = Len(q) + Len(r) /\ Len(q) \in Nat /\ Len(r) \in Nat
        /\ \A i \in 1 .. Len(q) : (q \o r)[i] = q[i]
        /\ \A i \in Len(q) + 1 .. Len(q) + Len(r) : (q \o r)[i] = r[i - Len(q)]
        /\ \A i \in 1 .. Len(r) : (q \o r)[Len(q) + i] = r[i]
    BY ONLY <2>1, QueueConcat
  <2> QED
    BY <2>2
<1>2. \A k \in 1 .. Len(s) : k \notin 1 .. Len(q) =>
        /\ k > Len(q) /\ k \in Len(q) + 1 .. Len(q) + Len(r) /\ k - Len(q) \in 1 .. Len(r)
  BY <1>1
<1>3. \A k \in 1 .. Len(s) :
        \/ k \in 1 .. Len(q) /\ s[k] = q[k]
        \/ k > Len(q) /\ \E j \in 1 .. Len(r) : s[k] = r[j]
  BY <1>1, <1>2
<1>4. \A k \in 1 .. Len(q) : k \in 1 .. Len(s) /\ s[k] = q[k]
  BY <1>1
<1>5. \A k \in 1 .. Len(r) : Len(q) + k \in 1 .. Len(s) /\ s[Len(q) + k] = r[k]
  BY <1>1
<1> QED
  BY <1>1, <1>3, <1>4, <1>5

(* The requests after a step of the server are among those before. *)
Shortens ==
  /\ Queue(requests') 
  /\ \/ requests' = requests
     \/ /\ requests # <<>> /\ req = requests[1] /\ 1 \in 1 .. Len(requests)
        /\ \A k \in 1 .. Len(requests') : requests'[k] = requests[k + 1] /\ k + 1 \in 1 .. Len(requests)

LEMMA HandlingShortens ==
  ASSUME Queue(requests), NEW kind, Handles(kind)
  PROVE  Shortens
<1>1. requests # <<>> /\ requests' = Tail(requests)
  BY DEF Handles
<1> QED
  BY <1>1, QueueTail DEF Shortens, req

(* What the server may add to the events, in a step of whatever kind. *)
Adds(es) ==
  /\ Queue(es) /\ events' = events \o es
  /\ \A k \in 1 .. Len(es) : Says(es[k]) \/ IsDone(es[k])
  /\ \A i \in Id : Becomes(es, i)
  /\ \A p \in Proxy : Rebinds(p)
  /\ ServerTypes' /\ gens' \in {gens, gens + 1} /\ Lists
  /\ Shortens /\ UNCHANGED programVars

(* A proxy stands for nothing that it did not before, or was about to. *)
LEMMA StandsForAsBefore ==
  ASSUME ServerInv, NEW es, Adds(es), NEW p \in Proxy, NEW t, StandsFor(p, t)'
  PROVE  StandsFor(p, t)
<1>1. CASE resource'[p] # None /\ object'[resource'[p].id].type = t
  <2>1. resource'[p].id \in Id /\ object'[resource'[p].id] # None
    BY <1>1 DEF Adds, ServerTypes, Resource
  <2>2. requests # <<>> => 1 \in 1 .. Len(requests) /\ req = requests[1]
    BY QueueTail DEF ServerInv, RequestTypes, req
  <2>3. Becomes(es, resource'[p].id) /\ Rebinds(p)
    BY <2>1 DEF Adds
  <2>4. CASE /\ resource[p] # None /\ resource'[p].id = resource[p].id
             /\ object[resource[p].id] # None
    BY <1>1, <2>1, <2>3, <2>4 DEF Becomes, StandsFor
  <2>5. CASE /\ requests # <<>> /\ req.proxy = p /\ req.kind = "bind" /\ resource'[p].id = req.id
             /\ object[req.id] # None /\ object[req.id].type = req.type
    BY <1>1, <2>1, <2>2, <2>3, <2>5 DEF Becomes, StandsFor
  <2>6. CASE /\ requests # <<>> /\ req.proxy = p /\ req.kind = "create"
             /\ object[resource'[p].id] = None /\ object'[resource'[p].id].type = req.type
    BY <1>1, <2>2, <2>6 DEF StandsFor
  <2> QED
    BY <1>1, <2>3, <2>4, <2>5, <2>6 DEF Rebinds
<1>2. CASE \E i \in 1 .. Len(requests') :
             requests'[i].kind \in {"bind", "create"} /\ requests'[i].proxy = p /\ requests'[i].type = t
  BY <1>2 DEF Adds, Shortens, StandsFor
<1> QED
  BY <1>1, <1>2 DEF StandsFor

LEMMA ServerKeepsTypes ==
  ASSUME ServerInv, ProxyInv, Queue(events), NEW es, Adds(es)
  PROVE  ServerInv' /\ ProxyInv'
<1>1. \A k \in 1 .. Len(requests') : \E j \in 1 .. Len(requests) : requests'[k] = requests[j]
  BY DEF Adds, Shortens
<1>2. \A k \in 1 .. Len(events') : \/ k \in 1 .. Len(events) /\ events'[k] = events[k]
                                   \/ \E j \in 1 .. Len(es) : events'[k] = es[j]
  BY Appended DEF Adds
<1>3. UNCHANGED <<proxy, globals>>
  BY DEF Adds, programVars
<1>4. \A k \in 1 .. Len(es) : Says(es[k]) \/ IsDone(es[k])
  BY DEF Adds
<1>5. ServerInv'
  <2>1. ASSUME NEW k \in 1 .. Len(requests'), requests'[k].kind = "method",
               NEW p \in Proxy, requests'[k].proxy = p, NEW t \in Kind, StandsFor(p, t)'
        PROVE  IsMethodOf(requests'[k], t)
    <3>1. PICK j \in 1 .. Len(requests) : requests'[k] = requests[j]
      BY <1>1
    <3>2. StandsFor(p, t)
      BY <2>1, StandsForAsBefore
    <3> QED
      BY <2>1, <3>1, <3>2 DEF ServerInv, RequestTypes
  <2>2. \A k \in 1 .. Len(requests') :
          /\ requests'[k].kind \in {"bind", "create", "destroy", "method"} => requests'[k].proxy \in Proxy
          /\ requests'[k].kind \in {"bind", "destroy_global"} => requests'[k].id \in Id
          /\ requests'[k].kind = "create" => requests'[k].type \in Kind
    BY <1>1 DEF ServerInv, RequestTypes
  <2> QED
    <3>1. Queue(requests') /\ ServerTypes'
      BY DEF Adds, Shortens
    <3>2. \A k \in 1 .. Len(requests') : requests'[k].kind = "method" =>
            requests'[k].proxy \in Proxy
              /\ \A t \in Kind : StandsFor(requests[k].proxy, t)' => IsMethodOf(requests'[k], t)
      BY <2>1, <2>2 DEF StandsFor
    <3> QED
      BY <2>2, <3>1, <3>2 DEF ServerInv, RequestTypes
<1>6. ProxyTypes' /\ GlobalTypes'
  BY <1>3 DEF ProxyInv, ProxyTypes, GlobalTypes
<1>7. ASSUME NEW k \in 1 .. Len(es), NEW p \in Proxy, es[k].to = p, es[k].name \in Contents
      PROVE  resource'[p] # None /\ IsAbout(es[k], object'[resource'[p].id])
  BY <1>4, <1>7 DEF Says, IsDone, Contents, IsGlobal, IsGlobalRemove
<1>8. UnusedIsFresh'
  <2> SUFFICES ASSUME NEW p \in Proxy, proxy[p].state = "unused"
               PROVE  /\ resource'[p] = None
                      /\ \A k \in 1 .. Len(requests') :
                           requests'[k].kind \in {"bind", "create", "method"} => requests'[k].proxy # p
                      /\ \A k \in 1 .. Len(events') :
                           events'[k].to = p => events'[k].name \notin Contents
    BY <1>3 DEF ProxyInv, UnusedIsFresh
  <2>1. resource[p] = None
        /\ \A k \in 1 .. Len(requests) :
             requests[k].kind \in {"bind", "create", "method"} => requests[k].proxy # p
    BY DEF ProxyInv, UnusedIsFresh
  <2>3. \A k \in 1 .. Len(events) : events[k].to = p => events[k].name \notin Contents
    BY DEF ProxyInv, UnusedIsFresh
  <2>2. resource'[p] = None
    <3>1. requests # <<>> => 1 \in 1 .. Len(requests) /\ req = requests[1]
      BY QueueTail DEF ServerInv, RequestTypes, req
    <3> QED
      BY <2>1, <3>1 DEF Adds, Rebinds
  <2>4. \A k \in 1 .. Len(requests') :
          requests'[k].kind \in {"bind", "create", "method"} => requests'[k].proxy # p
    BY <1>1, <2>1
  <2>5. \A k \in 1 .. Len(events') : events'[k].to = p => events'[k].name \notin Contents
    BY <1>2, <1>7, <2>2, <2>3
  <2> QED
    BY <2>2, <2>4, <2>5
<1>9. TypesAgree'
  BY <1>3, StandsForAsBefore DEF ProxyInv, TypesAgree
<1>10. EventTypes'
  <2>1. ASSUME NEW k \in 1 .. Len(es)
        PROVE  /\ es[k].to \in Proxy => es[k].name \in Contents \cup {"bound", "removed"}
               /\ es[k].to = "registry" => es[k].name \in RegistryCallbacks /\ es[k].id \in Id
               /\ IsGlobal(es[k]) => es[k].type \in Kind
    <3>1. \A i \in Id : object'[i] # None => object'[i].type \in Kind
      BY DEF Adds, ServerTypes, Object
    <3> QED
      BY <1>4, <3>1 DEF Says, IsDone, IsAbout, IsGlobal, IsGlobalRemove, RegistryCallbacks
  <2>2. ASSUME NEW k \in 1 .. Len(es), NEW p \in Proxy, es[k].to = p, es[k].name \in Contents,
               proxy[p].state = "live"
        PROVE  es[k].of = proxy[p].type
    <3>1. resource'[p] # None /\ es[k].of = object'[resource'[p].id].type
      BY <1>7, <2>2 DEF IsAbout
    <3>2. es[k].of \in Kind
      BY <3>1 DEF Adds, ServerTypes, Object, Resource
    <3>3. StandsFor(p, es[k].of)'
      BY <3>1 DEF StandsFor
    <3> QED
      BY <1>3, <1>9, <2>2, <3>2, <3>3 DEF TypesAgree
  <2>3. \A k \in 1 .. Len(es) : es[k].to \in Proxy /\ es[k].name \in Contents
                                  /\ proxy[es[k].to].state = "live" => es[k].of = proxy[es[k].to].type
    BY <2>2
  <2> SUFFICES ASSUME NEW k \in 1 .. Len(events')
               PROVE  /\ events'[k].to \in Proxy => events'[k].name \in Contents \cup {"bound", "removed"}
                      /\ events'[k].to \in Proxy /\ events'[k].name \in Contents
                           /\ proxy[events'[k].to].state = "live" =>
                             events'[k].of = proxy[events'[k].to].type
                      /\ events'[k].to = "registry" =>
                           events'[k].name \in RegistryCallbacks /\ events'[k].id \in Id
                      /\ IsGlobal(events'[k]) => events'[k].type \in Kind
    BY <1>3 DEF EventTypes, IsGlobal
  <2>4. CASE k \in 1 .. Len(events) /\ events'[k] = events[k]
    BY <2>4 DEF ProxyInv, EventTypes
  <2>5. CASE \E j \in 1 .. Len(es) : events'[k] = es[j]
    BY <2>1, <2>3, <2>5
  <2> QED
    BY <1>2, <2>4, <2>5
<1> QED
  BY <1>5, <1>6, <1>8, <1>9, <1>10 DEF ProxyInv

(* A step of the server is one for a request, unasked, or the answer of a  *)
(* sync; the program's calls reach it in order.                            *)
LEMMA StepAdds ==
  ASSUME SessionInv, NEW k, ServerStep(k), UNCHANGED programVars,
         \/ k = 0 /\ requests' = requests /\ calls' = calls
         \/ \E kind : Handles(kind) /\ kind # "sync" /\ k = req.ordinal
  PROVE  WireInv' /\ \E es : Adds(es)
<1>1. PICK es : /\ Emits(es, k) /\ \A i \in 1 .. Len(es) : Says(es[i])
                /\ \A i \in Id : Becomes(es, i)
  BY DEF ServerStep
<1>2. WireInv'
  BY <1>1, EventsKeepWire DEF SessionInv, programVars
<1>3. Shortens
  <2>1. Queue(requests)
    BY DEF SessionInv, WireInv, RequestsInOrder
  <2> QED
    BY <2>1, HandlingShortens DEF Shortens
<1>4. Adds(es)
  BY <1>1, <1>3 DEF Adds, Emits, ServerStep
<1> QED
  BY <1>2, <1>4

LEMMA SyncAdds ==
  ASSUME SessionInv, HandleSync
  PROVE  WireInv' /\ \E es : Adds(es)
<1> DEFINE done == With(Event("core", "done", req.ordinal), [id |-> CoreId, seq |-> NumberOf(req.ordinal)])
<1>1. events' = events \o <<done>> /\ UNCHANGED <<object, gens, resource, listed>> /\ Handles("sync")
  BY DEF HandleSync, Emit
<1>2. IsDone(done)
  BY DEF IsDone, With, Event
<1> HIDE DEF done
<1>3. Queue(<<done>>) /\ \A i \in 1 .. Len(<<done>>) : IsDone(<<done>>[i])
  BY <1>2, SingleIsQueue
<1>4. Shortens
  BY <1>1, HandlingShortens DEF SessionInv, WireInv, RequestsInOrder
<1>5. ServerTypes' /\ gens' = gens /\ Lists
  BY <1>1 DEF SessionInv, ServerInv, ServerTypes, Lists
<1>6. \A i \in Id : Becomes(<<done>>, i)
  BY <1>1 DEF Becomes
<1>7. \A p \in Proxy : Rebinds(p)
  BY <1>1 DEF Rebinds, SessionInv, ServerInv, ServerTypes
<1>8. Adds(<<done>>)
  BY <1>1, <1>3, <1>4, <1>5, <1>6, <1>7 DEF Adds, Handles
<1> QED
  BY <1>8, SyncKeepsWire DEF SessionInv

LEMMA ServerAdds ==
  ASSUME SessionInv, Server
  PROVE  WireInv' /\ \E es : Adds(es)
<1>1. ServerInv /\ ServerTypes /\ Queue(events)
  BY DEF SessionInv, ServerInv, WireInv, EventsInOrder
<1>2. ASSUME NEW kind \in {"get_registry", "bind", "create", "destroy", "destroy_global", "method"},
             Handles(kind), ServerStep(req.ordinal)
      PROVE  WireInv' /\ \E es : Adds(es)
  BY <1>2, StepAdds DEF Handles
<1>3. ASSUME ServerStep(0), Unasked
      PROVE  WireInv' /\ \E es : Adds(es)
  BY <1>3, StepAdds DEF Unasked
<1>4. CASE HandleGetRegistry
  BY <1>1, <1>2, <1>4, GetRegistryIs DEF HandleGetRegistry
<1>5. CASE HandleSync
  BY <1>5, SyncAdds
<1>6. CASE HandleBind
  BY <1>1, <1>2, <1>6, BindIs DEF HandleBind
<1>7. CASE HandleCreate
  BY <1>1, <1>2, <1>7, CreateIs DEF HandleCreate
<1>8. CASE HandleDestroy
  BY <1>1, <1>2, <1>8, DestroyIs DEF HandleDestroy
<1>9. CASE HandleDestroyGlobal
  BY <1>1, <1>2, <1>9, DestroyGlobalIs DEF HandleDestroyGlobal
<1>10. CASE HandleMethod
  BY <1>1, <1>2, <1>10, MethodIs DEF HandleMethod
<1>11. ASSUME NEW id \in Id, NEW t \in New, Appears(id, t)
       PROVE  WireInv' /\ \E es : Adds(es)
  BY <1>1, <1>3, <1>11, AppearsIs DEF Appears
<1>12. ASSUME NEW id \in Id, Vanishes(id)
       PROVE  WireInv' /\ \E es : Adds(es)
  BY <1>1, <1>3, <1>12, VanishesIs DEF Vanishes
<1>13. ASSUME NEW id \in Id, NEW f, NEW v, Changes(id, f, v)
       PROVE  WireInv' /\ \E es : Adds(es)
  BY <1>1, <1>3, <1>13, ChangesIs DEF Changes
<1> QED
  BY <1>4, <1>5, <1>6, <1>7, <1>8, <1>9, <1>10, <1>11, <1>12, <1>13 DEF Server

LEMMA ServerKeepsSession ==
  ASSUME SessionInv, Server
  PROVE  SessionInv'
<1>1. WireInv' /\ \E es : Adds(es)
  BY ServerAdds
<1> QED
  BY <1>1, ServerKeepsTypes DEF SessionInv, WireInv, EventsInOrder

-----------------------------------------------------------------------------
(* Deliveries.                                                             *)

LEMMA DeliveryIs ==
  ASSUME SessionInv, NEW to, Delivers(to)
  PROVE  /\ events # <<>> /\ to /\ ev = events[1] /\ 1 \in 1 .. Len(events)
         /\ events' = Tail(events) /\ Queue(events')
         /\ Len(events) \in Nat /\ Len(events') = Len(events) - 1
         /\ \A k \in 1 .. Len(events') : events'[k] = events[k + 1] /\ k + 1 \in 1 .. Len(events)
         /\ UNCHANGED <<object, gens, resource, listed, requests, calls>>
<1>1. /\ events # <<>> /\ to /\ events' = Tail(events) /\ Queue(events)
      /\ UNCHANGED <<object, gens, resource, listed, requests, calls>>
  BY DEF SessionInv, WireInv, EventsInOrder, Delivers, serverVars
<1> QED
  BY <1>1, QueueTail DEF ev

(* What a delivery leaves of a proxy. *)
Same(p) ==
  /\ DOMAIN proxy'[p] = DOMAIN proxy[p] /\ proxy'[p].asked \subseteq proxy[p].asked
  /\ proxy'[p].state = proxy[p].state /\ proxy'[p].type = proxy[p].type
  /\ proxy'[p].from = proxy[p].from /\ proxy'[p].closures = proxy[p].closures

LEMMA KeptIs ==
  ASSUME NEW q, DOMAIN q = DOMAIN NoProxy, NEW args
  PROVE  /\ DOMAIN Kept(q, args) = DOMAIN q /\ Kept(q, args).asked \subseteq q.asked
         /\ Kept(q, args).state = q.state /\ Kept(q, args).type = q.type
         /\ Kept(q, args).from = q.from /\ Kept(q, args).closures = q.closures
         /\ \/ Kept(q, args).shows = q.shows
            \/ Kept(q, args).shows = ev.gen /\ ev.name \in Contents
         /\ \A s \in q.asked : s \in Kept(q, args).asked \/ (ev.name = "param" /\ s = args.seq)
<1>1. DOMAIN q = {"state", "type", "from", "shows", "closures", "mirror", "missed", "asked"}
  BY DEF NoProxy
<1>2. ASSUME NEW m, Kept(q, args) = [q EXCEPT !.mirror = m, !.shows = ev.gen], ev.name \in Contents
      PROVE  /\ DOMAIN Kept(q, args) = DOMAIN q /\ Kept(q, args).asked = q.asked
             /\ Kept(q, args).state = q.state /\ Kept(q, args).type = q.type
             /\ Kept(q, args).from = q.from /\ Kept(q, args).closures = q.closures
             /\ Kept(q, args).shows = ev.gen
  BY <1>1, <1>2
<1>3. CASE ev.name \in {"info", "property"}
  <2>1. \E m : Kept(q, args) = [q EXCEPT !.mirror = m, !.shows = ev.gen]
    <3>1. CASE ev.name = "info"
      BY <3>1, Zenon DEF Kept
    <3>2. CASE ev.name = "property"
      BY <3>2, Zenon DEF Kept
    <3> QED
      BY <1>3, <3>1, <3>2
  <2>2. PICK m : Kept(q, args) = [q EXCEPT !.mirror = m, !.shows = ev.gen]
    BY <2>1
  <2>3. ev.name \in Contents
    BY <1>3 DEF Contents
  <2>4. /\ DOMAIN Kept(q, args) = DOMAIN q /\ Kept(q, args).asked = q.asked
        /\ Kept(q, args).state = q.state /\ Kept(q, args).type = q.type
        /\ Kept(q, args).from = q.from /\ Kept(q, args).closures = q.closures
        /\ Kept(q, args).shows = ev.gen
    BY <1>2, <2>2, <2>3
  <2> QED
    BY ONLY <2>3, <2>4
<1>4. CASE ev.name = "param"
  <2> DEFINE a == q.asked \ {args.seq}
  <2>1. Kept(q, args) = [q EXCEPT !.asked = a, !.shows = ev.gen]
    BY <1>4 DEF Kept
  <2>2. a \subseteq q.asked /\ \A s \in q.asked : s \in a \/ s = args.seq
    OBVIOUS
  <2> HIDE DEF a
  <2>3. /\ DOMAIN Kept(q, args) = DOMAIN q /\ Kept(q, args).asked = a
        /\ Kept(q, args).state = q.state /\ Kept(q, args).type = q.type
        /\ Kept(q, args).from = q.from /\ Kept(q, args).closures = q.closures
        /\ Kept(q, args).shows = ev.gen
    BY <1>1, <2>1
  <2>4. ev.name \in Contents
    BY <1>4 DEF Contents
  <2> QED
    BY ONLY <1>4, <2>2, <2>3, <2>4
<1>5. CASE ev.name \notin {"info", "property", "param"}
  <2>1. Kept(q, args) = q
    BY <1>5, Zenon DEF Kept
  <2> QED
    BY ONLY <2>1
<1> QED
  BY <1>3, <1>4, <1>5

(* A proxy is told of the event, or has missed it. *)
LEMMA ProxyIsTold ==
  ASSUME ProxyTypes, DeliverProxy
  PROVE  /\ DOMAIN proxy' = Proxy /\ ev.to \in Proxy
         /\ \A p \in Proxy \ {ev.to} : proxy'[p] = proxy[p]
         /\ \A p \in Proxy : Same(p)
         /\ \A p \in Proxy : \/ proxy'[p].shows = proxy[p].shows
                             \/ p = ev.to /\ proxy'[p].shows = ev.gen /\ ev.name \in Contents
<1> DEFINE q == proxy[ev.to]
           args == IF ev.name \in ProxyCallbacks THEN ProxyListener(q.closures, ev)
                   ELSE Listener(q.type, q.closures, ev)
           n == IF args = Untold THEN [q EXCEPT !.missed = @ \/ ev.name \in {"info", "property"}]
                ELSE Kept(q, args)
<1>1. ev.to \in Proxy /\ proxy' = IF q.state = "gone" THEN proxy ELSE [proxy EXCEPT ![ev.to] = n]
  BY DEF DeliverProxy, Delivers
<1>2. DOMAIN q = DOMAIN NoProxy /\ DOMAIN proxy = Proxy
  BY <1>1 DEF ProxyTypes
<1> HIDE DEF args
<1>3. /\ DOMAIN n = DOMAIN q /\ n.asked \subseteq q.asked
      /\ n.state = q.state /\ n.type = q.type /\ n.from = q.from /\ n.closures = q.closures
      /\ n.shows = q.shows \/ (n.shows = ev.gen /\ ev.name \in Contents)
  <2>1. CASE args = Untold
    BY <1>2, <2>1 DEF NoProxy
  <2>2. CASE args # Untold
    BY <1>2, <2>2, KeptIs
  <2> QED
    BY <2>1, <2>2
<1> HIDE DEF n
<1> QED
  BY <1>1, <1>2, <1>3 DEF Same

LEMMA CoreIsTold ==
  ASSUME ProxyTypes, DeliverCore
  PROVE  /\ DOMAIN proxy' = Proxy /\ ev.to = "core"
         /\ \A p \in Proxy : Same(p) /\ proxy'[p].shows = proxy[p].shows
         /\ \A p \in Proxy : \/ proxy'[p].asked = proxy[p].asked
                             \/ ev.name = "error" /\ ev.id = p /\ proxy'[p].asked = {}
<1>1. ev.to = "core" /\ proxy' = IF ev.name = "error" /\ ev.id \in Proxy
                                 THEN [proxy EXCEPT ![ev.id].asked = {}] ELSE proxy
  BY DEF DeliverCore, Delivers
<1>2. CASE ev.name = "error" /\ ev.id \in Proxy
  BY <1>1, <1>2 DEF ProxyTypes, Same, NoProxy
<1>3. CASE ~(ev.name = "error" /\ ev.id \in Proxy)
  BY <1>1, <1>3 DEF ProxyTypes, Same
<1> QED
  BY <1>2, <1>3

LEMMA RegistryIsTold ==
  ASSUME EventTypes, GlobalTypes, ev = events[1], 1 \in 1 .. Len(events), DeliverRegistry
  PROVE  /\ GlobalTypes' /\ proxy' = proxy /\ ev.to = "registry" /\ ev.id \in Id
         /\ \/ /\ globals' = globals /\ told' = told /\ ~(IsGlobalRemove(ev) /\ "global_remove" \in registry)
            \/ /\ IsGlobal(ev) /\ "global" \in registry /\ told' = told
               /\ globals'[ev.id].gen = ev.gen /\ \A i \in Id \ {ev.id} : globals'[i] = globals[i]
            \/ /\ IsGlobalRemove(ev) /\ "global_remove" \in registry /\ told' = told \cup {ev.gen}
               /\ globals'[ev.id] = None /\ \A i \in Id \ {ev.id} : globals'[i] = globals[i]
<1>1. ev.to = "registry" /\ proxy' = proxy
  BY DEF DeliverRegistry, Delivers
<1>2. ev.name \in RegistryCallbacks /\ ev.id \in Id /\ (IsGlobal(ev) => ev.type \in Kind)
  BY <1>1 DEF EventTypes
<1>3. ev.id # Untold
  BY <1>2
<1>4. CASE ev.name = "global" /\ RegistryListener(registry, ev) # Untold
  <2>1. RegistryListener(registry, ev) = GlobalObject(ev) /\ "global" \in registry
    BY <1>4 DEF RegistryListener, Told
  <2>2. globals' = [globals EXCEPT ![ev.id] = With(GlobalObject(ev), [gen |-> ev.gen])] /\ told' = told
    BY <1>4, <2>1 DEF DeliverRegistry
  <2>3. With(GlobalObject(ev), [gen |-> ev.gen]).type = ObjectType(ev.type)
        /\ With(GlobalObject(ev), [gen |-> ev.gen]).gen = ev.gen
    BY DEF With, GlobalObject
  <2>4. ev.type \in Kind /\ IsGlobal(ev)
    BY <1>1, <1>2, <1>4 DEF IsGlobal
  <2>5. GlobalTypes'
    BY <1>2, <2>2, <2>3, <2>4 DEF GlobalTypes
  <2> QED
    BY <1>1, <1>2, <2>1, <2>2, <2>3, <2>4, <2>5 DEF GlobalTypes
<1>5. CASE ev.name = "global_remove" /\ RegistryListener(registry, ev) # Untold
  <2>1. RegistryListener(registry, ev) = ev.id /\ "global_remove" \in registry
    BY <1>5 DEF RegistryListener, Told
  <2>2. globals' = [globals EXCEPT ![ev.id] = None] /\ told' = told \cup {ev.gen}
    BY <1>5, <2>1 DEF DeliverRegistry
  <2> QED
    BY <1>1, <1>2, <1>5, <2>1, <2>2 DEF GlobalTypes, IsGlobalRemove
<1>6. CASE RegistryListener(registry, ev) = Untold
  <2>1. globals' = globals /\ told' = told
    BY <1>6 DEF DeliverRegistry
  <2>2. ~(IsGlobalRemove(ev) /\ "global_remove" \in registry)
    BY <1>3, <1>6 DEF IsGlobalRemove, RegistryListener, Told
  <2> QED
    BY <1>1, <1>2, <2>1, <2>2 DEF GlobalTypes
<1> QED
  BY <1>2, <1>4, <1>5, <1>6 DEF RegistryCallbacks

LEMMA LoopKeepsWire ==
  ASSUME SessionInv, Loop
  PROVE  WireInv'
<1>1. CASE DeliverCore
  <2>1. /\ events # <<>> /\ ev = events[1] /\ 1 \in 1 .. Len(events) /\ events' = Tail(events)
        /\ requests' = requests /\ calls' = calls /\ ev.to = "core"
    BY <1>1, DeliveryIs DEF DeliverCore, Delivers
  <2>2. CASE IsDone(ev)
    <3>1. ev.id = CoreId /\ ev.seq = NumberOf(ev.ordinal) /\ ev.ordinal \in Nat
      BY <2>1, <2>2 DEF SessionInv, WireInv, EventsInOrder, RequestsInOrder, Handled, Queue
    <3>2. FromRaw(ev.seq) = Async(ev.seq)
      BY <3>1, NumbersAreAsync
    <3>3. CoreListener(CoreCallbacks, ev) = [id |-> CoreId, seq |-> Async(ev.seq)]
      BY <2>2, <3>1, <3>2 DEF CoreListener, CoreCallbacks, Told, IsDone
    <3>4. IF pending # None /\ Async(ev.seq) = pending.seq
          THEN synced' = pending.ordinal /\ pending' = None
          ELSE synced' = synced /\ pending' = pending
      BY <1>1, <2>2, <3>3 DEF DeliverCore, IsDone
    <3> QED
      BY <2>1, <2>2, <3>4, DeliveryKeepsWire DEF SessionInv
  <2>3. CASE ~IsDone(ev)
    <3>1. synced' = synced /\ pending' = pending
      BY <1>1, <2>1, <2>3 DEF DeliverCore, IsDone
    <3> QED
      BY <2>1, <2>3, <3>1, DeliveryKeepsWire DEF SessionInv
  <2> QED
    BY <2>2, <2>3
<1>2. CASE DeliverRegistry \/ DeliverProxy
  <2>1. /\ events # <<>> /\ events' = Tail(events) /\ requests' = requests /\ calls' = calls
        /\ ev.to \in Proxy \cup {"registry"} /\ synced' = synced /\ pending' = pending
    BY <1>2 DEF DeliverRegistry, DeliverProxy, Delivers
  <2>2. ~IsDone(ev)
    BY <2>1 DEF IsDone
  <2> QED
    BY <2>1, <2>2, DeliveryKeepsWire DEF SessionInv
<1> QED
  BY <1>1, <1>2 DEF Loop

LEMMA LoopIs ==
  ASSUME SessionInv, Loop
  PROVE  /\ ev = events[1] /\ 1 \in 1 .. Len(events) /\ Queue(events')
         /\ Len(events) \in Nat /\ Len(events') = Len(events) - 1
         /\ \A k \in 1 .. Len(events') : events'[k] = events[k + 1] /\ k + 1 \in 1 .. Len(events)
         /\ UNCHANGED <<object, gens, resource, listed, requests, calls, registry>>
         /\ GlobalTypes' /\ DOMAIN proxy' = Proxy /\ \A p \in Proxy : Same(p)
<1>1. /\ ev = events[1] /\ 1 \in 1 .. Len(events) /\ Queue(events')
      /\ Len(events) \in Nat /\ Len(events') = Len(events) - 1
      /\ \A k \in 1 .. Len(events') : events'[k] = events[k + 1] /\ k + 1 \in 1 .. Len(events)
      /\ UNCHANGED <<object, gens, resource, listed, requests, calls>>
  BY DeliveryIs DEF Loop, DeliverCore, DeliverRegistry, DeliverProxy
<1>2. registry' = registry
  BY DEF Loop, DeliverCore, DeliverRegistry, DeliverProxy
<1>3. CASE DeliverCore
  <2>1. globals' = globals
    BY <1>3 DEF DeliverCore
  <2> QED
    BY <1>1, <1>2, <1>3, <2>1, CoreIsTold DEF SessionInv, ProxyInv, GlobalTypes
<1>4. CASE DeliverRegistry
  <2>1. GlobalTypes' /\ proxy' = proxy
    BY <1>1, <1>4, RegistryIsTold DEF SessionInv, ProxyInv
  <2> QED
    BY <1>1, <1>2, <2>1 DEF SessionInv, ProxyInv, ProxyTypes, Same
<1>5. CASE DeliverProxy
  <2>1. globals' = globals
    BY <1>5 DEF DeliverProxy
  <2> QED
    BY <1>1, <1>2, <1>5, <2>1, ProxyIsTold DEF SessionInv, ProxyInv, GlobalTypes
<1> QED
  BY <1>3, <1>4, <1>5 DEF Loop

LEMMA LoopKeepsSession ==
  ASSUME SessionInv, Loop
  PROVE  SessionInv'
<1>1. /\ \A k \in 1 .. Len(events') : events'[k] = events[k + 1] /\ k + 1 \in 1 .. Len(events)
      /\ UNCHANGED <<object, gens, resource, listed, requests, calls, registry>>
      /\ GlobalTypes' /\ DOMAIN proxy' = Proxy /\ \A p \in Proxy : Same(p)
  BY LoopIs
<1>2. ServerInv'
  BY <1>1 DEF SessionInv, ServerInv, ServerTypes, RequestTypes, StandsFor
<1>3. ProxyTypes'
  BY <1>1 DEF SessionInv, ProxyInv, ProxyTypes, Same
<1>4. UnusedIsFresh'
  <2> SUFFICES ASSUME NEW p \in Proxy, proxy'[p].state = "unused"
               PROVE  /\ resource[p] = None /\ proxy'[p].from = None /\ proxy'[p].asked = {}
                      /\ \A k \in 1 .. Len(requests) :
                           requests[k].kind \in {"bind", "create", "method"} => requests[k].proxy # p
                      /\ \A k \in 1 .. Len(events') :
                           events'[k].to = p => events'[k].name \notin Contents
    BY <1>1 DEF UnusedIsFresh
  <2>1. /\ resource[p] = None /\ proxy[p].from = None /\ proxy[p].asked = {}
        /\ \A k \in 1 .. Len(requests) :
             requests[k].kind \in {"bind", "create", "method"} => requests[k].proxy # p
        /\ \A k \in 1 .. Len(events) : events[k].to = p => events[k].name \notin Contents
    BY <1>1 DEF SessionInv, ProxyInv, UnusedIsFresh, Same
  <2> QED
    BY <1>1, <2>1 DEF Same
<1>5. TypesAgree'
  BY <1>1 DEF SessionInv, ProxyInv, TypesAgree, StandsFor, Same
<1>6. EventTypes'
  <2>1. \A k \in 1 .. Len(events') :
          events'[k].to \in Proxy => Same(events'[k].to)
    BY <1>1
  <2> QED
    BY <1>1, <2>1 DEF SessionInv, ProxyInv, EventTypes, IsGlobal, Same
<1> QED
  BY <1>1, <1>2, <1>3, <1>4, <1>5, <1>6, LoopKeepsWire DEF SessionInv, ProxyInv

-----------------------------------------------------------------------------
(* Steps of the program.                                                   *)

(* A request that the program may make. *)
Fits(m) ==
  \/ m.kind = "get_registry" /\ registry' # {}
  \/ m.kind = "sync"
  \/ m.kind = "destroy_global" /\ m.id \in Id
  \/ m.kind = "destroy" /\ m.proxy \in Proxy
  \/ /\ m.kind \in {"bind", "create"} /\ m.proxy \in Proxy /\ m.type \in Kind
     /\ proxy[m.proxy].state = "unused" /\ proxy'[m.proxy].state # "unused"
     /\ proxy'[m.proxy].state = "live" => proxy'[m.proxy].type = m.type
     /\ m.kind = "bind" => /\ m.id \in Id
                           /\ proxy'[m.proxy].from # None =>
                                globals[m.id] # None /\ proxy'[m.proxy].from = globals[m.id].gen
     /\ m.kind = "create" => proxy'[m.proxy].from = None
  \/ /\ m.kind = "method" /\ m.proxy \in Proxy /\ proxy[m.proxy].state = "live"
     /\ IsMethodOf(m, proxy[m.proxy].type)

(* What the program makes of a proxy. *)
Ends(p) ==
  /\ DOMAIN proxy'[p] = DOMAIN NoProxy
  /\ proxy'[p].state = "gone" /\ proxy'[p].from = None /\ proxy'[p].asked = {}

Starts(p) ==
  /\ DOMAIN proxy'[p] = DOMAIN NoProxy
  /\ proxy[p].state = "unused" /\ proxy'[p].state = "live" /\ proxy'[p].type \in Kind
  /\ proxy'[p].shows = None /\ proxy'[p].asked = {}
  /\ proxy'[p].from # None => \E i \in Id : globals[i] # None

GoesOn(p) ==
  /\ DOMAIN proxy'[p] = DOMAIN NoProxy
  /\ proxy[p].state = "live" /\ proxy'[p].state = "live"
  /\ proxy'[p].type = proxy[p].type /\ proxy'[p].from = proxy[p].from
  /\ proxy'[p].shows \in {None, proxy[p].shows}
  /\ \/ proxy'[p].asked = {}
     \/ proxy'[p].asked = proxy[p].asked /\ proxy[p].closures \in {{}, proxy'[p].closures}
     \/ \E s : /\ proxy'[p].asked = proxy[p].asked \cup {s}
               /\ proxy'[p].closures = proxy[p].closures /\ "param" \in proxy[p].closures
               /\ \E k \in 1 .. Len(requests') : Asks(requests'[k], p, s)

Moves(p) == proxy'[p] = proxy[p] \/ Ends(p) \/ Starts(p) \/ GoesOn(p)

ProgramStep ==
  /\ Queue(requests')
  /\ \A k \in 1 .. Len(requests) : k \in 1 .. Len(requests') /\ requests'[k] = requests[k]
  /\ \A k \in 1 .. Len(requests') :
       (k \in 1 .. Len(requests) /\ requests'[k] = requests[k]) \/ Fits(requests'[k])
  /\ DOMAIN proxy' = Proxy /\ \A p \in Proxy : Moves(p)
  /\ UNCHANGED <<object, gens, resource, listed, events, globals, told>>
  /\ registry' = registry \/ (registry = {} /\ ~listed)

LEMMA ProgramKeepsTypes ==
  ASSUME ServerInv, ProxyInv, ProgramStep
  PROVE  ServerInv' /\ ProxyInv'
<1>1. /\ Queue(requests')
      /\ \A k \in 1 .. Len(requests') :
           (k \in 1 .. Len(requests) /\ requests'[k] = requests[k]) \/ Fits(requests'[k])
      /\ DOMAIN proxy' = Proxy /\ \A p \in Proxy : Moves(p)
      /\ UNCHANGED <<object, gens, resource, listed, events, globals, told>>
  BY DEF ProgramStep
<1>2. ASSUME NEW p \in Proxy, proxy[p].state # "unused", NEW t, StandsFor(p, t)'
      PROVE  StandsFor(p, t)
  <2>1. ASSUME NEW k \in 1 .. Len(requests'), requests'[k].kind \in {"bind", "create"},
               requests'[k].proxy = p
        PROVE  k \in 1 .. Len(requests) /\ requests'[k] = requests[k]
    BY <1>1, <1>2, <2>1 DEF Fits
  <2> QED
    BY <1>1, <1>2, <2>1 DEF StandsFor
<1>3. \A p \in Proxy : /\ DOMAIN proxy'[p] = DOMAIN NoProxy
                       /\ proxy'[p].state \in {"unused", "live", "gone"}
                       /\ proxy'[p].state = "live" => proxy'[p].type \in Kind
                       /\ proxy'[p].state = "unused" => proxy'[p] = proxy[p]
  BY <1>1 DEF ProxyInv, ProxyTypes, Moves, Ends, Starts, GoesOn
<1>4. ServerInv'
  <2>1. ServerTypes'
    BY <1>1 DEF ServerInv, ServerTypes
  <2>2. ASSUME NEW k \in 1 .. Len(requests'), requests'[k].kind = "method",
               NEW p \in Proxy, requests'[k].proxy = p, NEW t \in Kind, StandsFor(p, t)'
        PROVE  IsMethodOf(requests'[k], t)
    <3>1. CASE k \in 1 .. Len(requests) /\ requests'[k] = requests[k]
      <4>1. proxy[p].state # "unused"
        BY <2>2, <3>1 DEF ProxyInv, UnusedIsFresh
      <4>2. StandsFor(p, t)
        BY <1>2, <2>2, <4>1
      <4> QED
        BY <2>2, <3>1, <4>2 DEF ServerInv, RequestTypes
    <3>2. CASE Fits(requests'[k])
      <4>1. proxy[p].state = "live" /\ IsMethodOf(requests'[k], proxy[p].type)
        BY <2>2, <3>2 DEF Fits
      <4>2. StandsFor(p, t)
        BY <1>2, <2>2, <4>1
      <4> QED
        BY <4>1, <4>2 DEF ProxyInv, TypesAgree
    <3> QED
      BY <1>1, <3>1, <3>2
  <2>3. \A k \in 1 .. Len(requests') :
          /\ requests'[k].kind \in {"bind", "create", "destroy", "method"} => requests'[k].proxy \in Proxy
          /\ requests'[k].kind \in {"bind", "destroy_global"} => requests'[k].id \in Id
          /\ requests'[k].kind = "create" => requests'[k].type \in Kind
    BY <1>1 DEF ServerInv, RequestTypes, Fits
  <2>4. \A k \in 1 .. Len(requests') : requests'[k].kind = "method" =>
          requests'[k].proxy \in Proxy
            /\ \A t \in Kind : StandsFor(requests[k].proxy, t)' => IsMethodOf(requests'[k], t)
    BY <2>2, <2>3 DEF StandsFor
  <2> QED
    BY <1>1, <2>1, <2>3, <2>4 DEF ServerInv, RequestTypes
<1>5. ProxyTypes' /\ GlobalTypes'
  BY <1>1, <1>3 DEF ProxyInv, ProxyTypes, GlobalTypes
<1>6. UnusedIsFresh'
  <2> SUFFICES ASSUME NEW p \in Proxy, proxy'[p].state = "unused"
               PROVE  /\ resource[p] = None /\ proxy'[p].from = None /\ proxy'[p].asked = {}
                      /\ \A k \in 1 .. Len(requests') :
                           requests'[k].kind \in {"bind", "create", "method"} => requests'[k].proxy # p
                      /\ \A k \in 1 .. Len(events) :
                           events[k].to = p => events[k].name \notin Contents
    BY <1>1 DEF UnusedIsFresh
  <2>1. proxy'[p] = proxy[p] /\ proxy[p].state = "unused"
    BY <1>3
  <2>2. \A k \in 1 .. Len(requests') : Fits(requests'[k]) =>
          (requests'[k].kind \in {"bind", "create", "method"} => requests'[k].proxy # p)
    BY <2>1 DEF Fits
  <2> QED
    BY <1>1, <2>1, <2>2 DEF ProxyInv, UnusedIsFresh
<1>7. TypesAgree'
  <2> SUFFICES ASSUME NEW p \in Proxy, proxy'[p].state = "live", NEW t \in Kind, StandsFor(p, t)'
               PROVE  t = proxy'[p].type
    BY DEF TypesAgree
  <2>1. CASE proxy[p].state # "unused"
    <3>1. StandsFor(p, t)
      BY <1>2, <2>1
    <3>2. proxy[p].state = "live" /\ proxy'[p].type = proxy[p].type
      BY <1>1, <2>1 DEF Moves, Ends, Starts, GoesOn
    <3> QED
      BY <3>1, <3>2 DEF ProxyInv, TypesAgree
  <2>2. CASE proxy[p].state = "unused"
    <3>1. resource'[p] = None
      BY <1>1, <2>2 DEF ProxyInv, UnusedIsFresh
    <3>2. PICK k \in 1 .. Len(requests') :
            /\ requests'[k].kind \in {"bind", "create"} /\ requests'[k].proxy = p
            /\ requests'[k].type = t
      BY <3>1 DEF StandsFor
    <3>3. Fits(requests'[k])
      BY <1>1, <2>2, <3>2 DEF ProxyInv, UnusedIsFresh
    <3> QED
      BY <3>2, <3>3 DEF Fits
  <2> QED
    BY <2>1, <2>2
<1>8. EventTypes'
  <2>1. \A k \in 1 .. Len(events) :
          events[k].to \in Proxy /\ events[k].name \in Contents /\ proxy'[events[k].to].state = "live" =>
            events[k].of = proxy'[events[k].to].type
    BY <1>1 DEF ProxyInv, UnusedIsFresh, EventTypes, Moves, Ends, Starts, GoesOn
  <2> QED
    BY <1>1, <2>1 DEF ProxyInv, EventTypes, IsGlobal
<1> QED
  BY <1>4, <1>5, <1>6, <1>7, <1>8 DEF ProxyInv

(* What the requests of one call are on the wire. *)
Made(m) == With(m, [ordinal |-> calls + 1])

LEMMA RequestsAre ==
  ASSUME SessionInv, NEW rs, Queue(rs), Request(rs)
  PROVE  /\ Queue(requests')
         /\ \A k \in 1 .. Len(requests) : k \in 1 .. Len(requests') /\ requests'[k] = requests[k]
         /\ \A k \in 1 .. Len(requests') :
              \/ k \in 1 .. Len(requests) /\ requests'[k] = requests[k]
              \/ \E i \in 1 .. Len(rs) : requests'[k] = With(rs[i], [ordinal |-> calls + i])
         /\ \A i \in 1 .. Len(rs) :
              \E k \in 1 .. Len(requests') : requests'[k] = With(rs[i], [ordinal |-> calls + i])
         /\ UNCHANGED <<object, gens, resource, listed, events>>
<1> DEFINE ns == [i \in DOMAIN rs |-> With(rs[i], [ordinal |-> calls + i])]
<1>1. Len(rs) \in Nat /\ DOMAIN rs = 1 .. Len(rs)
  BY QueueIs
<1>2. Queue(ns) /\ Len(ns) = Len(rs)
  BY <1>1, FunctionIsQueue
<1>3. \A i \in 1 .. Len(rs) : ns[i] = With(rs[i], [ordinal |-> calls + i])
  BY <1>1
<1>4. requests' = requests \o ns /\ UNCHANGED <<object, gens, resource, listed, events>>
  BY DEF Request, serverVars
<1> HIDE DEF ns
<1>5. Queue(requests)
  BY DEF SessionInv, WireInv, RequestsInOrder
<1>6. /\ Queue(requests')
      /\ \A k \in 1 .. Len(requests') :
           \/ k \in 1 .. Len(requests) /\ requests'[k] = requests[k]
           \/ k > Len(requests) /\ \E j \in 1 .. Len(ns) : requests'[k] = ns[j]
      /\ \A k \in 1 .. Len(requests) : k \in 1 .. Len(requests') /\ requests'[k] = requests[k]
      /\ \A k \in 1 .. Len(ns) :
           Len(requests) + k \in 1 .. Len(requests') /\ requests'[Len(requests) + k] = ns[k]
  <2>0. Queue(ns) /\ Queue(requests)
    BY <1>2, <1>5
  <2>1. requests' = requests \o ns
    BY <1>4
  <2>2. /\ Queue(requests \o ns) /\ Len(requests \o ns) = Len(requests) + Len(ns)
        /\ Len(requests) \in Nat /\ Len(ns) \in Nat
        /\ \A i \in 1 .. Len(requests) : (requests \o ns)[i] = requests[i]
        /\ \A i \in Len(requests) + 1 .. Len(requests) + Len(ns) :
             (requests \o ns)[i] = ns[i - Len(requests)]
        /\ \A i \in 1 .. Len(ns) : (requests \o ns)[Len(requests) + i] = ns[i]
    BY ONLY <2>0, QueueConcat
  <2>3. /\ Queue(requests') /\ Len(requests') = Len(requests) + Len(ns)
        /\ Len(requests) \in Nat /\ Len(ns) \in Nat
        /\ \A i \in 1 .. Len(requests) : requests'[i] = requests[i]
        /\ \A i \in Len(requests) + 1 .. Len(requests) + Len(ns) :
             requests'[i] = ns[i - Len(requests)]
        /\ \A i \in 1 .. Len(ns) : requests'[Len(requests) + i] = ns[i]
    BY ONLY <2>1, <2>2
  <2>4. \A k \in 1 .. Len(requests') : k \notin 1 .. Len(requests) =>
          /\ k > Len(requests) /\ k \in Len(requests) + 1 .. Len(requests) + Len(ns)
          /\ k - Len(requests) \in 1 .. Len(ns)
    BY ONLY <2>3
  <2> QED
    BY ONLY <2>3, <2>4
<1>7. \A k \in 1 .. Len(requests') :
        \/ k \in 1 .. Len(requests) /\ requests'[k] = requests[k]
        \/ \E i \in 1 .. Len(rs) : requests'[k] = With(rs[i], [ordinal |-> calls + i])
  BY <1>2, <1>3, <1>6
<1>8. \A i \in 1 .. Len(rs) :
        \E k \in 1 .. Len(requests') : requests'[k] = With(rs[i], [ordinal |-> calls + i])
  BY <1>2, <1>3, <1>6
<1> QED
  BY <1>4, <1>6, <1>7, <1>8

LEMMA OneRequest ==
  ASSUME SessionInv, NEW r, {"kind", "ordinal"} \cap DOMAIN r = {"kind"}, Request(<<r>>),
         synced' = synced,
         \/ pending' = pending
         \/ r.kind = "sync"
            /\ pending' = [seq |-> Async(NumberOf(calls + 1)), ordinal |-> calls + 1]
  PROVE  /\ WireInv' /\ Queue(requests')
         /\ \A k \in 1 .. Len(requests) : k \in 1 .. Len(requests') /\ requests'[k] = requests[k]
         /\ \A k \in 1 .. Len(requests') :
              (k \in 1 .. Len(requests) /\ requests'[k] = requests[k]) \/ requests'[k] = Made(r)
         /\ \E k \in 1 .. Len(requests') : requests'[k] = Made(r)
         /\ UNCHANGED <<object, gens, resource, listed, events>>
<1>1. Queue(<<r>>) /\ Len(<<r>>) = 1 /\ <<r>>[1] = r
  BY SingleIsQueue
<1>2. WireInv'
  <2>1. \A i \in 1 .. Len(<<r>>) : {"kind", "ordinal"} \cap DOMAIN <<r>>[i] = {"kind"}
    BY <1>1
  <2> QED
    BY <1>1, <2>1, RequestsKeepWire DEF SessionInv
<1>3. /\ Queue(requests')
      /\ \A k \in 1 .. Len(requests) : k \in 1 .. Len(requests') /\ requests'[k] = requests[k]
      /\ \A k \in 1 .. Len(requests') :
           \/ k \in 1 .. Len(requests) /\ requests'[k] = requests[k]
           \/ \E i \in 1 .. Len(<<r>>) : requests'[k] = With(<<r>>[i], [ordinal |-> calls + i])
      /\ \A i \in 1 .. Len(<<r>>) :
           \E k \in 1 .. Len(requests') : requests'[k] = With(<<r>>[i], [ordinal |-> calls + i])
      /\ UNCHANGED <<object, gens, resource, listed, events>>
  BY <1>1, RequestsAre
<1>4. 1 \in 1 .. Len(<<r>>) /\ \A i \in 1 .. Len(<<r>>) : i = 1
  BY <1>1
<1> QED
  BY <1>1, <1>2, <1>3, <1>4 DEF Made

LEMMA TwoRequests ==
  ASSUME SessionInv, NEW a, {"kind", "ordinal"} \cap DOMAIN a = {"kind"},
         NEW b, {"kind", "ordinal"} \cap DOMAIN b = {"kind"}, Request(<<a, b>>),
         synced' = synced, pending' = pending
  PROVE  /\ WireInv' /\ Queue(requests')
         /\ \A k \in 1 .. Len(requests) : k \in 1 .. Len(requests') /\ requests'[k] = requests[k]
         /\ \A k \in 1 .. Len(requests') :
              \/ k \in 1 .. Len(requests) /\ requests'[k] = requests[k]
              \/ requests'[k] = Made(a)
              \/ requests'[k] = With(b, [ordinal |-> calls + 2])
         /\ UNCHANGED <<object, gens, resource, listed, events>>
<1>1. Queue(<<a, b>>) /\ Len(<<a, b>>) = 2 /\ <<a, b>>[1] = a /\ <<a, b>>[2] = b
  <2>1. <<a, b>> \in Seq({a, b}) /\ Len(<<a, b>>) = 2 /\ <<a, b>>[1] = a /\ <<a, b>>[2] = b
    OBVIOUS
  <2> QED
    BY <2>1, SeqIsQueue
<1>2. \A i \in 1 .. Len(<<a, b>>) : i = 1 \/ i = 2
  BY <1>1
<1>3. WireInv'
  <2>1. \A i \in 1 .. Len(<<a, b>>) : {"kind", "ordinal"} \cap DOMAIN <<a, b>>[i] = {"kind"}
    BY <1>1, <1>2
  <2> QED
    BY <1>1, <2>1, RequestsKeepWire DEF SessionInv
<1>4. /\ Queue(requests')
      /\ \A k \in 1 .. Len(requests) : k \in 1 .. Len(requests') /\ requests'[k] = requests[k]
      /\ \A k \in 1 .. Len(requests') :
           \/ k \in 1 .. Len(requests) /\ requests'[k] = requests[k]
           \/ \E i \in 1 .. Len(<<a, b>>) : requests'[k] = With(<<a, b>>[i], [ordinal |-> calls + i])
      /\ UNCHANGED <<object, gens, resource, listed, events>>
  BY <1>1, RequestsAre
<1> QED
  BY <1>1, <1>2, <1>3, <1>4 DEF Made

LEMMA NewProxyIs ==
  ASSUME NEW type, NEW from
  PROVE  /\ DOMAIN NewProxy(type, from) = DOMAIN NoProxy
         /\ NewProxy(type, from).state = "live" /\ NewProxy(type, from).type = type
         /\ NewProxy(type, from).from = from /\ NewProxy(type, from).shows = None
         /\ NewProxy(type, from).asked = {} /\ NewProxy(type, from).closures = {}
BY DEF NewProxy, NoProxy

LEMMA GoneProxyIs ==
  LET g == [NoProxy EXCEPT !.state = "gone"]
  IN  /\ DOMAIN g = DOMAIN NoProxy /\ g.state = "gone" /\ g.from = None /\ g.asked = {}
BY DEF NoProxy

(* A step with one request, or two, or none. *)
LEMMA StepOfOne ==
  ASSUME SessionInv, NEW r, {"kind", "ordinal"} \cap DOMAIN r = {"kind"}, Request(<<r>>),
         synced' = synced, globals' = globals, told' = told,
         \/ pending' = pending
         \/ r.kind = "sync"
            /\ pending' = [seq |-> Async(NumberOf(calls + 1)), ordinal |-> calls + 1],
         registry' = registry \/ (registry = {} /\ ~listed),
         Fits(Made(r)), DOMAIN proxy' = Proxy, \A p \in Proxy : Moves(p)
  PROVE  WireInv' /\ ProgramStep
<1>1. /\ WireInv' /\ Queue(requests')
      /\ \A k \in 1 .. Len(requests) : k \in 1 .. Len(requests') /\ requests'[k] = requests[k]
      /\ \A k \in 1 .. Len(requests') :
           (k \in 1 .. Len(requests) /\ requests'[k] = requests[k]) \/ requests'[k] = Made(r)
      /\ UNCHANGED <<object, gens, resource, listed, events>>
  BY OneRequest
<1>2. \A k \in 1 .. Len(requests') : requests'[k] = Made(r) => Fits(requests'[k])
  OBVIOUS
<1> QED
  BY <1>1, <1>2 DEF ProgramStep

LEMMA StepOfTwo ==
  ASSUME SessionInv, NEW a, {"kind", "ordinal"} \cap DOMAIN a = {"kind"},
         NEW b, {"kind", "ordinal"} \cap DOMAIN b = {"kind"}, Request(<<a, b>>),
         UNCHANGED <<synced, globals, told, pending, registry>>,
         Fits(Made(a)), Fits(With(b, [ordinal |-> calls + 2])),
         DOMAIN proxy' = Proxy, \A p \in Proxy : Moves(p)
  PROVE  WireInv' /\ ProgramStep
<1>1. /\ WireInv' /\ Queue(requests')
      /\ \A k \in 1 .. Len(requests) : k \in 1 .. Len(requests') /\ requests'[k] = requests[k]
      /\ \A k \in 1 .. Len(requests') :
           \/ k \in 1 .. Len(requests) /\ requests'[k] = requests[k]
           \/ requests'[k] = Made(a)
           \/ requests'[k] = With(b, [ordinal |-> calls + 2])
      /\ UNCHANGED <<object, gens, resource, listed, events>>
  BY TwoRequests
<1>2. \A k \in 1 .. Len(requests') :
        requests'[k] = Made(a) \/ requests'[k] = With(b, [ordinal |-> calls + 2]) => Fits(requests'[k])
  OBVIOUS
<1> QED
  BY <1>1, <1>2 DEF ProgramStep

LEMMA StepOfNone ==
  ASSUME SessionInv, UNCHANGED <<serverVars, requests, events, calls, registry, globals, told, pending, synced>>,
         DOMAIN proxy' = Proxy, \A p \in Proxy : Moves(p)
  PROVE  WireInv' /\ ProgramStep
<1>1. WireInv'
  BY DEF SessionInv, WireInv, RequestsInOrder, EventsInOrder, SyncIsComing, SyncedIsOver, Handled, InFlight
<1> QED
  BY <1>1 DEF ProgramStep, serverVars, SessionInv, WireInv, RequestsInOrder

LEMMA DroppingFits ==
  ASSUME NEW p \in Proxy, NEW k
  PROVE  /\ Fits(With(Dropping(p), [ordinal |-> k]))
         /\ {"kind", "ordinal"} \cap DOMAIN Dropping(p) = {"kind"}
BY DEF Dropping, With, Fits

LEMMA BindKeeps ==
  ASSUME SessionInv, NEW p \in Proxy, NEW id \in Id, NEW type, Bind(p, id, type)
  PROVE  WireInv' /\ ProgramStep
<1> DEFINE bind == [kind |-> "bind", proxy |-> p, id |-> id, type |-> ToStr(globals[id].type)]
           fits == ObjectType(type) = globals[id].type
           gone == [NoProxy EXCEPT !.state = "gone"]
<1>1. /\ proxy[p].state = "unused" /\ globals[id] # None
      /\ Request(IF fits THEN <<bind>> ELSE <<bind, Dropping(p)>>)
      /\ proxy' = [proxy EXCEPT ![p] = IF fits THEN NewProxy(type, globals[id].gen) ELSE gone]
      /\ UNCHANGED <<registry, globals, told, pending, synced>>
  BY DEF Bind
<1>2. PICK t \in Kind : globals[id].type = ObjectType(t)
  BY <1>1 DEF SessionInv, ProxyInv, GlobalTypes
<1>3. ToStr(globals[id].type) = t /\ (fits => type = t)
  <2>1. ToStr(globals[id].type) = t
    BY <1>2, TypesDiffer
  <2>2. fits => ToStr(ObjectType(type)) = t
    BY <2>1
  <2> QED
    BY <2>1, <2>2, TypesDiffer
<1>4. DOMAIN proxy = Proxy /\ DOMAIN proxy' = Proxy /\ \A q \in Proxy \ {p} : proxy'[q] = proxy[q]
  BY <1>1 DEF SessionInv, ProxyInv, ProxyTypes
<1>5. proxy'[p] = IF fits THEN NewProxy(type, globals[id].gen) ELSE gone
  BY <1>1, <1>4
<1>6. {"kind", "ordinal"} \cap DOMAIN bind = {"kind"}
      /\ Made(bind).kind = "bind" /\ Made(bind).proxy = p /\ Made(bind).id = id /\ Made(bind).type = t
  BY <1>3 DEF Made, With
<1> HIDE DEF bind, fits
<1>7. CASE fits
  <2>1. proxy'[p] = NewProxy(type, globals[id].gen) /\ type = t /\ Request(<<bind>>)
    BY <1>1, <1>3, <1>5, <1>7
  <2>4. /\ DOMAIN proxy'[p] = DOMAIN NoProxy /\ proxy'[p].state = "live" /\ proxy'[p].type = t
        /\ proxy'[p].from = globals[id].gen /\ proxy'[p].shows = None /\ proxy'[p].asked = {}
    BY <2>1, NewProxyIs
  <2>2. Starts(p)
    BY <1>1, <2>4 DEF Starts
  <2>3. Fits(Made(bind))
    BY <1>1, <1>6, <2>4 DEF Fits
  <2> QED
    BY <1>1, <1>4, <1>6, <2>1, <2>2, <2>3, StepOfOne DEF Moves
<1>8. CASE ~fits
  <2>1. proxy'[p] = gone /\ Request(<<bind, Dropping(p)>>)
    BY <1>1, <1>5, <1>8
  <2>2. Ends(p)
    BY <2>1, GoneProxyIs DEF Ends
  <2>3. Fits(Made(bind))
    BY <1>1, <1>6, <2>1, GoneProxyIs DEF Fits
  <2> QED
    BY <1>1, <1>4, <1>6, <2>1, <2>2, <2>3, DroppingFits, StepOfTwo DEF Moves
<1> QED
  BY <1>7, <1>8

LEMMA CreateKeeps ==
  ASSUME SessionInv, NEW p \in Proxy, NEW type \in New, CreateObject(p, type)
  PROVE  WireInv' /\ ProgramStep
<1> DEFINE create == [kind |-> "create", proxy |-> p, type |-> type]
<1>1. /\ proxy[p].state = "unused" /\ Request(<<create>>)
      /\ proxy' = [proxy EXCEPT ![p] = NewProxy(type, None)]
      /\ UNCHANGED <<registry, globals, told, pending, synced>>
  BY DEF CreateObject
<1>2. /\ DOMAIN proxy' = Proxy /\ \A q \in Proxy \ {p} : proxy'[q] = proxy[q]
      /\ proxy'[p] = NewProxy(type, None)
  BY <1>1 DEF SessionInv, ProxyInv, ProxyTypes
<1>3. {"kind", "ordinal"} \cap DOMAIN create = {"kind"}
      /\ Made(create).kind = "create" /\ Made(create).proxy = p /\ Made(create).type = type
  BY DEF Made, With
<1> HIDE DEF create
<1>4. type \in Kind
  OBVIOUS
<1>5. Starts(p)
  BY <1>1, <1>2, <1>4, NewProxyIs DEF Starts
<1>6. Fits(Made(create))
  BY <1>1, <1>2, <1>3, <1>4, NewProxyIs DEF Fits
<1> QED
  BY <1>1, <1>2, <1>3, <1>5, <1>6, StepOfOne DEF Moves

LEMMA DropKeeps ==
  ASSUME SessionInv, NEW p \in Proxy, DestroyObject(p) \/ DropProxy(p)
  PROVE  WireInv' /\ ProgramStep
<1> DEFINE gone == [NoProxy EXCEPT !.state = "gone"]
<1>1. /\ proxy' = [proxy EXCEPT ![p] = gone]
      /\ UNCHANGED <<registry, globals, told, pending, synced>>
  BY DEF DestroyObject, DropProxy
<1>2. /\ DOMAIN proxy' = Proxy /\ \A q \in Proxy \ {p} : proxy'[q] = proxy[q] /\ proxy'[p] = gone
  BY <1>1 DEF SessionInv, ProxyInv, ProxyTypes
<1>3. DOMAIN proxy' = Proxy /\ \A q \in Proxy : Moves(q)
  <2>1. proxy'[p] = gone
    BY <1>1 DEF SessionInv, ProxyInv, ProxyTypes
  <2>2. Ends(p)
    BY <2>1, GoneProxyIs DEF Ends
  <2> QED
    BY <1>2, <2>2 DEF Moves
<1>4. CASE DestroyObject(p)
  <2>1. Request(<<Dropping(p), Dropping(p)>>)
    BY <1>4 DEF DestroyObject, Dropping
  <2> QED
    BY <1>1, <1>3, <2>1, DroppingFits, StepOfTwo DEF Made
<1>5. CASE DropProxy(p)
  <2>1. Request(<<Dropping(p)>>)
    BY <1>5 DEF DropProxy
  <2> QED
    BY <1>1, <1>3, <2>1, DroppingFits, StepOfOne DEF Made
<1> QED
  BY <1>4, <1>5

LEMMA NothingMoves ==
  ASSUME SessionInv, proxy' = proxy
  PROVE  DOMAIN proxy' = Proxy /\ \A p \in Proxy : Moves(p)
BY DEF SessionInv, ProxyInv, ProxyTypes, Moves

LEMMA MethodKeeps ==
  ASSUME SessionInv, NEW p \in Proxy, NEW name \in DOMAIN Interface(proxy[p].type).methods,
         NEW arg \in Arg(name), Method(p, name, arg)
  PROVE  WireInv' /\ ProgramStep
<1> DEFINE slot == Interface(proxy[p].type).methods[name]
           call == [kind |-> "method", proxy |-> p, slot |-> slot]
           r == With(call, IF name = "enum_params" THEN [seq |-> calls + 1, id |-> EnumId(arg)]
                           ELSE [value |-> arg])
<1>1. /\ proxy[p].state = "live" /\ Request(<<r>>)
      /\ proxy' = IF name = "enum_params" /\ "param" \in proxy[p].closures
                  THEN [proxy EXCEPT ![p].asked = @ \cup {calls + 1}] ELSE proxy
      /\ UNCHANGED <<registry, globals, told, pending, synced>>
  BY DEF Method
<1>2. /\ {"kind", "ordinal"} \cap DOMAIN r = {"kind"}
      /\ Made(r).kind = "method" /\ Made(r).proxy = p /\ Made(r).slot = slot
      /\ name = "enum_params" => Made(r).seq = calls + 1 /\ Made(r).id = EnumId(arg)
      /\ name # "enum_params" => Made(r).value = arg
  <2>1. CASE name = "enum_params"
    BY <2>1 DEF Made, With
  <2>2. CASE name # "enum_params"
    BY <2>2 DEF Made, With
  <2> QED
    BY <2>1, <2>2
<1> HIDE DEF r
<1>3. Fits(Made(r))
  <2>1. name = "enum_params" => EnumId(arg) \in {IdAny, "Props"}
    BY DEF Arg, EnumId
  <2>2. IsMethodOf(Made(r), proxy[p].type)
    BY <1>2, <2>1 DEF IsMethodOf
  <2> QED
    BY <1>1, <1>2, <2>2 DEF Fits
<1>4. DOMAIN proxy' = Proxy /\ \A q \in Proxy : Moves(q)
  <2>1. CASE name = "enum_params" /\ "param" \in proxy[p].closures
    <3>1. proxy' = [proxy EXCEPT ![p] = [proxy[p] EXCEPT !.asked = proxy[p].asked \cup {calls + 1}]]
      BY <1>1, <2>1
    <3>2. DOMAIN proxy = Proxy /\ DOMAIN proxy[p] = DOMAIN NoProxy
      BY DEF SessionInv, ProxyInv, ProxyTypes
    <3>3. DOMAIN proxy[p] = {"state", "type", "from", "shows", "closures", "mirror", "missed", "asked"}
      BY <3>2 DEF NoProxy
    <3>4. /\ DOMAIN proxy' = Proxy /\ \A q \in Proxy \ {p} : proxy'[q] = proxy[q]
          /\ proxy'[p] = [proxy[p] EXCEPT !.asked = proxy[p].asked \cup {calls + 1}]
      BY <3>1, <3>2
    <3>5. /\ DOMAIN proxy'[p] = DOMAIN proxy[p]
          /\ proxy'[p].asked = proxy[p].asked \cup {calls + 1}
          /\ proxy'[p].state = proxy[p].state /\ proxy'[p].type = proxy[p].type
          /\ proxy'[p].from = proxy[p].from /\ proxy'[p].shows = proxy[p].shows
          /\ proxy'[p].closures = proxy[p].closures
      BY <3>3, <3>4
    <3>6. \E k \in 1 .. Len(requests') : requests'[k] = Made(r)
      BY <1>1, <1>2, OneRequest
    <3>7. Asks(Made(r), p, calls + 1)
      <4>1. calls + 1 \in Nat
        BY DEF SessionInv, WireInv, RequestsInOrder
      <4> QED
        BY <1>2, <2>1, <4>1 DEF Asks
    <3>8. \E k \in 1 .. Len(requests') : Asks(requests'[k], p, calls + 1)
      BY <3>6, <3>7
    <3>9. GoesOn(p)
      BY <1>1, <2>1, <3>2, <3>5, <3>8 DEF GoesOn
    <3> QED
      BY <3>4, <3>9 DEF Moves
  <2>2. CASE ~(name = "enum_params" /\ "param" \in proxy[p].closures)
    BY <1>1, <2>2, NothingMoves
  <2> QED
    BY <2>1, <2>2
<1> QED
  BY <1>1, <1>2, <1>3, <1>4, StepOfOne

LEMMA ListenKeeps ==
  ASSUME SessionInv, NEW p \in Proxy, Unlisten(p) \/ \E c : Listen(p, c)
  PROVE  WireInv' /\ ProgramStep
<1>1. /\ UNCHANGED <<serverVars, requests, events, calls, registry, globals, told, pending, synced>>
      /\ proxy[p].state = "live"
  BY DEF Unlisten, Listen
<1>2. DOMAIN proxy = Proxy /\ DOMAIN proxy[p] = DOMAIN NoProxy
  BY DEF SessionInv, ProxyInv, ProxyTypes
<1>3. DOMAIN NoProxy = {"state", "type", "from", "shows", "closures", "mirror", "missed", "asked"}
  BY DEF NoProxy
<1>4. CASE Unlisten(p)
  <2> DEFINE n == NewProxy(proxy[p].type, proxy[p].from)
  <2>1. proxy' = [proxy EXCEPT ![p] = [n EXCEPT !.missed = TRUE]]
    BY <1>4 DEF Unlisten
  <2>2. /\ DOMAIN n = DOMAIN NoProxy /\ n.state = "live" /\ n.type = proxy[p].type
        /\ n.from = proxy[p].from /\ n.shows = None /\ n.asked = {}
    BY NewProxyIs
  <2> HIDE DEF n
  <2>3. /\ DOMAIN proxy' = Proxy /\ \A q \in Proxy \ {p} : proxy'[q] = proxy[q]
        /\ proxy'[p] = [n EXCEPT !.missed = TRUE]
    BY <1>2, <2>1
  <2>4. GoesOn(p)
    BY <1>1, <1>3, <2>2, <2>3 DEF GoesOn
  <2> QED
    BY <1>1, <2>3, <2>4, StepOfNone DEF Moves
<1>5. ASSUME NEW c, Listen(p, c)
      PROVE  WireInv' /\ ProgramStep
  <2>1. proxy[p].closures = {} /\ proxy' = [proxy EXCEPT ![p] = [proxy[p] EXCEPT !.closures = c]]
    BY <1>5 DEF Listen
  <2>2. /\ DOMAIN proxy' = Proxy /\ \A q \in Proxy \ {p} : proxy'[q] = proxy[q]
        /\ proxy'[p] = [proxy[p] EXCEPT !.closures = c]
    BY <1>2, <2>1
  <2>3. GoesOn(p)
    BY <1>1, <1>2, <1>3, <2>1, <2>2 DEF GoesOn
  <2> QED
    BY <1>1, <2>2, <2>3, StepOfNone DEF Moves
<1> QED
  BY <1>4, <1>5

LEMMA ProgramSteps ==
  ASSUME SessionInv, Program
  PROVE  WireInv' /\ ProgramStep
<1>1. ASSUME NEW c \in (SUBSET RegistryCallbacks) \ {{}}, GetRegistry(c)
      PROVE  WireInv' /\ ProgramStep
  <2> DEFINE r == [kind |-> "get_registry"]
  <2>1. /\ ~listed /\ registry = {} /\ Request(<<r>>) /\ registry' # {}
        /\ UNCHANGED <<globals, told, proxy, pending, synced>>
    <3>1. c # {} /\ registry' = c
      BY <1>1 DEF GetRegistry
    <3> QED
      BY <1>1, <3>1 DEF GetRegistry
  <2>2. {"kind", "ordinal"} \cap DOMAIN r = {"kind"} /\ Made(r).kind = "get_registry"
    BY DEF Made, With
  <2> HIDE DEF r
  <2>3. Fits(Made(r))
    BY <2>1, <2>2 DEF Fits
  <2> QED
    BY <2>1, <2>2, <2>3, NothingMoves, StepOfOne
<1>2. CASE CoreSync
  <2> DEFINE r == [kind |-> "sync"]
  <2>1. /\ Request(<<r>>) /\ UNCHANGED <<registry, globals, told, proxy, synced>>
        /\ pending' = [seq |-> IntoAsyncResult(NumberOf(calls + 1)), ordinal |-> calls + 1]
    BY <1>2 DEF CoreSync
  <2>2. {"kind", "ordinal"} \cap DOMAIN r = {"kind"} /\ Made(r).kind = "sync" /\ r.kind = "sync"
    BY DEF Made, With
  <2> HIDE DEF r
  <2>3. Fits(Made(r))
    BY <2>2 DEF Fits
  <2>4. calls + 1 \in Nat
    BY DEF SessionInv, WireInv, RequestsInOrder
  <2>5. pending' = [seq |-> Async(NumberOf(calls + 1)), ordinal |-> calls + 1]
    BY <2>1, <2>4, NumbersAreAsync
  <2> QED
    BY <2>1, <2>2, <2>3, <2>5, NothingMoves, StepOfOne
<1>3. ASSUME NEW id \in Id, DestroyGlobal(id)
      PROVE  WireInv' /\ ProgramStep
  <2> DEFINE r == [kind |-> "destroy_global", id |-> id]
  <2>1. Request(<<r>>) /\ UNCHANGED <<registry, globals, told, proxy, pending, synced>>
    BY <1>3 DEF DestroyGlobal, programVars
  <2>2. {"kind", "ordinal"} \cap DOMAIN r = {"kind"}
        /\ Made(r).kind = "destroy_global" /\ Made(r).id = id
    BY DEF Made, With
  <2> HIDE DEF r
  <2>3. Fits(Made(r))
    BY <2>2 DEF Fits
  <2> QED
    BY <2>1, <2>2, <2>3, NothingMoves, StepOfOne
<1>4. ASSUME NEW p \in Proxy, NEW m \in DOMAIN Interface(proxy[p].type).methods, NEW a \in Arg(m),
             Method(p, m, a)
      PROVE  WireInv' /\ ProgramStep
  BY <1>4, MethodKeeps
<1>5. ASSUME NEW p \in Proxy, NEW id \in Id, NEW t, Bind(p, id, t)
      PROVE  WireInv' /\ ProgramStep
  BY <1>5, BindKeeps
<1>6. ASSUME NEW p \in Proxy, NEW t \in New, CreateObject(p, t)
      PROVE  WireInv' /\ ProgramStep
  BY <1>6, CreateKeeps
<1>7. ASSUME NEW p \in Proxy, DestroyObject(p) \/ DropProxy(p)
      PROVE  WireInv' /\ ProgramStep
  BY <1>7, DropKeeps
<1>8. ASSUME NEW p \in Proxy, Unlisten(p) \/ \E c : Listen(p, c)
      PROVE  WireInv' /\ ProgramStep
  BY <1>8, ListenKeeps
<1> QED
  BY <1>1, <1>2, <1>3, <1>4, <1>5, <1>6, <1>7, <1>8 DEF Program

LEMMA ProgramKeepsSession ==
  ASSUME SessionInv, Program
  PROVE  SessionInv'
BY ProgramSteps, ProgramKeepsTypes DEF SessionInv

-----------------------------------------------------------------------------
(* The invariant of a session.                                             *)

LEMMA SessionInit ==
  ASSUME Init
  PROVE  SessionInv /\ Len(requests) = 0 /\ Len(events) = 1 /\ ~IsGlobal(events[1])
<1> DEFINE first == [to |-> "core", name |-> "info", ordinal |-> 0,
                     info |-> [name |-> "text", mask |-> {"props"}, props |-> Null]]
<1>1. requests = <<>> /\ events = <<first>> /\ calls = 0 /\ pending = None /\ synced = 0
  BY DEF Init
<1>2. first.to = "core" /\ first.name = "info" /\ first.ordinal = 0
  OBVIOUS
<1> HIDE DEF first
<1>3. /\ Queue(requests) /\ Len(requests) = 0 /\ Queue(events) /\ Len(events) = 1
      /\ events[1] = first /\ \A k \in 1 .. Len(events) : k = 1
  BY <1>1, EmptyIsQueue, SingleIsQueue
<1>4. WireInv
  BY <1>1, <1>2, <1>3 DEF WireInv, RequestsInOrder, EventsInOrder, SyncIsComing, SyncedIsOver, Handled, IsDone
<1>5. ServerInv
  <2>1. PICK t \in Types : object = [i \in Id |-> IF i = 1 THEN NewObject(t, 1) ELSE None]
    BY DEF Init
  <2>2. t \in Kind
    OBVIOUS
  <2>3. NewObject(t, 1) \in Object(t) /\ NewObject(t, 1).gen = 1
    BY <2>2, NewIsObject
  <2>4. gens = 1 /\ resource = [p \in Proxy |-> None] /\ listed = FALSE
    BY DEF Init
  <2>5. DOMAIN object = Id /\ \A i \in Id : object[i] # None => object[i] = NewObject(t, 1)
    BY <2>1
  <2>6. /\ \A i \in Id : object[i] # None => \E u \in Kind : object[i] \in Object(u)
        /\ \A i \in Id : object[i] # None => object[i].gen \in 1 .. gens
    BY <2>2, <2>3, <2>4, <2>5
  <2>7. ServerTypes
    BY <2>4, <2>5, <2>6 DEF ServerTypes
  <2> QED
    BY <1>3, <2>7 DEF ServerInv, RequestTypes
<1>6. ProxyInv
  <2>1. /\ proxy = [p \in Proxy |-> NoProxy] /\ globals = [i \in Id |-> None]
        /\ resource = [p \in Proxy |-> None]
    BY DEF Init
  <2>2. NoProxy.state = "unused" /\ NoProxy.from = None /\ NoProxy.asked = {}
    BY DEF NoProxy
  <2>3. ProxyTypes /\ UnusedIsFresh /\ TypesAgree /\ GlobalTypes
    BY <1>2, <1>3, <2>1, <2>2 DEF ProxyTypes, UnusedIsFresh, TypesAgree, GlobalTypes
  <2>4. EventTypes
    BY <1>2, <1>3 DEF EventTypes, IsGlobal
  <2> QED
    BY <2>3, <2>4 DEF ProxyInv
<1> QED
  BY <1>2, <1>3, <1>4, <1>5, <1>6 DEF SessionInv, IsGlobal

LEMMA StutteringKeepsSession ==
  ASSUME SessionInv, UNCHANGED vars
  PROVE  SessionInv'
<1>1. UNCHANGED <<object, gens, resource, listed, requests, events, calls, registry, globals,
                  told, proxy, pending, synced>>
  BY DEF vars, serverVars, programVars
<1>2. WireInv'
  BY <1>1 DEF SessionInv, WireInv, RequestsInOrder, EventsInOrder, SyncIsComing, SyncedIsOver, Handled, InFlight
<1>3. ServerInv'
  BY <1>1 DEF SessionInv, ServerInv, ServerTypes, RequestTypes, StandsFor
<1>4. ProxyInv'
  BY <1>1 DEF SessionInv, ProxyInv, ProxyTypes, UnusedIsFresh, TypesAgree, EventTypes, GlobalTypes,
              StandsFor, IsGlobal
<1> QED
  BY <1>2, <1>3, <1>4 DEF SessionInv

(* Whatever is under way fits: requests and events are in order, what a    *)
(* proxy stands for on the server is of the type the program believes, and *)
(* so is what is said of it.                                               *)
THEOREM SessionIsSound == Spec => []SessionInv
<1>1. Init => SessionInv
  BY SessionInit
<1>2. SessionInv /\ [Next]_vars => SessionInv'
  BY ProgramKeepsSession, ServerKeepsSession, LoopKeepsSession, StutteringKeepsSession DEF Next
<1> QED
  BY <1>1, <1>2, PTL DEF Spec

(* When the done of a sync was seen, every request made before it has been *)
(* handled, and every event that was sent for those is delivered.          *)
THEOREM SyncIsABarrier == Spec => []BarrierHolds
<1>1. SessionInv => BarrierHolds
  <2> SUFFICES ASSUME SessionInv, NEW o \in InFlight
               PROVE  o > synced
    BY DEF BarrierHolds
  <2>1. /\ Queue(requests) /\ Queue(events) /\ Handled \in Nat /\ synced \in 0 .. Handled
        /\ \A i \in 1 .. Len(requests) : requests[i].ordinal = Handled + i
        /\ \A i \in 1 .. Len(events) : events[i].ordinal = 0 \/ events[i].ordinal > synced
    BY DEF SessionInv, WireInv, RequestsInOrder, EventsInOrder, SyncedIsOver, Handled, Queue
  <2>2. /\ o # 0
        /\ \/ \E i \in 1 .. Len(requests) : requests[i].ordinal = o
           \/ \E i \in 1 .. Len(events) : events[i].ordinal = o
    BY <2>1, InFlightIs
  <2> QED
    BY <2>1, <2>2
<1> QED
  BY <1>1, SessionIsSound, PTL

(* No listener is given an event of another interface than its proxy's,    *)
(* although global ids are used again and a bind may name one that was.    *)
THEOREM EventsAreOfTheType == Spec => []EventsFitTheProxy
<1>1. SessionInv => EventsFitTheProxy
  <2> SUFFICES ASSUME SessionInv, NEW e \in ToSet(events), e.to \in Proxy, e.name \notin ProxyCallbacks,
                      proxy[e.to].state = "live"
               PROVE  e.of = proxy[e.to].type
    BY DEF EventsFitTheProxy
  <2>1. PICK k \in 1 .. Len(events) : e = events[k]
    BY QueueIs DEF SessionInv, WireInv, EventsInOrder
  <2>2. e.name \in Contents
    BY <2>1 DEF SessionInv, ProxyInv, EventTypes, ProxyCallbacks
  <2> QED
    BY <2>1, <2>2 DEF SessionInv, ProxyInv, EventTypes
<1> QED
  BY <1>1, SessionIsSound, PTL

-----------------------------------------------------------------------------
(* A global id that is used again.                                         *)

LEMMA ProgramKeepsStale ==
  ASSUME SessionInv, StaleInv, ProgramStep
  PROVE  StaleInv'
<1>1. /\ \A k \in 1 .. Len(requests') :
           (k \in 1 .. Len(requests) /\ requests'[k] = requests[k]) \/ Fits(requests'[k])
      /\ \A p \in Proxy : Moves(p)
      /\ UNCHANGED <<object, gens, resource, listed, events, globals, told>>
      /\ registry' = registry \/ (registry = {} /\ ~listed)
  BY DEF ProgramStep
<1>2. /\ registry = {} => ~listed /\ \A k \in 1 .. Len(requests) : requests[k].kind # "get_registry"
      /\ ~listed => /\ \A i \in Id : globals[i] = None
                    /\ \A p \in Proxy : proxy[p].from = None
                    /\ \A k \in 1 .. Len(events) : ~IsGlobal(events[k])
  BY DEF StaleInv, ListedFirst
<1>3. ~listed => \A p \in Proxy : proxy'[p].from = None
  BY <1>1, <1>2 DEF Moves, Ends, Starts, GoesOn
<1>4. ListedFirst'
  <2>1. registry' = {} => \A k \in 1 .. Len(requests') : requests'[k].kind # "get_registry"
    BY <1>1, <1>2 DEF Fits
  <2>2. registry' = {} => ~listed
    BY <1>1, <1>2
  <2> QED
    BY <1>1, <1>2, <1>3, <2>1, <2>2 DEF ListedFirst, IsGlobal
<1>5. CASE "global_remove" \notin registry'
  BY <1>4, <1>5 DEF StaleInv
<1>6. CASE registry = {} /\ ~listed
  <2>1. GlobalsAreKnown'
    BY <1>1, <1>2, <1>6 DEF GlobalsAreKnown, IsGlobal
  <2>2. BoundIsKnown'
    BY <1>3, <1>6 DEF BoundIsKnown
  <2> QED
    BY <1>4, <2>1, <2>2 DEF StaleInv
<1>7. CASE "global_remove" \in registry' /\ registry' = registry
  <2>1. GlobalsAreKnown /\ BoundIsKnown
    BY <1>7 DEF StaleInv
  <2>2. GlobalsAreKnown'
    BY <1>1, <2>1 DEF GlobalsAreKnown, Known, Going, IsGlobal, IsGlobalRemove
  <2>3. BoundIsKnown'
    <3> SUFFICES ASSUME NEW p \in Proxy, proxy'[p].from # None
                 PROVE  /\ \A k \in 1 .. Len(requests') :
                             /\ requests'[k].kind = "bind" /\ requests'[k].proxy = p =>
                                  Known(proxy'[p].from, requests'[k].id)
                             /\ requests'[k].kind = "create" => requests'[k].proxy # p
                        /\ resource[p] # None =>
                             \/ Going(proxy'[p].from, Len(events))
                             \/ object[resource[p].id].gen = proxy'[p].from
                        /\ \A k \in 1 .. Len(events) :
                             events[k].to = p /\ events[k].name \in Contents =>
                               Going(proxy'[p].from, k - 1) \/ events[k].gen = proxy'[p].from
                        /\ proxy'[p].shows \in {None, proxy'[p].from} \/ proxy'[p].from \in told
      BY <1>1 DEF BoundIsKnown, Known, Going, IsGlobalRemove
    <3>1. CASE proxy[p].state = "unused"
      <4>1. /\ resource[p] = None /\ proxy[p].from = None
            /\ \A k \in 1 .. Len(requests) :
                 requests[k].kind \in {"bind", "create", "method"} => requests[k].proxy # p
            /\ \A k \in 1 .. Len(events) : events[k].to = p => events[k].name \notin Contents
        BY <3>1 DEF SessionInv, ProxyInv, UnusedIsFresh
      <4>2. proxy'[p].shows = None
        BY <1>1, <3>1, <4>1 DEF Moves, Ends, Starts, GoesOn
      <4>3. ASSUME NEW k \in 1 .. Len(requests'), requests'[k].kind \in {"bind", "create"},
                   requests'[k].proxy = p
            PROVE  requests'[k].kind = "bind" /\ Known(proxy'[p].from, requests'[k].id)
        <5>1. Fits(requests'[k])
          BY <1>1, <4>1, <4>3
        <5>2. /\ requests'[k].kind = "bind" /\ requests'[k].id \in Id
              /\ globals[requests'[k].id] # None /\ proxy'[p].from = globals[requests'[k].id].gen
          BY <4>3, <5>1 DEF Fits
        <5> QED
          BY <2>1, <5>2 DEF GlobalsAreKnown
      <4> QED
        BY <4>1, <4>2, <4>3
    <3>2. CASE proxy[p].state # "unused"
      <4>1. proxy'[p].from = proxy[p].from /\ proxy'[p].shows \in {None, proxy[p].shows}
        BY <1>1, <3>2 DEF Moves, Ends, Starts, GoesOn
      <4>2. \A k \in 1 .. Len(requests') :
              requests'[k].kind \in {"bind", "create"} /\ requests'[k].proxy = p =>
                k \in 1 .. Len(requests) /\ requests'[k] = requests[k]
        BY <1>1, <3>2 DEF Fits
      <4> QED
        BY <2>1, <4>1, <4>2 DEF BoundIsKnown
    <3> QED
      BY <3>1, <3>2
  <2> QED
    BY <1>4, <2>2, <2>3 DEF StaleInv
<1> QED
  BY <1>1, <1>5, <1>6, <1>7

(* What is going, and known to be, after a step. *)
GoingAfter(g, n) ==
  g \in told' \/ \E k \in 1 .. n : IsGlobalRemove(events'[k]) /\ events'[k].gen = g

KnownAfter(g, i) ==
  GoingAfter(g, Len(events')) \/ (listed' /\ object'[i] # None /\ object'[i].gen = g)

GlobalsAreKnownAfter ==
  /\ \A k \in 1 .. Len(events') : IsGlobal(events'[k]) => KnownAfter(events'[k].gen, events'[k].id)
  /\ \A i \in Id : globals'[i] # None => KnownAfter(globals'[i].gen, i)

BoundIsKnownAfter(p) ==
  proxy'[p].from # None =>
    /\ \A k \in 1 .. Len(requests') :
         /\ requests'[k].kind = "bind" /\ requests'[k].proxy = p =>
              KnownAfter(proxy'[p].from, requests'[k].id)
         /\ requests'[k].kind = "create" => requests'[k].proxy # p
    /\ resource'[p] # None =>
         GoingAfter(proxy'[p].from, Len(events')) \/ object'[resource'[p].id].gen = proxy'[p].from
    /\ \A k \in 1 .. Len(events') :
         events'[k].to = p /\ events'[k].name \in Contents =>
           GoingAfter(proxy'[p].from, k - 1) \/ events'[k].gen = proxy'[p].from
    /\ proxy'[p].shows \in {None, proxy'[p].from} \/ proxy'[p].from \in told'

LEMMA StaleAfter ==
  ASSUME ListedFirst', GlobalsAreKnownAfter, \A p \in Proxy : BoundIsKnownAfter(p)
  PROVE  StaleInv'
<1>1. GlobalsAreKnown'
  BY DEF GlobalsAreKnownAfter, GlobalsAreKnown, KnownAfter, Known, GoingAfter, Going, IsGlobal, IsGlobalRemove
<1>2. BoundIsKnown'
  BY DEF BoundIsKnownAfter, BoundIsKnown, KnownAfter, Known, GoingAfter, Going, IsGlobalRemove
<1> QED
  BY <1>1, <1>2 DEF StaleInv

LEMMA EventsStay ==
  ASSUME SessionInv, NEW es, Adds(es)
  PROVE  /\ Queue(events') /\ Len(events) \in Nat /\ Len(events') = Len(events) + Len(es)
         /\ Len(es) \in Nat /\ Len(events') \in Nat
         /\ \A k \in 1 .. Len(events') :
              \/ k \in 1 .. Len(events) /\ events'[k] = events[k]
              \/ k > Len(events) /\ \E j \in 1 .. Len(es) : events'[k] = es[j]
         /\ \A k \in 1 .. Len(events) : k \in 1 .. Len(events') /\ events'[k] = events[k]
         /\ \A k \in 1 .. Len(es) : \E j \in 1 .. Len(events') : events'[j] = es[k]
<1>1. Queue(events) /\ Queue(es)
  BY DEF Adds, SessionInv, WireInv, EventsInOrder
<1>2. events' = events \o es
  BY DEF Adds
<1>3. /\ Queue(events \o es) /\ Len(events \o es) = Len(events) + Len(es)
      /\ Len(events) \in Nat /\ Len(es) \in Nat
      /\ \A i \in 1 .. Len(events) : (events \o es)[i] = events[i]
      /\ \A i \in Len(events) + 1 .. Len(events) + Len(es) : (events \o es)[i] = es[i - Len(events)]
      /\ \A i \in 1 .. Len(es) : (events \o es)[Len(events) + i] = es[i]
  BY ONLY <1>1, QueueConcat
<1>4. /\ Queue(events') /\ Len(events') = Len(events) + Len(es)
      /\ Len(events) \in Nat /\ Len(es) \in Nat
      /\ \A i \in 1 .. Len(events) : events'[i] = events[i]
      /\ \A i \in Len(events) + 1 .. Len(events) + Len(es) : events'[i] = es[i - Len(events)]
      /\ \A i \in 1 .. Len(es) : events'[Len(events) + i] = es[i]
  BY ONLY <1>2, <1>3
<1>5. \A k \in 1 .. Len(events') : k \notin 1 .. Len(events) =>
        /\ k > Len(events) /\ k \in Len(events) + 1 .. Len(events) + Len(es)
        /\ k - Len(events) \in 1 .. Len(es)
  BY ONLY <1>4
<1>6. \A k \in 1 .. Len(events) : k \in 1 .. Len(events') /\ events'[k] = events[k]
  BY ONLY <1>4
<1>7. \A k \in 1 .. Len(es) : Len(events) + k \in 1 .. Len(events') /\ events'[Len(events) + k] = es[k]
  BY ONLY <1>4
<1>8. \A k \in 1 .. Len(events') :
        \/ k \in 1 .. Len(events) /\ events'[k] = events[k]
        \/ k > Len(events) /\ \E j \in 1 .. Len(es) : events'[k] = es[j]
  BY ONLY <1>4, <1>5
<1>9. \A k \in 1 .. Len(es) : \E j \in 1 .. Len(events') : events'[j] = es[k]
  BY ONLY <1>7
<1>10. Len(events') \in Nat
  BY ONLY <1>4
<1> QED
  BY ONLY <1>4, <1>6, <1>8, <1>9, <1>10

LEMMA GoingStays ==
  ASSUME SessionInv, NEW es, Adds(es), NEW g, NEW n \in 0 .. Len(events), NEW m \in Nat, n <= m,
         Going(g, n)
  PROVE  GoingAfter(g, m)
<1>1. /\ told' = told /\ Len(events) \in Nat
      /\ \A k \in 1 .. Len(events) : k \in 1 .. Len(events') /\ events'[k] = events[k]
  BY EventsStay DEF Adds, programVars
<1>2. CASE g \in told
  BY <1>1, <1>2 DEF GoingAfter
<1>3. CASE \E k \in 1 .. n : IsGlobalRemove(events[k]) /\ events[k].gen = g
  <2>1. PICK k \in 1 .. n : IsGlobalRemove(events[k]) /\ events[k].gen = g
    BY <1>3
  <2>2. k \in 1 .. m /\ k \in 1 .. Len(events)
    BY <1>1
  <2>3. events'[k] = events[k]
    BY <1>1, <2>2
  <2> QED
    BY <2>1, <2>2, <2>3 DEF GoingAfter
<1> QED
  BY <1>2, <1>3 DEF Going

LEMMA KnownStays ==
  ASSUME SessionInv, NEW es, Adds(es), NEW g, NEW i \in Id, Known(g, i)
  PROVE  KnownAfter(g, i)
<1>1. /\ Len(events) \in 0 .. Len(events) /\ Len(events') \in Nat /\ Len(events) <= Len(events')
      /\ \A k \in 1 .. Len(es) : \E j \in 1 .. Len(events') : events'[j] = es[k]
  BY EventsStay
<1>2. Becomes(es, i) /\ (listed => listed')
  BY DEF Adds, Lists
<1>3. CASE Going(g, Len(events))
  BY <1>1, <1>3, GoingStays DEF KnownAfter
<1>4. CASE listed /\ object[i] # None /\ object[i].gen = g
  <2>1. CASE object'[i] # None
    BY <1>2, <1>4, <2>1 DEF Becomes, KnownAfter
  <2>2. CASE object'[i] = None
    <3>1. \E k \in 1 .. Len(es) : IsGlobalRemove(es[k]) /\ es[k].gen = g
      BY <1>2, <1>4, <2>2 DEF Becomes
    <3>2. \E k \in 1 .. Len(events') : IsGlobalRemove(events'[k]) /\ events'[k].gen = g
      BY <1>1, <3>1
    <3> QED
      BY <3>2 DEF KnownAfter, GoingAfter
  <2> QED
    BY <2>1, <2>2
<1> QED
  BY <1>3, <1>4 DEF Known

LEMMA ServerKeepsStale ==
  ASSUME SessionInv, StaleInv, NEW es, Adds(es)
  PROVE  StaleInv'
<1>1. /\ Len(events) \in Nat /\ Len(events') \in Nat /\ Len(events) <= Len(events')
      /\ \A k \in 1 .. Len(events') :
           \/ k \in 1 .. Len(events) /\ events'[k] = events[k]
           \/ k > Len(events) /\ \E j \in 1 .. Len(es) : events'[k] = es[j]
  BY EventsStay
<1>2. /\ \A k \in 1 .. Len(es) : Says(es[k]) \/ IsDone(es[k])
      /\ \A i \in Id : Becomes(es, i)
      /\ \A p \in Proxy : Rebinds(p)
      /\ UNCHANGED <<registry, globals, told, proxy>>
      /\ listed => listed'
      /\ \A k \in 1 .. Len(requests') : \E j \in 1 .. Len(requests) : requests'[k] = requests[j]
  BY DEF Adds, programVars, Lists, Shortens
<1>3. requests # <<>> => 1 \in 1 .. Len(requests) /\ req = requests[1]
  BY QueueTail DEF SessionInv, ServerInv, RequestTypes, req
<1>4. ListedFirst'
  <2>1. registry = {} => ~listed'
    BY <1>2, <1>3 DEF StaleInv, ListedFirst, Adds, Lists
  <2>2. ~listed' => \A k \in 1 .. Len(es) : ~IsGlobal(es[k])
    BY <1>2 DEF Says, IsDone, IsGlobal, IsAbout, Contents, IsGlobalRemove
  <2>3. ~listed' => \A k \in 1 .. Len(events') : ~IsGlobal(events'[k])
    BY <1>1, <1>2, <2>2 DEF StaleInv, ListedFirst
  <2> QED
    BY <1>2, <2>1, <2>3 DEF StaleInv, ListedFirst, IsGlobal
<1>5. CASE "global_remove" \notin registry
  BY <1>2, <1>4, <1>5 DEF StaleInv
<1>6. CASE "global_remove" \in registry
  <2>1. GlobalsAreKnown /\ BoundIsKnown
    BY <1>6 DEF StaleInv
  <2>2. GlobalsAreKnownAfter
    <3>1. ASSUME NEW k \in 1 .. Len(events'), IsGlobal(events'[k])
          PROVE  KnownAfter(events'[k].gen, events'[k].id)
      <4>1. CASE k \in 1 .. Len(events) /\ events'[k] = events[k]
        <5>1. Known(events[k].gen, events[k].id) /\ events[k].id \in Id
          BY <2>1, <3>1, <4>1 DEF GlobalsAreKnown, SessionInv, ProxyInv, EventTypes, IsGlobal
        <5> QED
          BY <4>1, <5>1, KnownStays
      <4>2. ASSUME NEW j \in 1 .. Len(es), events'[k] = es[j]
            PROVE  KnownAfter(events'[k].gen, events'[k].id)
        <5>1. /\ listed' /\ object'[events'[k].id] # None
              /\ events'[k].gen = object'[events'[k].id].gen
          BY <1>2, <3>1, <4>2 DEF Says, IsDone, IsGlobal, IsAbout, Contents, IsGlobalRemove
        <5> QED
          BY <5>1 DEF KnownAfter
      <4> QED
        BY <1>1, <4>1, <4>2
    <3>2. ASSUME NEW i \in Id, globals[i] # None
          PROVE  KnownAfter(globals[i].gen, i)
      BY <2>1, <3>2, KnownStays DEF GlobalsAreKnown
    <3> QED
      BY <1>2, <3>1, <3>2 DEF GlobalsAreKnownAfter
  <2>3. ASSUME NEW p \in Proxy
        PROVE  BoundIsKnownAfter(p)
    <3> SUFFICES ASSUME NEW g, g = proxy[p].from, g # None
                 PROVE  /\ \A k \in 1 .. Len(requests') :
                             /\ requests'[k].kind = "bind" /\ requests'[k].proxy = p =>
                                  KnownAfter(g, requests'[k].id)
                             /\ requests'[k].kind = "create" => requests'[k].proxy # p
                        /\ resource'[p] # None =>
                             GoingAfter(g, Len(events')) \/ object'[resource'[p].id].gen = g
                        /\ \A k \in 1 .. Len(events') :
                             events'[k].to = p /\ events'[k].name \in Contents =>
                               GoingAfter(g, k - 1) \/ events'[k].gen = g
                        /\ proxy[p].shows \in {None, g} \/ g \in told
      BY <1>2 DEF BoundIsKnownAfter
    <3>1. /\ \A k \in 1 .. Len(requests) :
               /\ requests[k].kind = "bind" /\ requests[k].proxy = p => Known(g, requests[k].id)
               /\ requests[k].kind = "create" => requests[k].proxy # p
          /\ resource[p] # None => Going(g, Len(events)) \/ object[resource[p].id].gen = g
          /\ \A k \in 1 .. Len(events) :
               events[k].to = p /\ events[k].name \in Contents => Going(g, k - 1) \/ events[k].gen = g
          /\ proxy[p].shows \in {None, g} \/ g \in told
      BY <2>1 DEF BoundIsKnown
    <3>2. ASSUME NEW k \in 1 .. Len(requests'), requests'[k].kind = "bind", requests'[k].proxy = p
          PROVE  KnownAfter(g, requests'[k].id)
      <4>1. PICK j \in 1 .. Len(requests) : requests'[k] = requests[j]
        BY <1>2
      <4>2. requests'[k].id \in Id
        BY <3>2, <4>1 DEF SessionInv, ServerInv, RequestTypes
      <4> QED
        BY <3>1, <3>2, <4>1, <4>2, KnownStays
    <3>3. resource'[p] # None => Going(g, Len(events)) \/ object'[resource'[p].id].gen = g
      <4> SUFFICES ASSUME resource'[p] # None
                   PROVE  Going(g, Len(events)) \/ object'[resource'[p].id].gen = g
        OBVIOUS
      <4>1. resource'[p].id \in Id /\ object'[resource'[p].id] # None
        BY DEF Adds, ServerTypes, Resource
      <4>2. Becomes(es, resource'[p].id) /\ Rebinds(p)
        BY <1>2, <4>1
      <4>3. CASE /\ resource[p] # None /\ resource'[p].id = resource[p].id
                 /\ object[resource[p].id] # None
        BY <3>1, <4>1, <4>2, <4>3 DEF Becomes
      <4>4. CASE /\ requests # <<>> /\ req.proxy = p /\ req.kind = "bind" /\ resource'[p].id = req.id
                 /\ object[req.id] # None
        <5>1. Known(g, req.id)
          BY <1>3, <3>1, <4>4
        <5> QED
          BY <4>1, <4>2, <4>4, <5>1 DEF Becomes, Known
      <4>5. CASE requests # <<>> /\ req.proxy = p /\ req.kind = "create"
        BY <1>3, <3>1, <4>5
      <4> QED
        BY <4>2, <4>3, <4>4, <4>5 DEF Rebinds
    <3>4. ASSUME NEW k \in 1 .. Len(events'), events'[k].to = p, events'[k].name \in Contents
          PROVE  GoingAfter(g, k - 1) \/ events'[k].gen = g
      <4>1. CASE k \in 1 .. Len(events) /\ events'[k] = events[k]
        <5>1. k - 1 \in 0 .. Len(events) /\ k - 1 \in Nat /\ k - 1 <= k - 1
          BY <1>1, <4>1
        <5>2. Going(g, k - 1) => GoingAfter(g, k - 1)
          BY <5>1, GoingStays
        <5> QED
          BY <3>1, <3>4, <4>1, <5>2
      <4>2. ASSUME NEW j \in 1 .. Len(es), events'[k] = es[j], k > Len(events)
            PROVE  GoingAfter(g, k - 1) \/ events'[k].gen = g
        <5>1. resource'[p] # None /\ events'[k].gen = object'[resource'[p].id].gen
          BY <1>2, <3>4, <4>2 DEF Says, IsDone, IsAbout, Contents, IsGlobal, IsGlobalRemove
        <5>2. Len(events) \in 0 .. Len(events) /\ k - 1 \in Nat /\ Len(events) <= k - 1
          BY <1>1, <4>2
        <5>3. Going(g, Len(events)) => GoingAfter(g, k - 1)
          BY <5>2, GoingStays
        <5> QED
          BY <3>3, <5>1, <5>3
      <4> QED
        BY <1>1, <4>1, <4>2
    <3>5. resource'[p] # None => GoingAfter(g, Len(events')) \/ object'[resource'[p].id].gen = g
      <4>1. Len(events) \in 0 .. Len(events)
        BY <1>1
      <4>2. Going(g, Len(events)) => GoingAfter(g, Len(events'))
        BY <1>1, <4>1, GoingStays
      <4> QED
        BY <3>3, <4>2
    <3> QED
      BY <1>2, <3>1, <3>2, <3>4, <3>5
  <2> QED
    BY <1>4, <2>2, <2>3, StaleAfter
<1> QED
  BY <1>5, <1>6

LEMMA GoingIsDelivered ==
  ASSUME SessionInv, Loop, "global_remove" \in registry, NEW g, NEW n \in 0 .. Len(events), Going(g, n)
  PROVE  GoingAfter(g, n - 1)
<1>1. /\ ev = events[1] /\ Len(events) \in Nat /\ 1 \in 1 .. Len(events)
      /\ Len(events') = Len(events) - 1
      /\ \A k \in 1 .. Len(events') : events'[k] = events[k + 1]
  BY LoopIs
<1>2. told \subseteq told' /\ (IsGlobalRemove(ev) => ev.gen \in told')
  <2>1. CASE DeliverRegistry
    <3>1. \/ told' = told /\ ~IsGlobalRemove(ev)
          \/ told' = told \cup {ev.gen}
      BY <1>1, <2>1, RegistryIsTold DEF SessionInv, ProxyInv, IsGlobal, IsGlobalRemove
    <3> QED
      BY <3>1
  <2>2. CASE DeliverCore \/ DeliverProxy
    <3>1. told' = told /\ ev.to \in Proxy \cup {"core"}
      BY <2>2 DEF DeliverCore, DeliverProxy, Delivers
    <3> QED
      BY <3>1, SessionAssumption DEF IsGlobalRemove
  <2> QED
    BY <2>1, <2>2 DEF Loop
<1>3. CASE g \in told
  BY <1>2, <1>3 DEF GoingAfter
<1>4. ASSUME NEW k \in 1 .. n, IsGlobalRemove(events[k]), events[k].gen = g
      PROVE  GoingAfter(g, n - 1)
  <2>1. CASE k = 1
    BY <1>1, <1>2, <1>4, <2>1 DEF GoingAfter
  <2>2. CASE k # 1
    <3>1. k - 1 \in 1 .. n - 1 /\ k - 1 \in 1 .. Len(events') /\ (k - 1) + 1 = k
      BY <1>1, <2>2
    <3>2. events'[k - 1] = events[k]
      BY <1>1, <3>1
    <3> QED
      BY <1>4, <3>1, <3>2 DEF GoingAfter
  <2> QED
    BY <2>1, <2>2
<1> QED
  BY <1>3, <1>4 DEF Going

LEMMA KnownIsDelivered ==
  ASSUME SessionInv, Loop, "global_remove" \in registry, NEW g, NEW i, Known(g, i)
  PROVE  KnownAfter(g, i)
<1>1. /\ Len(events) \in 0 .. Len(events) /\ Len(events') = Len(events) - 1
      /\ UNCHANGED <<object, listed>>
  BY LoopIs
<1>2. Going(g, Len(events)) => GoingAfter(g, Len(events'))
  BY <1>1, GoingIsDelivered
<1> QED
  BY <1>1, <1>2 DEF Known, KnownAfter

LEMMA LoopKeepsStale ==
  ASSUME SessionInv, StaleInv, Loop
  PROVE  StaleInv'
<1>1. /\ ev = events[1] /\ 1 \in 1 .. Len(events) /\ Len(events) \in Nat /\ Len(events') = Len(events) - 1
      /\ \A k \in 1 .. Len(events') : events'[k] = events[k + 1] /\ k + 1 \in 1 .. Len(events)
      /\ UNCHANGED <<object, gens, resource, listed, requests, registry>>
      /\ \A p \in Proxy : Same(p)
  BY LoopIs
<1>2. \A p \in Proxy : proxy'[p].from = proxy[p].from
  BY <1>1 DEF Same
<1>3. \/ globals' = globals
      \/ /\ IsGlobal(ev) /\ ev.id \in Id /\ globals'[ev.id].gen = ev.gen
         /\ \A i \in Id \ {ev.id} : globals'[i] = globals[i]
      \/ /\ ev.id \in Id /\ globals'[ev.id] = None
         /\ \A i \in Id \ {ev.id} : globals'[i] = globals[i]
  <2>1. CASE DeliverRegistry
    BY <1>1, <2>1, RegistryIsTold DEF SessionInv, ProxyInv
  <2>2. CASE DeliverCore \/ DeliverProxy
    BY <2>2 DEF DeliverCore, DeliverProxy
  <2> QED
    BY <2>1, <2>2 DEF Loop
<1>4. ListedFirst'
  <2>1. ~listed => \A i \in Id : globals'[i] = None
    BY <1>1, <1>3 DEF StaleInv, ListedFirst
  <2>2. ~listed => \A k \in 1 .. Len(events') : ~IsGlobal(events'[k])
    BY <1>1 DEF StaleInv, ListedFirst
  <2> QED
    BY <1>1, <1>2, <2>1, <2>2 DEF StaleInv, ListedFirst, IsGlobal
<1>5. CASE "global_remove" \notin registry
  BY <1>1, <1>4, <1>5 DEF StaleInv
<1>6. CASE "global_remove" \in registry
  <2>1. GlobalsAreKnown /\ BoundIsKnown
    BY <1>6 DEF StaleInv
  <2>2. GlobalsAreKnownAfter
    <3>1. ASSUME NEW k \in 1 .. Len(events'), IsGlobal(events'[k])
          PROVE  KnownAfter(events'[k].gen, events'[k].id)
      <4>1. Known(events'[k].gen, events'[k].id)
        BY <1>1, <2>1, <3>1 DEF GlobalsAreKnown
      <4> QED
        BY <1>6, <4>1, KnownIsDelivered
    <3>2. ASSUME NEW i \in Id, globals'[i] # None
          PROVE  KnownAfter(globals'[i].gen, i)
      <4>1. Known(globals'[i].gen, i)
        BY <1>1, <1>3, <2>1, <3>2 DEF GlobalsAreKnown
      <4> QED
        BY <1>6, <4>1, KnownIsDelivered
    <3> QED
      BY <3>1, <3>2 DEF GlobalsAreKnownAfter
  <2>3. ASSUME NEW p \in Proxy
        PROVE  BoundIsKnownAfter(p)
    <3> SUFFICES ASSUME NEW g, g = proxy[p].from, g # None
                 PROVE  /\ \A k \in 1 .. Len(requests) :
                             /\ requests[k].kind = "bind" /\ requests[k].proxy = p =>
                                  KnownAfter(g, requests[k].id)
                             /\ requests[k].kind = "create" => requests[k].proxy # p
                        /\ resource[p] # None =>
                             GoingAfter(g, Len(events')) \/ object[resource[p].id].gen = g
                        /\ \A k \in 1 .. Len(events') :
                             events'[k].to = p /\ events'[k].name \in Contents =>
                               GoingAfter(g, k - 1) \/ events'[k].gen = g
                        /\ proxy'[p].shows \in {None, g} \/ g \in told'
      BY <1>1, <1>2 DEF BoundIsKnownAfter
    <3>1. /\ \A k \in 1 .. Len(requests) :
               /\ requests[k].kind = "bind" /\ requests[k].proxy = p => Known(g, requests[k].id)
               /\ requests[k].kind = "create" => requests[k].proxy # p
          /\ resource[p] # None => Going(g, Len(events)) \/ object[resource[p].id].gen = g
          /\ \A k \in 1 .. Len(events) :
               events[k].to = p /\ events[k].name \in Contents => Going(g, k - 1) \/ events[k].gen = g
          /\ proxy[p].shows \in {None, g} \/ g \in told
      BY <2>1 DEF BoundIsKnown
    <3>2. \A k \in 1 .. Len(requests) :
            requests[k].kind = "bind" /\ requests[k].proxy = p => KnownAfter(g, requests[k].id)
      BY <1>6, <3>1, KnownIsDelivered
    <3>3. Going(g, Len(events)) => GoingAfter(g, Len(events'))
      BY <1>1, <1>6, GoingIsDelivered
    <3>4. ASSUME NEW k \in 1 .. Len(events'), events'[k].to = p, events'[k].name \in Contents
          PROVE  GoingAfter(g, k - 1) \/ events'[k].gen = g
      <4>1. Going(g, (k + 1) - 1) \/ events'[k].gen = g
        BY <1>1, <3>1, <3>4
      <4>2. (k + 1) - 1 = k /\ k \in 0 .. Len(events)
        BY <1>1
      <4>3. Going(g, k) => GoingAfter(g, k - 1)
        BY <1>6, <4>2, GoingIsDelivered
      <4> QED
        BY <4>1, <4>2, <4>3
    <3>5. GoingAfter(g, 0) => g \in told'
      BY DEF GoingAfter
    <3>6. g \in told => g \in told'
      <4>1. 1 \in 0 .. Len(events) /\ 1 - 1 = 0
        BY <1>1
      <4>2. g \in told => Going(g, 1)
        BY DEF Going
      <4> QED
        BY <1>6, <3>5, <4>1, <4>2, GoingIsDelivered
    <3>7. proxy'[p].shows \in {None, g} \/ g \in told'
      <4>1. CASE proxy'[p].shows = proxy[p].shows
        BY <3>1, <3>6, <4>1
      <4>2. CASE p = ev.to /\ proxy'[p].shows = ev.gen /\ ev.name \in Contents
        <5>1. Going(g, 1 - 1) \/ ev.gen = g
          BY <1>1, <3>1, <4>2
        <5>2. 0 \in 0 .. Len(events)
          BY <1>1
        <5>3. Going(g, 0) => g \in told
          BY DEF Going
        <5> QED
          BY <3>6, <4>2, <5>1, <5>3
      <4> QED
        <5>1. CASE DeliverCore
          BY <4>1, <5>1, CoreIsTold DEF SessionInv, ProxyInv
        <5>2. CASE DeliverRegistry
          BY <1>1, <4>1, <5>2, RegistryIsTold DEF SessionInv, ProxyInv
        <5>3. CASE DeliverProxy
          BY <4>1, <4>2, <5>3, ProxyIsTold DEF SessionInv, ProxyInv
        <5> QED
          BY <5>1, <5>2, <5>3 DEF Loop
    <3> QED
      BY <3>1, <3>2, <3>3, <3>4, <3>7
  <2> QED
    BY <1>4, <2>2, <2>3, StaleAfter
<1> QED
  BY <1>5, <1>6

LEMMA StutteringKeepsStale ==
  ASSUME StaleInv, UNCHANGED vars
  PROVE  StaleInv'
BY DEF vars, serverVars, programVars, StaleInv, ListedFirst, GlobalsAreKnown, BoundIsKnown, Known, Going,
       IsGlobal, IsGlobalRemove

LEMMA StaleInit ==
  ASSUME Init
  PROVE  StaleInv
<1>1. /\ Len(requests) = 0 /\ Len(events) = 1 /\ ~IsGlobal(events[1])
      /\ registry = {} /\ listed = FALSE
  BY SessionInit DEF Init
<1>2. globals = [i \in Id |-> None] /\ proxy = [p \in Proxy |-> NoProxy] /\ NoProxy.from = None
  BY DEF Init, NoProxy
<1>3. (\A i \in Id : globals[i] = None) /\ \A p \in Proxy : proxy[p].from = None
  BY <1>2
<1>4. \A k \in 1 .. Len(events) : ~IsGlobal(events[k])
  BY <1>1
<1> QED
  BY <1>1, <1>3, <1>4 DEF StaleInv, ListedFirst

(* A bind may reach another object than was announced, under an id that is *)
(* used again; but nothing of that object is shown before the registry's   *)
(* listener was told that the announced one has gone.                      *)
THEOREM StaleBindIsNoticed == Spec => []StaleBindIsTold
<1>1. Init => SessionInv /\ StaleInv
  BY SessionInit, StaleInit
<1>2. SessionInv /\ StaleInv /\ [Next]_vars => StaleInv'
  <2> SUFFICES ASSUME SessionInv, StaleInv, [Next]_vars
               PROVE  StaleInv'
    OBVIOUS
  <2>1. CASE Program
    BY <2>1, ProgramSteps, ProgramKeepsStale
  <2>2. CASE Server
    <3>1. PICK es : Adds(es)
      BY <2>2, ServerAdds
    <3> QED
      BY <3>1, ServerKeepsStale
  <2>3. CASE Loop
    BY <2>3, LoopKeepsStale
  <2>4. CASE UNCHANGED vars
    BY <2>4, StutteringKeepsStale
  <2> QED
    BY <2>1, <2>2, <2>3, <2>4 DEF Next
<1>3. StaleInv => StaleBindIsTold
  BY DEF StaleInv, BoundIsKnown, StaleBindIsTold
<1> QED
  BY <1>1, <1>2, <1>3, SessionIsSound, PTL DEF Spec

-----------------------------------------------------------------------------
(* Enumerations are answered.                                              *)

LEMMA ProgramKeepsAsked ==
  ASSUME SessionInv, AskedInv, ProgramStep
  PROVE  AskedInv'
<1> SUFFICES ASSUME NEW p \in Proxy, NEW s \in proxy'[p].asked
             PROVE  /\ proxy'[p].state = "live" /\ "param" \in proxy'[p].closures
                    /\ "enum_params" \in DOMAIN Interface(proxy'[p].type).methods
                    /\ \/ \E k \in 1 .. Len(requests') : Asks(requests[k], p, s)'
                       \/ \E k \in 1 .. Len(events') : Answers(events[k], p, s)'
  BY DEF AskedInv, Asks, Answers
<1>1. /\ \A k \in 1 .. Len(requests) : k \in 1 .. Len(requests') /\ requests'[k] = requests[k]
      /\ Moves(p) /\ events' = events
  BY DEF ProgramStep
<1>2. CASE s \in proxy[p].asked
  <2>1. /\ proxy[p].state = "live" /\ "param" \in proxy[p].closures
        /\ "enum_params" \in DOMAIN Interface(proxy[p].type).methods
        /\ \/ \E k \in 1 .. Len(requests) : Asks(requests[k], p, s)
           \/ \E k \in 1 .. Len(events) : Answers(events[k], p, s)
    BY <1>2 DEF AskedInv
  <2>2. /\ proxy'[p].state = "live" /\ proxy'[p].type = proxy[p].type
        /\ proxy'[p].closures = proxy[p].closures
    BY <1>1, <2>1 DEF Moves, Ends, Starts, GoesOn
  <2>3. (\E k \in 1 .. Len(requests) : Asks(requests[k], p, s)) =>
          \E k \in 1 .. Len(requests') : Asks(requests[k], p, s)'
    BY <1>1, <2>2 DEF Asks
  <2> QED
    BY <1>1, <2>1, <2>2, <2>3 DEF Answers
<1>3. CASE s \notin proxy[p].asked
  <2>1. /\ proxy'[p].state = "live" /\ proxy'[p].type = proxy[p].type
        /\ proxy'[p].closures = proxy[p].closures /\ "param" \in proxy[p].closures
        /\ \E k \in 1 .. Len(requests') : Asks(requests'[k], p, s)
    BY <1>1, <1>3 DEF Moves, Ends, Starts, GoesOn
  <2> QED
    BY <2>1 DEF Asks
<1> QED
  BY <1>2, <1>3

(* What the program believes of the proxy is what the server looks up.     *)
LEMMA EnumIsAnswered ==
  ASSUME SessionInv, HandleMethod, NEW p \in Proxy, NEW s, proxy[p].state = "live", Asks(req, p, s)
  PROVE  \E e : events' = events \o <<e>> /\ Answers(e, p, s)
<1> DEFINE r == resource[p]
           o == object[r.id]
           k == req.ordinal
<1>1. /\ req.kind = "method" /\ req.proxy = p /\ req.seq = s /\ s \in Nat
      /\ "enum_params" \in DOMAIN Interface(proxy[p].type).methods
      /\ req.slot = Interface(proxy[p].type).methods["enum_params"]
  BY DEF Asks
<1>2. requests # <<>> /\ 1 \in 1 .. Len(requests) /\ req = requests[1]
  <2>1. requests # <<>>
    BY DEF HandleMethod, Handles
  <2> QED
    BY <2>1, QueueTail DEF SessionInv, ServerInv, RequestTypes, req
<1>3. CASE r = None
  <2>1. events' = events \o <<Error(p, k)>>
    BY <1>1, <1>3 DEF HandleMethod, Emit
  <2>2. PICK e : e = Error(p, k)
    OBVIOUS
  <2>3. Answers(e, p, s)
    BY <2>2, ErrorIs DEF Answers
  <2> QED
    BY <2>1, <2>2, <2>3
<1>4. CASE r # None
  <2>1. /\ r.id \in Id /\ o # None /\ o.type \in Kind /\ o \in Object(o.type)
    BY <1>4 DEF SessionInv, ServerInv, ServerTypes, Resource, Object
  <2>2. o.type = proxy[p].type
    BY <1>4, <2>1 DEF SessionInv, ProxyInv, TypesAgree, StandsFor
  <2>3. TableOf(o.type)[req.slot] = "enum_params"
    BY <1>1, <2>1, <2>2, SlotsAgree
  <2>4. req.id \in {IdAny, "Props"}
    <3>1. IsMethodOf(req, o.type)
      BY <1>1, <1>2, <1>4, <2>1 DEF SessionInv, ServerInv, RequestTypes, StandsFor
    <3>2. PICK m \in DOMAIN Interface(o.type).methods :
            /\ req.slot = Interface(o.type).methods[m]
            /\ IF m = "enum_params" THEN req.id \in {IdAny, "Props"} ELSE req.value \in Arg(m)
      BY <3>1 DEF IsMethodOf
    <3>3. m = "enum_params"
      BY <2>1, <2>3, <3>2, SlotsAgree
    <3> QED
      BY <3>2, <3>3
  <2>5. events' = events \o <<Param(p, o, s, k)>>
    BY <1>1, <1>4, <2>3, <2>4 DEF HandleMethod, Emit
  <2>6. k \in Nat
    BY <1>2 DEF SessionInv, WireInv, RequestsInOrder, Handled, Queue
  <2>7. o.gen \in Nat /\ o.fields["params"] \in FieldValue
    <3>1. o.type \in {"Node", "Port", "Device"}
      BY <1>1, <2>1, <2>2, EnumTypes
    <3>2. "params" \in Fields(o.type)
      BY <3>1 DEF Fields, ChangeMask, NodeChangeMask, PortChangeMask, DeviceChangeMask
    <3> QED
      BY <2>1, <3>2 DEF Object
  <2>8. Param(p, o, s, k) \in ParamEvent(FieldValue)
    BY <1>1, <2>1, <2>6, <2>7 DEF Param, ToProxy, Event, With, ParamEvent
  <2>9. PICK e : e = Param(p, o, s, k)
    OBVIOUS
  <2>10. e.to = p /\ e.seq = s
    BY <2>9, ParamIs
  <2>11. Answers(e, p, s)
    BY <2>8, <2>9, <2>10 DEF Answers
  <2> QED
    BY <2>5, <2>9, <2>11
<1> QED
  BY <1>3, <1>4

LEMMA ServerKeepsAsked ==
  ASSUME SessionInv, AskedInv, Server, NEW es, Adds(es)
  PROVE  AskedInv'
<1> SUFFICES ASSUME NEW p \in Proxy, NEW s \in proxy[p].asked
             PROVE  \/ \E k \in 1 .. Len(requests') : Asks(requests'[k], p, s)
                    \/ \E k \in 1 .. Len(events') : Answers(events'[k], p, s)
  <2>1. proxy' = proxy
    BY DEF Adds, programVars
  <2>2. AskedInv' <=>
          \A p \in Proxy : \A s \in proxy[p].asked :
            /\ proxy[p].state = "live" /\ "param" \in proxy[p].closures
            /\ "enum_params" \in DOMAIN Interface(proxy[p].type).methods
            /\ \/ \E k \in 1 .. Len(requests') : Asks(requests'[k], p, s)
               \/ \E k \in 1 .. Len(events') : Answers(events'[k], p, s)
    BY <2>1 DEF AskedInv, Asks, Answers
  <2> QED
    BY <2>2 DEF AskedInv
<1>1. /\ proxy[p].state = "live"
      /\ \/ \E k \in 1 .. Len(requests) : Asks(requests[k], p, s)
         \/ \E k \in 1 .. Len(events) : Answers(events[k], p, s)
  BY DEF AskedInv
<1>2. CASE \E k \in 1 .. Len(events) : Answers(events[k], p, s)
  BY <1>2, EventsStay
<1>3. ASSUME NEW k \in 1 .. Len(requests), Asks(requests[k], p, s)
      PROVE  \/ \E j \in 1 .. Len(requests') : Asks(requests'[j], p, s)
             \/ \E j \in 1 .. Len(events') : Answers(events'[j], p, s)
  <2>1. Shortens /\ Queue(requests)
    BY DEF Adds, SessionInv, ServerInv, RequestTypes
  <2>2. CASE requests' = requests
    BY <1>3, <2>2
  <2>3. CASE requests # <<>> /\ requests' = Tail(requests) /\ k # 1
    <3>1. /\ Len(requests') = Len(requests) - 1 /\ Len(requests) \in Nat
          /\ \A j \in 1 .. Len(requests') : requests'[j] = requests[j + 1]
      BY <2>1, <2>3, QueueTail
    <3>2. k - 1 \in 1 .. Len(requests') /\ (k - 1) + 1 = k
      BY <2>3, <3>1
    <3>3. requests'[k - 1] = requests[k]
      BY <3>1, <3>2
    <3> QED
      BY <1>3, <3>2, <3>3
  <2>4. CASE requests # <<>> /\ k = 1 /\ HandleMethod
    <3>1. Asks(req, p, s)
      BY <1>3, <2>1, <2>4, QueueTail DEF req
    <3>2. PICK e : events' = events \o <<e>> /\ Answers(e, p, s)
      BY <1>1, <2>4, <3>1, EnumIsAnswered
    <3>3. Queue(events) /\ Queue(<<e>>) /\ Len(<<e>>) = 1 /\ <<e>>[1] = e
      BY SingleIsQueue DEF SessionInv, WireInv, EventsInOrder
    <3>4. Len(events) + 1 \in 1 .. Len(events') /\ events'[Len(events) + 1] = e
      BY <3>2, <3>3, Appended
    <3> QED
      BY <3>2, <3>4
  <2>5. \/ requests' = requests
        \/ requests # <<>> /\ requests' = Tail(requests) /\ (k # 1 \/ HandleMethod)
    <3>1. req.kind # "method" \/ k # 1 \/ requests = <<>> \/ req.kind = "method"
      OBVIOUS
    <3>2. k = 1 /\ requests # <<>> => req.kind = "method"
      BY <1>3, <2>1, QueueTail DEF req, Asks
    <3>3. \/ requests' = requests
          \/ requests # <<>> /\ requests' = Tail(requests) /\ (HandleMethod \/ req.kind # "method")
      BY DEF Server, Appears, Vanishes, Changes, Unasked, HandleGetRegistry, HandleSync, HandleBind,
             HandleCreate, HandleDestroy, HandleDestroyGlobal, HandleMethod, Handles, req
    <3> QED
      BY <3>2, <3>3
  <2> QED
    BY <2>2, <2>3, <2>4, <2>5
<1> QED
  BY <1>1, <1>2, <1>3

(* A listener with param is given the parameters it waits for. *)
LEMMA ParamIsTold ==
  ASSUME SessionInv, DeliverProxy, ev \in ParamEvent(FieldValue), proxy[ev.to].state = "live",
         "param" \in proxy[ev.to].closures,
         "enum_params" \in DOMAIN Interface(proxy[ev.to].type).methods
  PROVE  proxy'[ev.to].asked = proxy[ev.to].asked \ {ev.seq}
<1> DEFINE q == proxy[ev.to]
           args == ParamArgs(ev)
<1>1. ev.to \in Proxy /\ ev.name = "param"
  BY DEF ParamEvent
<1>2. DOMAIN q = DOMAIN NoProxy /\ DOMAIN proxy = Proxy /\ q.type \in Kind
  BY <1>1 DEF SessionInv, ProxyInv, ProxyTypes
<1>3. args \in ParamEvent(FieldValue \cup {None}) /\ args.seq = ev.seq
  BY DEF ParamArgs, ParamEvent, OrNone
<1>4. args # Untold
  BY <1>3, NoneAssumption
<1>5. Listener(q.type, q.closures, ev) = args
  <2>1. q.type \in {"Node", "Port", "Device"}
    BY <1>2, EnumTypes
  <2>2. Told(q.closures, ev, args) = args
    BY <1>1 DEF Told
  <2> QED
    BY <1>1, <2>1, <2>2 DEF Listener, NodeListener, PortListener, DeviceListener
<1>6. ev.name \notin ProxyCallbacks
  BY <1>1 DEF ProxyCallbacks
<1>7. proxy' = [proxy EXCEPT ![ev.to] = Kept(q, args)]
  <2> HIDE DEF args
  <2> QED
    BY <1>4, <1>5, <1>6 DEF DeliverProxy
<1>8. Kept(q, args) = [q EXCEPT !.asked = q.asked \ {args.seq}, !.shows = ev.gen]
  BY <1>1 DEF Kept
<1>9. Kept(q, args).asked = q.asked \ {args.seq}
  BY <1>2, <1>8 DEF NoProxy
<1> QED
  BY <1>1, <1>2, <1>3, <1>7, <1>9

LEMMA LoopKeepsAsked ==
  ASSUME SessionInv, AskedInv, Loop
  PROVE  AskedInv'
<1>1. /\ ev = events[1] /\ Len(events) \in Nat /\ 1 \in 1 .. Len(events)
      /\ Len(events') = Len(events) - 1
      /\ \A k \in 1 .. Len(events') : events'[k] = events[k + 1]
      /\ requests' = requests /\ \A p \in Proxy : Same(p)
  BY LoopIs
<1> SUFFICES ASSUME NEW p \in Proxy, NEW s \in proxy'[p].asked
             PROVE  /\ proxy'[p].state = "live" /\ "param" \in proxy'[p].closures
                    /\ "enum_params" \in DOMAIN Interface(proxy'[p].type).methods
                    /\ \/ \E k \in 1 .. Len(requests') : Asks(requests[k], p, s)'
                       \/ \E k \in 1 .. Len(events') : Answers(events[k], p, s)'
  BY DEF AskedInv, Asks, Answers
<1>2. s \in proxy[p].asked /\ proxy'[p].state = proxy[p].state /\ proxy'[p].type = proxy[p].type
      /\ proxy'[p].closures = proxy[p].closures
  BY <1>1 DEF Same
<1>3. /\ proxy[p].state = "live" /\ "param" \in proxy[p].closures
      /\ "enum_params" \in DOMAIN Interface(proxy[p].type).methods
      /\ \/ \E k \in 1 .. Len(requests) : Asks(requests[k], p, s)
         \/ \E k \in 1 .. Len(events) : Answers(events[k], p, s)
  BY <1>2 DEF AskedInv
<1>4. CASE \E k \in 1 .. Len(requests) : Asks(requests[k], p, s)
  BY <1>1, <1>2, <1>3, <1>4 DEF Asks
<1>5. ASSUME NEW k \in 1 .. Len(events), Answers(events[k], p, s)
      PROVE  \E j \in 1 .. Len(events') : Answers(events'[j], p, s)
  <2>1. CASE k # 1
    <3>1. k - 1 \in 1 .. Len(events') /\ (k - 1) + 1 = k
      BY <1>1, <2>1
    <3>2. events'[k - 1] = events[k]
      BY <1>1, <3>1
    <3> QED
      BY <1>5, <3>1, <3>2
  <2>2. CASE k = 1
    <3>1. Answers(ev, p, s)
      BY <1>1, <1>5, <2>2
    <3>2. CASE ev \in ParamEvent(FieldValue) /\ ev.to = p /\ ev.seq = s
      <4>1. ev.to \in Proxy
        BY <3>2
      <4>2. DeliverProxy
        BY <4>1, SessionAssumption DEF Loop, DeliverCore, DeliverRegistry, Delivers
      <4> QED
        BY <1>3, <3>2, <4>2, ParamIsTold
    <3>3. CASE ev.to = "core" /\ ev.name = "error" /\ ev.id = p
      <4>1. DeliverCore
        BY <3>3, SessionAssumption DEF Loop, DeliverProxy, DeliverRegistry, Delivers
      <4>2. proxy' = [proxy EXCEPT ![p].asked = {}]
        BY <3>3, <4>1 DEF DeliverCore
      <4> QED
        BY <4>2 DEF SessionInv, ProxyInv, ProxyTypes, NoProxy
    <3> QED
      BY <3>1, <3>2, <3>3 DEF Answers
  <2> QED
    BY <2>1, <2>2
<1> QED
  BY <1>2, <1>3, <1>4, <1>5 DEF Answers

LEMMA StutteringKeepsAsked ==
  ASSUME AskedInv, UNCHANGED vars
  PROVE  AskedInv'
BY DEF vars, serverVars, programVars, AskedInv, Asks, Answers

(* With nothing under way no sync is waited for, and no enumeration of an  *)
(* object that is still followed: each was answered, by the object or by   *)
(* an error, whatever became of it meanwhile.                              *)
THEOREM EveryCallIsAnswered == Spec => []CallsAreAnswered
<1>1. Init => AskedInv
  BY DEF Init, AskedInv, NoProxy
<1>2. SessionInv /\ AskedInv /\ [Next]_vars => AskedInv'
  <2> SUFFICES ASSUME SessionInv, AskedInv, [Next]_vars
               PROVE  AskedInv'
    OBVIOUS
  <2>1. CASE Program
    BY <2>1, ProgramSteps, ProgramKeepsAsked
  <2>2. CASE Server
    <3>1. PICK es : Adds(es)
      BY <2>2, ServerAdds
    <3> QED
      BY <2>2, <3>1, ServerKeepsAsked
  <2>3. CASE Loop
    BY <2>3, LoopKeepsAsked
  <2>4. CASE UNCHANGED vars
    BY <2>4, StutteringKeepsAsked
  <2> QED
    BY <2>1, <2>2, <2>3, <2>4 DEF Next
<1>3. SessionInv /\ AskedInv => CallsAreAnswered
  <2> SUFFICES ASSUME SessionInv, AskedInv, Quiet
               PROVE  pending = None /\ \A p \in Proxy : proxy[p].asked = {}
    BY DEF CallsAreAnswered
  <2>1. Len(requests) = 0 /\ Len(events) = 0
    BY EmptyIsQueue DEF Quiet
  <2>2. pending = None
    BY <2>1 DEF SessionInv, WireInv, SyncIsComing
  <2>3. \A p \in Proxy : proxy[p].asked = {}
    BY <2>1 DEF AskedInv
  <2> QED
    BY <2>2, <2>3
<1> QED
  BY <1>1, <1>2, <1>3, SessionIsSound, PTL DEF Spec

-----------------------------------------------------------------------------
(* What a program keeps of an object.                                      *)

(* News of an object, and what a closure for it is given. *)
IsNews(e) == e.name \in {"info", "property"}
Given(e)  == Listener(e.of, {"info", "property"}, e)

(* An event tells proxy p of field f, and what it says of it. *)
Tells(e, p, f) ==
  /\ e.to = p /\ IsNews(e)
  /\ IF e.name = "property" THEN Given(e).key \in {None, f} ELSE f \in Given(e).change_mask

Tidings(e, f) == IF e.name = "property" THEN Given(e).value ELSE Given(e)[f]

(* News that can be given: metadata has properties, the rest infos. *)
CanBeGiven(e) ==
  e.of \in Kind /\ (e.name = "property" <=> e.of = "Metadata") /\ Given(e) # Untold

(* An object whose fields have values of theirs. *)
IsSane(o) ==
  /\ o.type \in Kind /\ DOMAIN o.fields = Fields(o.type)
  /\ \A f \in Fields(o.type) : o.fields[f] \in Values(o.type, f)

(* News of some fields of an object. *)
IsNewsOf(e, o, mask) ==
  /\ CanBeGiven(e) /\ e.of = o.type
  /\ \A p, f : f \in Fields(o.type) => (Tells(e, p, f) <=> e.to = p /\ f \in mask)
  /\ \A f \in mask : Tidings(e, f) = Shown(o, f)

LEMMA FieldsAre ==
  /\ Fields("Node") = NodeChangeMask /\ Fields("Port") = PortChangeMask
  /\ Fields("Device") = DeviceChangeMask /\ Fields("Client") = ClientChangeMask
  /\ Fields("Link") = LinkChangeMask /\ Fields("Module") = ModuleChangeMask
  /\ Fields("Factory") = FactoryChangeMask /\ Fields("Metadata") = {"key"}
BY Zenon DEF Fields, ChangeMask

LEMMA NodeFieldsAre ==
  \A f : f \in NodeChangeMask <=>
    f = "input_ports" \/ f = "output_ports" \/ f = "state" \/ f = "props" \/ f = "params"
BY Zenon DEF NodeChangeMask

(* An info of an object whose mask names some fields of it. *)
LEMMA RawInfoIs ==
  ASSUME NEW o, NEW mask, NEW r, r = RawInfo(o, mask)
  PROVE  /\ r.mask = mask /\ r.direction = "output" /\ r.name = "text" /\ r.args = Null
         /\ r.type = "Node" /\ r.version = 3
         /\ "input_ports" \in DOMAIN o.fields => r.n_input_ports = o.fields["input_ports"]
         /\ "output_ports" \in DOMAIN o.fields => r.n_output_ports = o.fields["output_ports"]
         /\ "state" \in DOMAIN o.fields =>
              /\ r.state = o.fields["state"]
              /\ r.error = IF o.fields["state"] = "error" THEN "text" ELSE Null
         /\ "props" \in DOMAIN o.fields =>
              r.props = IF "props" \in mask THEN o.fields["props"] ELSE Null
         /\ "params" \in DOMAIN o.fields =>
              r.params = IF "params" \in mask THEN o.fields["params"] ELSE Null
         /\ "format" \in DOMAIN o.fields =>
              r.format = IF "format" \in mask THEN o.fields["format"] ELSE Null
BY DEF RawInfo

(* What an accessor makes of a pointer: the value, if the mask names it. *)
LEMMA PointersAre ==
  ASSUME NEW o, IsSane(o), NEW mask, NEW r, r = RawInfo(o, mask)
  PROVE  /\ "props" \in Fields(o.type) =>
              /\ OrNone(r.props) \in FieldValue \cup {None}
              /\ "props" \in mask => OrNone(r.props) = Shown(o, "props")
         /\ "format" \in Fields(o.type) =>
              /\ OrNone(r.format) \in FieldValue \cup {None}
              /\ "format" \in mask => OrNone(r.format) = Shown(o, "format")
         /\ "params" \in Fields(o.type) =>
              /\ ParamsOf(r) \in FieldValue
              /\ "params" \in mask => ParamsOf(r) = Shown(o, "params")
<1>1. \A f \in Fields(o.type) : f \in DOMAIN o.fields /\ o.fields[f] \in Values(o.type, f)
  BY DEF IsSane
<1>2. Values(o.type, "props") = {1, 2} /\ Values(o.type, "format") = {11, 12}
      /\ Values(o.type, "params") = {{1}, {2}}
  BY DEF Values
<1>3. /\ Shown(o, "props") = o.fields["props"] /\ Shown(o, "format") = o.fields["format"]
      /\ Shown(o, "params") = o.fields["params"]
  BY DEF Shown
<1>4. ASSUME "props" \in Fields(o.type)
      PROVE  /\ OrNone(r.props) \in FieldValue \cup {None}
             /\ "props" \in mask => OrNone(r.props) = Shown(o, "props")
  <2>1. o.fields["props"] \in {1, 2} /\ r.props = IF "props" \in mask THEN o.fields["props"] ELSE Null
    BY <1>1, <1>2, <1>4, RawInfoIs
  <2> QED
    BY <1>3, <2>1, FieldValuesAre DEF OrNone
<1>5. ASSUME "format" \in Fields(o.type)
      PROVE  /\ OrNone(r.format) \in FieldValue \cup {None}
             /\ "format" \in mask => OrNone(r.format) = Shown(o, "format")
  <2>1. o.fields["format"] \in {11, 12} /\ r.format = IF "format" \in mask THEN o.fields["format"] ELSE Null
    BY <1>1, <1>2, <1>5, RawInfoIs
  <2> QED
    BY <1>3, <2>1, FieldValuesAre DEF OrNone
<1>6. ASSUME "params" \in Fields(o.type)
      PROVE  /\ ParamsOf(r) \in FieldValue
             /\ "params" \in mask => ParamsOf(r) = Shown(o, "params")
  <2>1. o.fields["params"] \in {{1}, {2}} /\ r.params = IF "params" \in mask THEN o.fields["params"] ELSE Null
    BY <1>1, <1>2, <1>6, RawInfoIs
  <2>2. {} \in FieldValue
    BY DEF FieldValue
  <2> QED
    BY <1>3, <2>1, <2>2, FieldValuesAre DEF ParamsOf
<1> QED
  BY <1>4, <1>5, <1>6

LEMMA StateIsShown ==
  ASSUME NEW o, IsSane(o), NEW mask, NEW r, r = RawInfo(o, mask)
  PROVE  /\ o.type = "Node" => NodeState(r) = Shown(o, "state")
         /\ o.type = "Link" => LinkState(r) = Shown(o, "state")
         /\ o.type \in {"Node", "Link"} =>
              Shown(o, "state") \in {<<s>> : s \in State} \cup {<<"error", "text">>}
<1>1. ASSUME o.type \in {"Node", "Link"}
      PROVE  /\ r.state = o.fields["state"] /\ o.fields["state"] \in Values(o.type, "state")
             /\ r.error = IF o.fields["state"] = "error" THEN "text" ELSE Null
  <2>1. "state" \in Fields(o.type)
    BY <1>1, FieldsAre, NodeFieldsAre DEF LinkChangeMask
  <2> QED
    BY <2>1, RawInfoIs DEF IsSane
<1>2. Shown(o, "state") = IF o.fields["state"] = "error" THEN <<"error", "text">> ELSE <<o.fields["state"]>>
  BY DEF Shown
<1>3. CASE o.type = "Node"
  <2>1. o.fields["state"] \in {"suspended", "error"}
    BY <1>1, <1>3 DEF Values
  <2> QED
    BY <1>1, <1>2, <1>3, <2>1 DEF NodeState, Text, State
<1>4. CASE o.type = "Link"
  <2>1. o.fields["state"] \in {"init", "error"}
    BY <1>1, <1>4 DEF Values
  <2> QED
    BY <1>1, <1>2, <1>4, <2>1 DEF LinkState, Text, State
<1> QED
  BY <1>3, <1>4

(* Each type's accessors show the fields that the mask names. *)
ShowsFields(a, o, mask) ==
  a # Untold /\ a.change_mask = mask /\ \A f \in mask : a[f] = Shown(o, f)

LEMMA NodeIsShown ==
  ASSUME NEW o, IsSane(o), o.type = "Node", NEW mask \in SUBSET NodeChangeMask
  PROVE  ShowsFields(NodeInfoRef(RawInfo(o, mask)), o, mask)
<1>1. PICK r : r = RawInfo(o, mask)
  OBVIOUS
<1>2. PICK a : a = NodeInfoRef(RawInfo(o, mask))
  OBVIOUS
<1>3. /\ Fields(o.type) = NodeChangeMask /\ DOMAIN o.fields = NodeChangeMask
      /\ "input_ports" \in NodeChangeMask /\ "output_ports" \in NodeChangeMask
      /\ "props" \in NodeChangeMask /\ "params" \in NodeChangeMask
  BY FieldsAre, NodeFieldsAre DEF IsSane
<1>4. /\ a.change_mask = mask /\ a.input_ports = r.n_input_ports
      /\ a.output_ports = r.n_output_ports /\ a.state = NodeState(r)
      /\ a.props = OrNone(r.props) /\ a.params = ParamsOf(r)
      /\ a = [change_mask |-> a.change_mask, input_ports |-> a.input_ports,
              output_ports |-> a.output_ports, state |-> a.state, props |-> a.props,
              params |-> a.params]
  BY <1>1, <1>2, RawInfoIs DEF NodeInfoRef
<1>5. r.n_input_ports = o.fields["input_ports"] /\ r.n_output_ports = o.fields["output_ports"]
  BY <1>1, <1>3, RawInfoIs
<1>6. Shown(o, "input_ports") = o.fields["input_ports"] /\ Shown(o, "output_ports") = o.fields["output_ports"]
  BY DEF Shown
<1>7. a # Untold
  <2>1. o.fields["input_ports"] \in {1, 2} /\ o.fields["output_ports"] \in {1, 2}
    BY <1>3 DEF IsSane, Values
  <2>2. a.input_ports \in FieldValue /\ a.output_ports \in FieldValue
    BY <1>4, <1>5, <2>1, FieldValuesAre
  <2>3. a \in InfoArgs("Node")
    BY <1>1, <1>3, <1>4, <2>2, PointersAre, StateIsShown DEF InfoArgs
  <2> QED
    BY <2>3 DEF Kind
<1>8. \A f \in mask : a[f] = Shown(o, f)
  <2> TAKE f \in mask
  <2>1. f = "input_ports" \/ f = "output_ports" \/ f = "state" \/ f = "props" \/ f = "params"
    BY NodeFieldsAre
  <2>2. "props" \in mask => a.props = Shown(o, "props")
    BY <1>1, <1>3, <1>4, PointersAre
  <2>3. "params" \in mask => a.params = Shown(o, "params")
    BY <1>1, <1>3, <1>4, PointersAre
  <2>4. a.state = Shown(o, "state")
    BY <1>1, <1>4, StateIsShown
  <2> QED
    BY <1>4, <1>5, <1>6, <2>1, <2>2, <2>3, <2>4
<1> QED
  BY <1>2, <1>4, <1>7, <1>8 DEF ShowsFields

LEMMA PortIsShown ==
  ASSUME NEW o, IsSane(o), o.type = "Port", NEW mask \in SUBSET PortChangeMask
  PROVE  ShowsFields(PortInfoRef(RawInfo(o, mask)), o, mask)
<1>1. PICK r : r = RawInfo(o, mask)
  OBVIOUS
<1>2. PICK a : a = PortInfoRef(RawInfo(o, mask))
  OBVIOUS
<1>3. a = [change_mask |-> mask, direction |-> "output", props |-> OrNone(r.props), params |-> ParamsOf(r)]
  BY <1>1, <1>2, RawInfoIs DEF PortInfoRef
<1>4. Fields(o.type) = {"props", "params"}
  BY FieldsAre DEF PortChangeMask
<1>5. a \in InfoArgs("Port")
  BY <1>1, <1>3, <1>4, PointersAre DEF InfoArgs
<1>6. \A f \in mask : a[f] = Shown(o, f)
  BY <1>1, <1>3, <1>4, PointersAre DEF PortChangeMask
<1> QED
  BY <1>2, <1>3, <1>5, <1>6 DEF ShowsFields, Kind

LEMMA DeviceIsShown ==
  ASSUME NEW o, IsSane(o), o.type = "Device", NEW mask \in SUBSET DeviceChangeMask
  PROVE  ShowsFields(DeviceInfoRef(RawInfo(o, mask)), o, mask)
<1>1. PICK r : r = RawInfo(o, mask)
  OBVIOUS
<1>2. PICK a : a = DeviceInfoRef(RawInfo(o, mask))
  OBVIOUS
<1>3. a = [change_mask |-> mask, props |-> OrNone(r.props), params |-> ParamsOf(r)]
  BY <1>1, <1>2, RawInfoIs DEF DeviceInfoRef, Declared
<1>4. Fields(o.type) = {"props", "params"}
  BY FieldsAre DEF DeviceChangeMask
<1>5. a \in InfoArgs("Device")
  BY <1>1, <1>3, <1>4, PointersAre DEF InfoArgs
<1>6. \A f \in mask : a[f] = Shown(o, f)
  BY <1>1, <1>3, <1>4, PointersAre DEF DeviceChangeMask
<1> QED
  BY <1>2, <1>3, <1>5, <1>6 DEF ShowsFields, Kind

LEMMA ClientIsShown ==
  ASSUME NEW o, IsSane(o), o.type = "Client", NEW mask \in SUBSET ClientChangeMask
  PROVE  ShowsFields(ClientInfoRef(RawInfo(o, mask)), o, mask)
<1>1. PICK r : r = RawInfo(o, mask)
  OBVIOUS
<1>2. PICK a : a = ClientInfoRef(RawInfo(o, mask))
  OBVIOUS
<1>3. a = [change_mask |-> mask, props |-> OrNone(r.props)]
  BY <1>1, <1>2, RawInfoIs DEF ClientInfoRef, Declared
<1>4. Fields(o.type) = {"props"}
  BY FieldsAre DEF ClientChangeMask
<1>5. a \in InfoArgs("Client")
  BY <1>1, <1>3, <1>4, PointersAre DEF InfoArgs
<1>6. \A f \in mask : a[f] = Shown(o, f)
  BY <1>1, <1>3, <1>4, PointersAre DEF ClientChangeMask
<1> QED
  BY <1>2, <1>3, <1>5, <1>6 DEF ShowsFields, Kind

LEMMA LinkIsShown ==
  ASSUME NEW o, IsSane(o), o.type = "Link", NEW mask \in SUBSET LinkChangeMask
  PROVE  ShowsFields(LinkInfoRef(RawInfo(o, mask)), o, mask)
<1>1. PICK r : r = RawInfo(o, mask)
  OBVIOUS
<1>2. PICK a : a = LinkInfoRef(RawInfo(o, mask))
  OBVIOUS
<1>3. a = [change_mask |-> mask, state |-> LinkState(r), format |-> OrNone(r.format), props |-> OrNone(r.props)]
  BY <1>1, <1>2, RawInfoIs DEF LinkInfoRef
<1>4. Fields(o.type) = {"state", "format", "props"}
  BY FieldsAre DEF LinkChangeMask
<1>5. a \in InfoArgs("Link")
  BY <1>1, <1>3, <1>4, PointersAre, StateIsShown DEF InfoArgs
<1>6. \A f \in mask : a[f] = Shown(o, f)
  BY <1>1, <1>3, <1>4, PointersAre, StateIsShown DEF LinkChangeMask
<1> QED
  BY <1>2, <1>3, <1>5, <1>6 DEF ShowsFields, Kind

LEMMA ModuleIsShown ==
  ASSUME NEW o, IsSane(o), o.type = "Module", NEW mask \in SUBSET ModuleChangeMask
  PROVE  ShowsFields(ModuleInfoRef(RawInfo(o, mask)), o, mask)
<1>1. PICK r : r = RawInfo(o, mask)
  OBVIOUS
<1>2. PICK a : a = ModuleInfoRef(RawInfo(o, mask))
  OBVIOUS
<1>3. a = [change_mask |-> mask, name |-> "text", filename |-> "text", args |-> None,
           props |-> OrNone(r.props)]
  BY <1>1, <1>2, RawInfoIs DEF ModuleInfoRef, Declared, Text
<1>4. Fields(o.type) = {"props"}
  BY FieldsAre DEF ModuleChangeMask
<1>5. a \in InfoArgs("Module")
  BY <1>1, <1>3, <1>4, PointersAre DEF InfoArgs
<1>6. \A f \in mask : a[f] = Shown(o, f)
  BY <1>1, <1>3, <1>4, PointersAre DEF ModuleChangeMask
<1> QED
  BY <1>2, <1>3, <1>5, <1>6 DEF ShowsFields, Kind

LEMMA FactoryIsShown ==
  ASSUME NEW o, IsSane(o), o.type = "Factory", NEW mask \in SUBSET FactoryChangeMask
  PROVE  ShowsFields(FactoryInfoRef(RawInfo(o, mask)), o, mask)
<1>1. PICK r : r = RawInfo(o, mask)
  OBVIOUS
<1>2. PICK a : a = FactoryInfoRef(RawInfo(o, mask))
  OBVIOUS
<1>3. a = [change_mask |-> mask, type_ |-> "Node", version |-> 3, props |-> OrNone(r.props)]
  BY <1>1, <1>2, RawInfoIs DEF FactoryInfoRef, Declared, Text
<1>4. Fields(o.type) = {"props"}
  BY FieldsAre DEF FactoryChangeMask
<1>5. a \in InfoArgs("Factory")
  BY <1>1, <1>3, <1>4, PointersAre DEF InfoArgs
<1>6. \A f \in mask : a[f] = Shown(o, f)
  BY <1>1, <1>3, <1>4, PointersAre DEF FactoryChangeMask
<1> QED
  BY <1>2, <1>3, <1>5, <1>6 DEF ShowsFields, Kind
(* What a closure for news is given does not depend on the others. *)
LEMMA GivenIs ==
  ASSUME NEW e, IsNews(e), e.of \in Kind, e.name = "property" <=> e.of = "Metadata",
         NEW c, e.name \in c
  PROVE  Listener(e.of, c, e) = Given(e)
<1>1. \A x, y : Told(c, e, x) = x /\ Told({"info", "property"}, e, x) = x
  BY DEF Told, IsNews
<1>2. CASE e.of = "Metadata"
  BY <1>1, <1>2 DEF Given, Listener, MetadataListener
<1>3. CASE e.of # "Metadata"
  <2>1. e.name = "info"
    BY <1>3 DEF IsNews
  <2>2. CASE e.of = "Node"
    BY <1>1, <2>1, <2>2 DEF Given, Listener, NodeListener
  <2>3. CASE e.of = "Port"
    BY <1>1, <2>1, <2>3 DEF Given, Listener, PortListener
  <2>4. CASE e.of = "Device"
    BY <1>1, <2>1, <2>4 DEF Given, Listener, DeviceListener
  <2>5. CASE e.of = "Client"
    BY <1>1, <2>1, <2>5 DEF Given, Listener, ClientListener
  <2>6. CASE e.of \in {"Link", "Module", "Factory"}
    BY <1>1, <2>1, <2>6 DEF Given, Listener, LinkListener, ModuleListener, FactoryListener
  <2> QED
    BY <1>3, <2>2, <2>3, <2>4, <2>5, <2>6 DEF Kind
<1> QED
  BY <1>2, <1>3

LEMMA InfoIsGiven ==
  ASSUME NEW o, IsSane(o), o.type # "Metadata", NEW mask \in SUBSET Fields(o.type),
         NEW e, e.name = "info", e.of = o.type, e.info = RawInfo(o, mask)
  PROVE  ShowsFields(Given(e), o, mask)
<1>1. \A x : Told({"info", "property"}, e, x) = x
  BY DEF Told
<1>2. CASE o.type = "Node"
  <2>1. Given(e) = NodeInfoRef(e.info) /\ mask \in SUBSET NodeChangeMask
    BY <1>1, <1>2, FieldsAre DEF Given, Listener, NodeListener
  <2> QED
    BY <1>2, <2>1, NodeIsShown
<1>3. CASE o.type = "Port"
  <2>1. Given(e) = PortInfoRef(e.info) /\ mask \in SUBSET PortChangeMask
    BY <1>1, <1>3, FieldsAre DEF Given, Listener, PortListener
  <2> QED
    BY <1>3, <2>1, PortIsShown
<1>4. CASE o.type = "Device"
  <2>1. Given(e) = DeviceInfoRef(e.info) /\ mask \in SUBSET DeviceChangeMask
    BY <1>1, <1>4, FieldsAre DEF Given, Listener, DeviceListener
  <2> QED
    BY <1>4, <2>1, DeviceIsShown
<1>5. CASE o.type = "Client"
  <2>1. Given(e) = ClientInfoRef(e.info) /\ mask \in SUBSET ClientChangeMask
    BY <1>1, <1>5, FieldsAre DEF Given, Listener, ClientListener
  <2> QED
    BY <1>5, <2>1, ClientIsShown
<1>6. CASE o.type = "Link"
  <2>1. Given(e) = LinkInfoRef(e.info) /\ mask \in SUBSET LinkChangeMask
    BY <1>1, <1>6, FieldsAre DEF Given, Listener, LinkListener
  <2> QED
    BY <1>6, <2>1, LinkIsShown
<1>7. CASE o.type = "Module"
  <2>1. Given(e) = ModuleInfoRef(e.info) /\ mask \in SUBSET ModuleChangeMask
    BY <1>1, <1>7, FieldsAre DEF Given, Listener, ModuleListener
  <2> QED
    BY <1>7, <2>1, ModuleIsShown
<1>8. CASE o.type = "Factory"
  <2>1. Given(e) = FactoryInfoRef(e.info) /\ mask \in SUBSET FactoryChangeMask
    BY <1>1, <1>8, FieldsAre DEF Given, Listener, FactoryListener
  <2> QED
    BY <1>8, <2>1, FactoryIsShown
<1> QED
  BY <1>2, <1>3, <1>4, <1>5, <1>6, <1>7, <1>8 DEF IsSane, Kind

LEMMA PropertyIsNews ==
  ASSUME NEW p \in Proxy, NEW o, IsSane(o), o.type = "Metadata", o.gen \in Nat,
         NEW key \in {"key", Null}, NEW k \in Nat, NEW e, e = Property(p, o, key, k)
  PROVE  e.to = p /\ IsNewsOf(e, o, {"key"})
<1>1. /\ e = [to |-> p, name |-> "property", ordinal |-> k, of |-> "Metadata", gen |-> o.gen,
              subject |-> 0, key |-> key, type |-> Null, value |-> o.fields["key"]]
  BY DEF Property, ToProxy, Event, With
<1>2. Fields(o.type) = {"key"} /\ o.fields["key"] \in {Null, 1}
  <2>1. Values("Metadata", "key") = {Null, 1}
    BY DEF Values
  <2> QED
    BY <2>1, FieldsAre DEF IsSane
<1>3. PICK a : a = Given(e)
  OBVIOUS
<1>4. /\ a = [e EXCEPT !.key = OrNone(key), !.type = None, !.value = OrNone(o.fields["key"])]
      /\ e.of = "Metadata" /\ e.name = "property" /\ e.to = p
  <2>1. a = [e EXCEPT !.key = OrNone(e.key), !.type = OrNone(e.type), !.value = OrNone(e.value)]
    BY <1>1, <1>3 DEF Given, Listener, MetadataListener, Told
  <2>2. OrNone(e.type) = None /\ e.key = key /\ e.value = o.fields["key"]
    BY <1>1 DEF OrNone
  <2> QED
    BY <1>1, <2>1, <2>2
<1>5. OrNone(key) \in {None, "key"} /\ OrNone(o.fields["key"]) \in FieldValue \cup {None}
  BY <1>2, FieldValuesAre DEF OrNone
<1>6. a # Untold /\ a.key = OrNone(key) /\ a.value = OrNone(o.fields["key"])
  <2>1. e \in [to : Proxy, name : {"property"}, ordinal : Nat, of : {"Metadata"}, gen : Nat,
               subject : {0}, key : {key}, type : {Null}, value : {o.fields["key"]}]
    BY <1>1
  <2>2. a \in PropertyEvent(FieldValue \cup {None}) /\ a.key = OrNone(key)
        /\ a.value = OrNone(o.fields["key"])
    BY <1>4, <1>5, <2>1 DEF PropertyEvent
  <2> QED
    BY <2>2
<1>7. Given(e) = a
  BY <1>3
<1>8. CanBeGiven(e)
  BY <1>4, <1>6, <1>7 DEF CanBeGiven, Kind
<1>9. \A q, f : f \in Fields(o.type) => (Tells(e, q, f) <=> e.to = q /\ f \in {"key"})
  BY <1>2, <1>4, <1>5, <1>6, <1>7 DEF Tells, IsNews
<1>10. Tidings(e, "key") = Shown(o, "key")
  BY <1>4, <1>6, <1>7 DEF Tidings, Shown
<1> QED
  BY <1>4, <1>8, <1>9, <1>10 DEF IsNewsOf

(* What the server sends when fields of an object change is what they are. *)
LEMMA ChangeIsNews ==
  ASSUME NEW p \in Proxy, NEW o, IsSane(o), o.gen \in Nat, NEW mask \in SUBSET Fields(o.type),
         mask # {}, NEW k \in Nat, NEW e, e = Change(p, o, mask, k)
  PROVE  e.to = p /\ IsNewsOf(e, o, mask)
<1>1. CASE o.type = "Metadata"
  <2>1. e = Property(p, o, "key", k)
    BY <1>1 DEF Change
  <2>2. mask = {"key"}
    BY <1>1, FieldsAre
  <2> QED
    BY <1>1, <2>1, <2>2, PropertyIsNews
<1>2. CASE o.type # "Metadata"
  <2>1. e.to = p /\ e.name = "info" /\ e.of = o.type /\ e.info = RawInfo(o, mask)
    <3>1. e = With(ToProxy(p, o, "info", k), [info |-> RawInfo(o, mask)])
      BY <1>2 DEF Change
    <3> QED
      BY <3>1 DEF ToProxy, Event, With
  <2>2. ShowsFields(Given(e), o, mask)
    BY <1>2, <2>1, InfoIsGiven
  <2>3. CanBeGiven(e)
    BY <1>2, <2>1, <2>2 DEF CanBeGiven, ShowsFields, IsSane
  <2>4. \A q, f : Tells(e, q, f) <=> e.to = q /\ f \in mask
    BY <2>1, <2>2 DEF Tells, IsNews, ShowsFields
  <2>5. \A f \in mask : Tidings(e, f) = Shown(o, f)
    BY <2>1, <2>2 DEF Tidings, ShowsFields
  <2> QED
    BY <2>1, <2>3, <2>4, <2>5 DEF IsNewsOf
<1> QED
  BY <1>1, <1>2

LEMMA FieldsAreSome ==
  ASSUME NEW t \in Kind
  PROVE  Fields(t) # {}
<1>1. "props" \in NodeChangeMask
  BY NodeFieldsAre
<1>2. CASE t = "Node"
  BY <1>1, <1>2, FieldsAre
<1>3. CASE t \in {"Port", "Device", "Client"}
  BY <1>3, FieldsAre DEF PortChangeMask, DeviceChangeMask, ClientChangeMask
<1>4. CASE t \in {"Link", "Module", "Factory", "Metadata"}
  BY <1>4, FieldsAre DEF LinkChangeMask, ModuleChangeMask, FactoryChangeMask
<1> QED
  BY <1>2, <1>3, <1>4 DEF Kind

-----------------------------------------------------------------------------
(* What the server tells of its objects.                                   *)

(* The object that a proxy stands for after a step. *)
After(p) == object'[resource'[p].id]

(* An event that may be sent: if it is news, then of what is so. *)
IsTrue(e) ==
  e.to \in Proxy /\ IsNews(e) =>
    /\ resource'[e.to] # None /\ CanBeGiven(e)
    /\ \A f \in Fields(After(e.to).type) :
         Tells(e, e.to, f) => Tidings(e, f) = Shown(After(e.to), f)

AllTrue(es) == Queue(es) /\ \A k \in 1 .. Len(es) : IsTrue(es[k])

Hears(es, p, f) == \E k \in 1 .. Len(es) : Tells(es[k], p, f)

(* What proxy p hears in a step that sends es: of each field that has a    *)
(* new value or, if it is bound in this step, of every field.              *)
IsInformed(es, p) ==
  resource'[p] # None =>
    \A f \in Fields(After(p).type) :
      \/ Hears(es, p, f)
      \/ /\ resource[p] # None /\ resource'[p].id = resource[p].id
         /\ Shown(object[resource[p].id], f) = Shown(After(p), f)
      \/ /\ requests # <<>> /\ req.kind \in {"bind", "create"} /\ req.proxy = p
         /\ After(p).type = "Metadata" /\ Shown(After(p), f) = None

ObjectsAreSane == \A i \in Id : object[i] # None => IsSane(object[i])

Informs(es) ==
  /\ AllTrue(es) /\ events' = events \o es /\ ObjectsAreSane'
  /\ \A p \in Proxy : IsInformed(es, p)

LEMMA NothingIsTrue == AllTrue(<<>>)
BY EmptyIsQueue DEF AllTrue

LEMMA OneIsTrue ==
  ASSUME NEW e, IsTrue(e)
  PROVE  AllTrue(<<e>>) /\ \A p, f : Tells(e, p, f) => Hears(<<e>>, p, f)
<1>1. Queue(<<e>>) /\ Len(<<e>>) = 1 /\ <<e>>[1] = e
  BY SingleIsQueue
<1>2. AllTrue(<<e>>)
  BY <1>1 DEF AllTrue
<1>3. 1 \in 1 .. Len(<<e>>)
  BY <1>1
<1> QED
  BY <1>1, <1>2, <1>3 DEF Hears

LEMMA BothAreTrue ==
  ASSUME NEW a, AllTrue(a), NEW b, AllTrue(b)
  PROVE  /\ AllTrue(a \o b)
         /\ \A p, f : Hears(a, p, f) \/ Hears(b, p, f) => Hears(a \o b, p, f)
<1>1. PICK s : s = a \o b
  OBVIOUS
<1>2. Queue(a) /\ Queue(b)
  BY DEF AllTrue
<1>3. /\ \A k \in 1 .. Len(a) : k \in 1 .. Len(s) /\ s[k] = a[k]
      /\ \A k \in 1 .. Len(b) : Len(a) + k \in 1 .. Len(s) /\ s[Len(a) + k] = b[k]
  BY ONLY <1>1, <1>2, Appended
<1>4. AllTrue(s)
  <2>1. Queue(s)
    BY ONLY <1>1, <1>2, Appended
  <2>2. ASSUME NEW k \in 1 .. Len(s)
        PROVE  (k \in 1 .. Len(a) /\ s[k] = a[k]) \/ \E j \in 1 .. Len(b) : s[k] = b[j]
    BY ONLY <1>1, <1>2, <2>2, Appended
  <2> QED
    BY <2>1, <2>2 DEF AllTrue
<1>5. \A p, f : Hears(a, p, f) \/ Hears(b, p, f) => Hears(s, p, f)
  BY <1>3 DEF Hears
<1> QED
  BY <1>1, <1>4, <1>5

(* No news, whatever it is. *)
LEMMA OtherIsTrue ==
  ASSUME NEW e, e.name \in {"bound", "removed", "param", "permissions", "error", "done", "global", "global_remove"}
  PROVE  IsTrue(e) /\ ~IsNews(e)
BY DEF IsTrue, IsNews

LEMMA NewsIsTrue ==
  ASSUME NEW e, e.to \in Proxy, resource'[e.to] # None, NEW mask, IsNewsOf(e, After(e.to), mask)
  PROVE  IsTrue(e)
BY DEF IsTrue, IsNewsOf

LEMMA EachIsTrue ==
  ASSUME NEW S, IsFiniteSet(S), NEW f, f = [i \in 1 .. Cardinality(S) |-> f[i]],
         \A i \in 1 .. Cardinality(S) : SetToSeq(S)[i] \in S => IsTrue(f[i])
  PROVE  AllTrue(f)
BY EachIs DEF AllTrue

(* A step after which every proxy stands for what it did before. *)
Stays(p) ==
  resource'[p] # None =>
    /\ resource[p] # None /\ resource'[p].id = resource[p].id
    /\ After(p) = object[resource[p].id]

LEMMA StayingInforms ==
  ASSUME NEW es, AllTrue(es), events' = events \o es, ObjectsAreSane', \A p \in Proxy : Stays(p)
  PROVE  Informs(es)
BY DEF Informs, IsInformed, Stays

LEMMA SameStays ==
  ASSUME ObjectsAreSane, object' = object, resource' = resource
  PROVE  ObjectsAreSane' /\ \A p \in Proxy : Stays(p)
BY DEF ObjectsAreSane, Stays, After

(* The objects are not changed. *)
LEMMA AnswersInform ==
  ASSUME ObjectsAreSane, object' = object, resource' = resource, NEW es, AllTrue(es),
         events' = events \o es
  PROVE  Informs(es)
BY SameStays, StayingInforms

LEMMA GetRegistryInforms ==
  ASSUME ObjectsAreSane, ServerTypes, HandleGetRegistry
  PROVE  \E es : Informs(es)
<1> DEFINE S == {i \in Id : object[i] # None}
           es == [n \in 1 .. Cardinality(S) |-> Global(SetToSeq(S)[n], object[SetToSeq(S)[n]], req.ordinal)]
<1>1. events' = events \o es /\ object' = object /\ resource' = resource
  BY DEF HandleGetRegistry, Emit, Each
<1>2. IsFiniteSet(S)
  BY FS_Subset
<1>3. es = [n \in 1 .. Cardinality(S) |-> es[n]]
  OBVIOUS
<1>4. \A n \in 1 .. Cardinality(S) : es[n] = Global(SetToSeq(S)[n], object[SetToSeq(S)[n]], req.ordinal)
  OBVIOUS
<1> HIDE DEF es, S
<1>5. \A n \in 1 .. Cardinality(S) : IsTrue(es[n])
  BY <1>4, GlobalIs, OtherIsTrue DEF IsGlobal
<1>6. AllTrue(es)
  BY <1>2, <1>3, <1>5, EachIsTrue
<1> QED
  BY <1>1, <1>6, AnswersInform

LEMMA SyncInforms ==
  ASSUME ObjectsAreSane, HandleSync
  PROVE  \E es : Informs(es)
<1>1. PICK e : e = With(Event("core", "done", req.ordinal), [id |-> CoreId, seq |-> NumberOf(req.ordinal)])
  OBVIOUS
<1>2. events' = events \o <<e>> /\ object' = object /\ resource' = resource
  BY <1>1 DEF HandleSync, Emit
<1>3. e.name = "done"
  BY <1>1 DEF With, Event
<1>4. AllTrue(<<e>>)
  BY <1>3, OtherIsTrue, OneIsTrue
<1> QED
  BY <1>2, <1>4, AnswersInform

LEMMA RefusalInforms ==
  ASSUME ObjectsAreSane, NEW p, Refuse(p)
  PROVE  \E es : Informs(es)
<1>1. PICK a, b : a = Error(p, req.ordinal) /\ b = Event(p, "removed", req.ordinal)
  OBVIOUS
<1>2. events' = events \o <<a, b>> /\ object' = object /\ resource' = resource
  BY <1>1 DEF Refuse, Emit
<1>3. a.name = "error" /\ b.name = "removed"
  BY <1>1, ErrorIs DEF Event
<1>4. AllTrue(<<a>> \o <<b>>)
  BY <1>3, OtherIsTrue, OneIsTrue, BothAreTrue
<1>5. AllTrue(<<a, b>>)
  BY <1>4, PairIsBoth
<1> QED
  BY <1>2, <1>5, AnswersInform

LEMMA GoneInforms ==
  ASSUME ObjectsAreSane, ServerTypes, NEW id \in Id, NEW k, Gone(id, k)
  PROVE  \E es : Informs(es)
<1> DEFINE B == Bound(id)
           rs == [n \in 1 .. Cardinality(B) |-> Event(SetToSeq(B)[n], "removed", k)]
           gr == With(Event("registry", "global_remove", k), [id |-> id, gen |-> object[id].gen])
           gs == IF listed THEN <<gr>> ELSE <<>>
<1>1. /\ events' = events \o (rs \o gs)
      /\ object' = [object EXCEPT ![id] = None]
      /\ resource' = [p \in Proxy |-> IF p \in B THEN None ELSE resource[p]]
  BY DEF Gone, Emit, Each
<1>2. AllTrue(rs)
  <2>1. IsFiniteSet(B)
    BY BoundIsFinite
  <2>2. rs = [n \in 1 .. Cardinality(B) |-> rs[n]]
    OBVIOUS
  <2>3. \A n \in 1 .. Cardinality(B) : rs[n].name = "removed"
    BY DEF Event
  <2> HIDE DEF rs, B
  <2>4. \A n \in 1 .. Cardinality(B) : IsTrue(rs[n])
    BY <2>3, OtherIsTrue
  <2> QED
    BY <2>1, <2>2, <2>4, EachIsTrue
<1>3. AllTrue(gs)
  <2>1. gr.name = "global_remove"
    BY DEF With, Event
  <2> HIDE DEF gr
  <2>2. AllTrue(<<gr>>)
    BY <2>1, OtherIsTrue, OneIsTrue
  <2> QED
    BY <2>2, NothingIsTrue
<1>4. object'[id] = None /\ \A i \in Id \ {id} : object'[i] = object[i]
  BY <1>1 DEF ServerTypes
<1>5. ObjectsAreSane'
  BY <1>4 DEF ObjectsAreSane
<1>6. \A p \in Proxy : Stays(p)
  BY <1>1, <1>4 DEF Stays, After, Bound, ServerTypes, Resource
<1> HIDE DEF rs, gs
<1>7. AllTrue(rs \o gs)
  BY <1>2, <1>3, BothAreTrue
<1> QED
  BY <1>1, <1>5, <1>6, <1>7, StayingInforms

LEMMA DestroyInforms ==
  ASSUME ObjectsAreSane, ServerInv, Queue(events), HandleDestroy
  PROVE  \E es : Informs(es)
<1> DEFINE r == resource[req.proxy]
<1>1. req.proxy \in Proxy
  BY RequestIs DEF HandleDestroy
<1>2. CASE r # None /\ r.owner
  <2>1. Gone(r.id, req.ordinal) /\ r.id \in Id
    BY <1>1, <1>2 DEF HandleDestroy, ServerInv, ServerTypes, Resource
  <2> QED
    BY <2>1, GoneInforms DEF ServerInv
<1>3. CASE r = None \/ (r # None /\ ~r.owner)
  <2>1. /\ events' = events /\ object' = object
        /\ resource' = resource \/ resource' = [resource EXCEPT ![req.proxy] = None]
    BY <1>3 DEF HandleDestroy
  <2>2. events' = events \o <<>>
    BY <2>1, SilenceIsSent
  <2>3. ObjectsAreSane' /\ \A p \in Proxy : Stays(p)
    BY <1>1, <2>1 DEF ObjectsAreSane, Stays, After, ServerInv, ServerTypes
  <2> QED
    BY <2>2, <2>3, NothingIsTrue, StayingInforms
<1> QED
  BY <1>2, <1>3

LEMMA DestroyGlobalInforms ==
  ASSUME ObjectsAreSane, ServerInv, HandleDestroyGlobal
  PROVE  \E es : Informs(es)
<1>1. req.id \in Id
  BY RequestIs DEF HandleDestroyGlobal
<1>2. CASE object[req.id] # None
  BY <1>1, <1>2, GoneInforms DEF ServerInv, HandleDestroyGlobal
<1>3. CASE object[req.id] = None
  <2>1. PICK e : e = Error("registry", req.ordinal)
    OBVIOUS
  <2>2. events' = events \o <<e>> /\ object' = object /\ resource' = resource
    BY <1>3, <2>1 DEF HandleDestroyGlobal, Emit
  <2>3. AllTrue(<<e>>)
    BY <2>1, ErrorIs, OtherIsTrue, OneIsTrue
  <2> QED
    BY <2>2, <2>3, AnswersInform
<1> QED
  BY <1>2, <1>3
(* An object of which a field was set. *)
IsWith(n, o, f, v) == n = [o EXCEPT !.fields[f] = v]

LEMMA FieldStaysSane ==
  ASSUME NEW t \in Kind, NEW o \in Object(t), IsSane(o), NEW f \in Fields(t), NEW v \in Values(t, f),
         NEW n, IsWith(n, o, f, v)
  PROVE  /\ IsSane(n) /\ n.type = t /\ n.gen \in Nat
         /\ \A g \in Fields(t) \ {f} : Shown(n, g) = Shown(o, g)
<1>1. n.type = o.type /\ n.gen = o.gen /\ n.fields = [o.fields EXCEPT ![f] = v] /\ o.type = t
      /\ o.gen \in Nat
  BY DEF Object, IsWith
<1>2. DOMAIN o.fields = Fields(t) /\ \A g \in Fields(t) : o.fields[g] \in Values(t, g)
  BY <1>1 DEF IsSane
<1>3. /\ DOMAIN n.fields = Fields(t) /\ n.fields[f] = v
      /\ \A g \in Fields(t) \ {f} : n.fields[g] = o.fields[g]
  BY <1>1, <1>2
<1>4. IsSane(n)
  BY <1>1, <1>2, <1>3 DEF IsSane
<1>5. \A g \in Fields(t) \ {f} : Shown(n, g) = Shown(o, g)
  <2> TAKE g \in Fields(t) \ {f}
  <2>1. n.fields[g] = o.fields[g]
    BY <1>3
  <2> QED
    BY ONLY <2>1 DEF Shown
<1> QED
  BY <1>1, <1>4, <1>5

(* One event for everyone bound to an object of which a field was set. *)
LEMMA BoundAreTold ==
  ASSUME ObjectsAreSane, ServerTypes, NEW id \in Id, object[id] # None, NEW n, IsSane(n),
         n.type = object[id].type, object' = [object EXCEPT ![id] = n], resource' = resource,
         NEW f \in Fields(n.type), \A g \in Fields(n.type) \ {f} : Shown(n, g) = Shown(object[id], g),
         NEW cs, cs = [i \in 1 .. Cardinality(Bound(id)) |-> cs[i]],
         \A i \in 1 .. Cardinality(Bound(id)) : SetToSeq(Bound(id))[i] \in Proxy =>
           cs[i].to = SetToSeq(Bound(id))[i] /\ IsNewsOf(cs[i], n, {f}),
         NEW ps, AllTrue(ps), events' = events \o (cs \o ps)
  PROVE  Informs(cs \o ps)
<1>1. object'[id] = n /\ \A i \in Id \ {id} : object'[i] = object[i]
  BY DEF ServerTypes
<1>2. \A p \in Bound(id) : p \in Proxy /\ resource'[p] # None /\ After(p) = n
  BY <1>1 DEF Bound, After
<1>3. /\ Queue(cs) /\ Len(cs) = Cardinality(Bound(id))
      /\ \A i \in 1 .. Len(cs) : SetToSeq(Bound(id))[i] \in Bound(id)
      /\ \A p \in Bound(id) : \E i \in 1 .. Len(cs) : SetToSeq(Bound(id))[i] = p
  <2>1. IsFiniteSet(Bound(id)) /\ cs = [i \in 1 .. Cardinality(Bound(id)) |-> cs[i]]
    BY BoundIsFinite
  <2> QED
    BY ONLY <2>1, EachIs
<1>4. \A i \in 1 .. Len(cs) : /\ cs[i].to \in Bound(id) /\ cs[i].to = SetToSeq(Bound(id))[i]
                              /\ IsNewsOf(cs[i], n, {f})
  BY <1>2, <1>3
<1>5. AllTrue(cs)
  BY <1>2, <1>3, <1>4, NewsIsTrue DEF AllTrue
<1>6. \A p \in Bound(id) : Hears(cs, p, f)
  <2> TAKE p \in Bound(id)
  <2>1. PICK i \in 1 .. Len(cs) : SetToSeq(Bound(id))[i] = p
    BY <1>3
  <2>2. Tells(cs[i], p, f)
    BY <1>4, <2>1 DEF IsNewsOf
  <2> QED
    BY <2>2 DEF Hears
<1>7. AllTrue(cs \o ps) /\ \A p \in Bound(id) : Hears(cs \o ps, p, f)
  BY <1>5, <1>6, BothAreTrue
<1>8. ObjectsAreSane'
  BY <1>1 DEF ObjectsAreSane
<1>9. ASSUME NEW p \in Proxy
      PROVE  IsInformed(cs \o ps, p)
  <2>1. CASE p \in Bound(id)
    <3>1. resource[p] # None /\ resource'[p].id = resource[p].id /\ resource[p].id = id
      BY <2>1 DEF Bound
    <3>2. \A g \in Fields(n.type) : g = f \/ Shown(object[resource[p].id], g) = Shown(After(p), g)
      BY <1>2, <2>1, <3>1
    <3> QED
      BY <1>2, <1>7, <2>1, <3>1, <3>2 DEF IsInformed
  <2>2. CASE p \notin Bound(id)
    <3>1. resource'[p] # None => /\ resource[p] # None /\ resource'[p].id = resource[p].id
                                 /\ After(p) = object[resource[p].id]
      BY <1>1, <2>2 DEF Bound, After, ServerTypes, Resource
    <3> QED
      BY <3>1 DEF IsInformed
  <2> QED
    BY <2>1, <2>2
<1> QED
  BY <1>7, <1>8, <1>9 DEF Informs

LEMMA SetInforms ==
  ASSUME ObjectsAreSane, ServerTypes, NEW id \in Id, object[id] # None,
         NEW f \in Fields(object[id].type), NEW v \in Values(object[id].type, f), NEW k \in Nat,
         Set(id, f, v, k), resource' = resource
  PROVE  \E es : Informs(es)
<1>1. PICK t \in Kind : object[id] \in Object(t)
  BY DEF ServerTypes
<1>2. object[id].type = t /\ IsSane(object[id])
  BY <1>1 DEF Object, ObjectsAreSane
<1> DEFINE n == [object[id] EXCEPT !.fields[f] = v]
           Subscribed == {p \in Bound(id) : f = "params" /\ resource[p].subscribed}
           cs == [i \in 1 .. Cardinality(Bound(id)) |-> Change(SetToSeq(Bound(id))[i], n, {f}, k)]
           ps == [i \in 1 .. Cardinality(Subscribed) |-> Param(SetToSeq(Subscribed)[i], n, 0, k)]
<1>3. object' = [object EXCEPT ![id] = n] /\ events' = events \o (cs \o ps)
  BY DEF Set, Emit, Each
<1>4. /\ IsSane(n) /\ n.type = t /\ n.gen \in Nat
      /\ \A g \in Fields(t) \ {f} : Shown(n, g) = Shown(object[id], g)
  <2>1. PICK o : o = object[id]
    OBVIOUS
  <2>2. t \in Kind /\ o \in Object(t) /\ IsSane(o) /\ f \in Fields(t) /\ v \in Values(t, f)
    BY <1>1, <1>2, <2>1
  <2>3. IsWith(n, o, f, v)
    BY <2>1 DEF IsWith
  <2> HIDE DEF n
  <2>4. /\ IsSane(n) /\ n.type = t /\ n.gen \in Nat
        /\ \A g \in Fields(t) \ {f} : Shown(n, g) = Shown(o, g)
    BY ONLY <2>2, <2>3, FieldStaysSane
  <2> QED
    BY ONLY <2>1, <2>4
<1> HIDE DEF n
<1>5. cs = [i \in 1 .. Cardinality(Bound(id)) |-> cs[i]]
  OBVIOUS
<1>6. \A i \in 1 .. Cardinality(Bound(id)) : SetToSeq(Bound(id))[i] \in Proxy =>
        cs[i].to = SetToSeq(Bound(id))[i] /\ IsNewsOf(cs[i], n, {f})
  <2> TAKE i \in 1 .. Cardinality(Bound(id))
  <2>1. cs[i] = Change(SetToSeq(Bound(id))[i], n, {f}, k)
    OBVIOUS
  <2>2. {f} \in SUBSET Fields(n.type) /\ {f} # {}
    BY <1>2, <1>4
  <2> QED
    BY <1>4, <2>1, <2>2, ChangeIsNews
<1>7. AllTrue(ps)
  <2>1. IsFiniteSet(Subscribed)
    BY BoundIsFinite, FS_Subset
  <2>2. ps = [i \in 1 .. Cardinality(Subscribed) |-> ps[i]]
    OBVIOUS
  <2>3. \A i \in 1 .. Cardinality(Subscribed) : ps[i].name = "param"
    BY ParamIs
  <2> HIDE DEF ps, Subscribed
  <2>4. \A i \in 1 .. Cardinality(Subscribed) : IsTrue(ps[i])
    BY <2>3, OtherIsTrue
  <2> QED
    BY <2>1, <2>2, <2>4, EachIsTrue
<1> HIDE DEF cs, ps
<1>8. f \in Fields(n.type) /\ n.type = object[id].type
      /\ \A g \in Fields(n.type) \ {f} : Shown(n, g) = Shown(object[id], g)
  BY <1>2, <1>4
<1> QED
  BY <1>3, <1>4, <1>5, <1>6, <1>7, <1>8, BoundAreTold

LEMMA ClearInforms ==
  ASSUME ObjectsAreSane, ServerTypes, NEW id \in Id, object[id] # None, object[id].type = "Metadata",
         NEW k \in Nat, NEW c, c = [object[id] EXCEPT !.fields["key"] = Null],
         object' = [object EXCEPT ![id] = c], resource' = resource,
         NEW cs, cs = [i \in 1 .. Cardinality(Bound(id)) |-> Property(SetToSeq(Bound(id))[i], c, Null, k)],
         events' = events \o cs
  PROVE  \E es : Informs(es)
<1>1. "key" \in Fields("Metadata") /\ Null \in Values("Metadata", "key") /\ "Metadata" \in Kind
  BY FieldsAre DEF Values, Kind
<1>2. object[id] \in Object("Metadata") /\ IsSane(object[id])
  BY DEF ServerTypes, Object, ObjectsAreSane
<1>3. /\ IsSane(c) /\ c.type = "Metadata" /\ c.gen \in Nat
      /\ \A g \in Fields("Metadata") \ {"key"} : Shown(c, g) = Shown(object[id], g)
  <2>1. PICK o, t, f, v : o = object[id] /\ t = "Metadata" /\ f = "key" /\ v = Null
    OBVIOUS
  <2>2. t \in Kind /\ o \in Object(t) /\ IsSane(o) /\ f \in Fields(t) /\ v \in Values(t, f)
    BY <1>1, <1>2, <2>1
  <2>3. IsWith(c, o, f, v)
    BY <2>1 DEF IsWith
  <2>4. /\ IsSane(c) /\ c.type = t /\ c.gen \in Nat
        /\ \A g \in Fields(t) \ {f} : Shown(c, g) = Shown(o, g)
    BY ONLY <2>2, <2>3, FieldStaysSane
  <2> QED
    BY ONLY <2>1, <2>4
<1>0. cs = [i \in 1 .. Cardinality(Bound(id)) |-> Property(SetToSeq(Bound(id))[i], c, Null, k)]
  OBVIOUS
<1>4. cs = [i \in 1 .. Cardinality(Bound(id)) |-> cs[i]]
  BY ONLY <1>0
<1>5. \A i \in 1 .. Cardinality(Bound(id)) : SetToSeq(Bound(id))[i] \in Proxy =>
        cs[i].to = SetToSeq(Bound(id))[i] /\ IsNewsOf(cs[i], c, {"key"})
  <2> TAKE i \in 1 .. Cardinality(Bound(id))
  <2>1. cs[i] = Property(SetToSeq(Bound(id))[i], c, Null, k)
    BY ONLY <1>0
  <2>2. Null \in {"key", Null}
    OBVIOUS
  <2>3. PICK p, e, key, o : p = SetToSeq(Bound(id))[i] /\ e = cs[i] /\ key = Null /\ o = c
    OBVIOUS
  <2>4. ASSUME p \in Proxy
        PROVE  e.to = p /\ IsNewsOf(e, o, {"key"})
    <3>1. /\ p \in Proxy /\ IsSane(o) /\ o.type = "Metadata" /\ o.gen \in Nat /\ key \in {"key", Null}
          /\ k \in Nat /\ e = Property(p, o, key, k)
      BY <1>3, <2>1, <2>2, <2>3, <2>4
    <3> QED
      BY ONLY <3>1, PropertyIsNews
  <2> QED
    BY ONLY <2>3, <2>4
<1>6. Queue(cs)
  <2>1. IsFiniteSet(Bound(id))
    BY BoundIsFinite
  <2> QED
    BY ONLY <1>4, <2>1, EachIs
<1>7. cs \o <<>> = cs
  BY <1>6 DEF Queue
<1>8. events' = events \o (cs \o <<>>)
  BY <1>7
<1>9. PICK f, ps : f = "key" /\ ps = <<>>
  OBVIOUS
<1>10. /\ ObjectsAreSane /\ ServerTypes /\ id \in Id /\ object[id] # None /\ IsSane(c)
       /\ c.type = object[id].type /\ object' = [object EXCEPT ![id] = c] /\ resource' = resource
       /\ f \in Fields(c.type)
  BY <1>1, <1>3, <1>9
<1>11. \A g \in Fields(c.type) \ {f} : Shown(c, g) = Shown(object[id], g)
  BY <1>3, <1>9
<1>12. \A i \in 1 .. Cardinality(Bound(id)) : SetToSeq(Bound(id))[i] \in Proxy =>
         cs[i].to = SetToSeq(Bound(id))[i] /\ IsNewsOf(cs[i], c, {f})
  BY <1>5, <1>9
<1>13. AllTrue(ps) /\ events' = events \o (cs \o ps)
  BY <1>8, <1>9, NothingIsTrue
<1>14. Informs(cs \o ps)
  BY ONLY <1>4, <1>10, <1>11, <1>12, <1>13, BoundAreTold
<1> QED
  BY ONLY <1>14

LEMMA FirstIsTrue ==
  ASSUME NEW p \in Proxy, NEW o, IsSane(o), o.gen \in Nat, NEW k \in Nat, resource'[p] # None,
         After(p) = o
  PROVE  /\ AllTrue(First(p, o, k))
         /\ \A f \in Fields(o.type) :
              \/ Hears(First(p, o, k), p, f)
              \/ o.type = "Metadata" /\ Shown(o, f) = None
<1>1. CASE o.type = "Metadata" /\ o.fields["key"] = Null
  <2>1. First(p, o, k) = <<>>
    BY <1>1 DEF First
  <2>2. \A f \in Fields(o.type) : Shown(o, f) = None
    BY <1>1, FieldsAre DEF Shown, OrNone
  <2> QED
    BY <1>1, <2>1, <2>2, NothingIsTrue
<1>2. CASE ~(o.type = "Metadata" /\ o.fields["key"] = Null)
  <2>1. PICK e : e = Change(p, o, Fields(o.type), k)
    OBVIOUS
  <2>2. First(p, o, k) = <<e>>
    BY <1>2, <2>1 DEF First
  <2>3. Fields(o.type) \in SUBSET Fields(o.type) /\ Fields(o.type) # {}
    BY FieldsAreSome DEF IsSane
  <2>4. e.to = p /\ IsNewsOf(e, o, Fields(o.type))
    BY <2>1, <2>3, ChangeIsNews
  <2>5. IsTrue(e)
    BY <2>4, NewsIsTrue
  <2>6. \A f \in Fields(o.type) : Tells(e, p, f)
    BY <2>4 DEF IsNewsOf
  <2> QED
    BY <2>2, <2>5, <2>6, OneIsTrue
<1> QED
  BY <1>1, <1>2

(* What a proxy is told first, after the registry's listener perhaps. *)
LEMMA FirstInforms ==
  ASSUME ObjectsAreSane', ServerTypes, requests # <<>>, req.kind \in {"bind", "create"}, NEW p \in Proxy,
         req.proxy = p, NEW o, IsSane(o), o.gen \in Nat, NEW k \in Nat, resource'[p] # None, After(p) = o,
         NEW a, AllTrue(a), events' = events \o (a \o First(p, o, k)),
         \A q \in Proxy \ {p} : Stays(q)
  PROVE  Informs(a \o First(p, o, k))
<1>1. PICK fs : fs = First(p, o, k)
  OBVIOUS
<1>2. /\ AllTrue(fs)
      /\ \A f \in Fields(o.type) : Hears(fs, p, f) \/ (o.type = "Metadata" /\ Shown(o, f) = None)
  <2>0. p \in Proxy /\ IsSane(o) /\ o.gen \in Nat /\ k \in Nat /\ resource'[p] # None /\ After(p) = o
    OBVIOUS
  <2>1. AllTrue(First(p, o, k))
    BY ONLY <2>0, FirstIsTrue
  <2>2. \A f \in Fields(o.type) :
          Hears(First(p, o, k), p, f) \/ (o.type = "Metadata" /\ Shown(o, f) = None)
    BY ONLY <2>0, FirstIsTrue
  <2> QED
    BY ONLY <1>1, <2>1, <2>2
<1>3. AllTrue(a \o fs) /\ \A q, f : Hears(fs, q, f) => Hears(a \o fs, q, f)
  BY <1>2, BothAreTrue
<1>4. IsInformed(a \o fs, p)
  BY <1>2, <1>3 DEF IsInformed
<1>5. \A q \in Proxy \ {p} : IsInformed(a \o fs, q)
  BY DEF IsInformed, Stays
<1>6. events' = events \o (a \o fs)
  BY <1>1
<1>7. Informs(a \o fs)
  BY <1>3, <1>4, <1>5, <1>6 DEF Informs
<1> QED
  BY <1>1, <1>7

LEMMA OrdinalIsNat ==
  ASSUME WireInv, requests # <<>>
  PROVE  req.ordinal \in Nat
<1>1. Queue(requests) /\ calls \in Nat /\ Len(requests) <= calls
      /\ \A i \in 1 .. Len(requests) : requests[i].ordinal = (calls - Len(requests)) + i
  BY DEF WireInv, RequestsInOrder, Handled
<1>2. Head(requests) = requests[1] /\ Len(requests) \in Nat \ {0}
  BY <1>1, QueueTail
<1>3. req.ordinal = (calls - Len(requests)) + 1
  BY <1>1, <1>2 DEF req
<1> QED
  BY <1>1, <1>2, <1>3

LEMMA AnswerIsTrue ==
  ASSUME NEW p, NEW k
  PROVE  AllTrue(<<Event(p, "bound", k)>>)
<1>1. PICK e : e = Event(p, "bound", k)
  OBVIOUS
<1>2. e.name = "bound"
  BY <1>1 DEF Event
<1>3. AllTrue(<<e>>)
  BY <1>2, OtherIsTrue, OneIsTrue
<1> QED
  BY <1>1, <1>3

LEMMA BindInforms ==
  ASSUME ObjectsAreSane, WireInv, ServerInv, HandleBind
  PROVE  \E es : Informs(es)
<1> DEFINE o == object[req.id]
           p == req.proxy
           k == req.ordinal
<1>1. /\ requests # <<>> /\ req.kind = "bind" /\ p \in Proxy /\ req.id \in Id
      /\ k \in Nat
  BY RequestIs, OrdinalIsNat DEF HandleBind
<1>2. CASE o # None /\ ToStr(ObjectType(o.type)) = req.type
  <2>1. /\ resource' = [resource EXCEPT ![p] = [id |-> req.id, subscribed |-> FALSE, owner |-> FALSE]]
        /\ events' = events \o (<<Event(p, "bound", k)>> \o First(p, o, k)) /\ object' = object
    BY <1>2 DEF HandleBind, Emit
  <2>2. [id |-> req.id, subscribed |-> FALSE, owner |-> FALSE] \in Resource
    BY <1>1 DEF Resource
  <2>3. resource'[p] # None /\ resource'[p].id = req.id
        /\ \A q \in Proxy \ {p} : resource'[q] = resource[q]
    BY <1>1, <2>1, <2>2 DEF ServerInv, ServerTypes
  <2>4. ObjectsAreSane' /\ After(p) = o
    BY <2>1, <2>3 DEF ObjectsAreSane, After
  <2>5. \A q \in Proxy \ {p} : Stays(q)
    BY <2>1, <2>3 DEF Stays, After
  <2>6. IsSane(o) /\ o.gen \in Nat
    <3>1. \E t \in Kind : o \in Object(t)
      BY <1>1, <1>2 DEF ServerInv, ServerTypes
    <3> QED
      BY <1>1, <1>2, <3>1 DEF ObjectsAreSane, Object
  <2>7. AllTrue(<<Event(p, "bound", k)>>)
    BY AnswerIsTrue
  <2>8. ServerTypes /\ req.kind \in {"bind", "create"} /\ req.proxy = p /\ requests # <<>>
    BY <1>1 DEF ServerInv
  <2>9. PICK a : a = <<Event(p, "bound", k)>>
    OBVIOUS
  <2>10. AllTrue(a) /\ events' = events \o (a \o First(p, o, k)) /\ p \in Proxy /\ k \in Nat
         /\ resource'[p] # None
    BY <1>1, <2>1, <2>3, <2>7, <2>9
  <2> HIDE DEF o, p, k
  <2>11. Informs(a \o First(p, o, k))
    BY ONLY <2>4, <2>5, <2>6, <2>8, <2>10, FirstInforms
  <2> QED
    BY ONLY <2>11
<1>3. CASE ~(o # None /\ ToStr(ObjectType(o.type)) = req.type)
  <2>1. Refuse(p)
    BY <1>3 DEF HandleBind
  <2> QED
    BY <2>1, RefusalInforms
<1> QED
  BY <1>2, <1>3

LEMMA NewIsSane ==
  ASSUME NEW t \in Kind, NEW g
  PROVE  IsSane(NewObject(t, g))
<1>1. NewObject(t, g).type = t /\ NewObject(t, g).fields = [f \in Fields(t) |-> Initially(t, f)]
  BY DEF NewObject
<1>2. \A f : Initially(t, f) \in Values(t, f)
  BY DEF Initially, Values
<1> QED
  BY <1>1, <1>2 DEF IsSane

LEMMA AnnounceIsTrue ==
  ASSUME NEW id, NEW o, NEW k
  PROVE  AllTrue(Announce(id, o, k))
<1>1. PICK e : e = Global(id, o, k)
  OBVIOUS
<1>2. AllTrue(<<e>>)
  BY <1>1, GlobalIs, OtherIsTrue, OneIsTrue DEF IsGlobal
<1> QED
  BY <1>1, <1>2, NothingIsTrue DEF Announce

LEMMA CreateInforms ==
  ASSUME ObjectsAreSane, WireInv, ServerInv, HandleCreate
  PROVE  \E es : Informs(es)
<1> DEFINE p == req.proxy
           k == req.ordinal
<1>1. requests # <<>> /\ req.kind = "create" /\ p \in Proxy /\ req.type \in Kind /\ k \in Nat
  BY RequestIs, OrdinalIsNat DEF HandleCreate
<1>2. CASE \A i \in Id : object[i] # None
  <2>1. Refuse(p)
    BY <1>2 DEF HandleCreate
  <2> QED
    BY <2>1, RefusalInforms
<1>3. CASE ~ \A i \in Id : object[i] # None
  <2> DEFINE i == CHOOSE j \in Id : object[j] = None
             o == NewObject(req.type, gens + 1)
             r == [id |-> i, subscribed |-> FALSE, owner |-> TRUE]
             a == Announce(i, o, k) \o <<Event(p, "bound", k)>>
  <2>1. i \in Id /\ object[i] = None
    BY <1>3
  <2>2. /\ object' = [object EXCEPT ![i] = o]
        /\ resource' = [resource EXCEPT ![p] = r]
        /\ events' = events \o (Announce(i, o, k) \o <<Event(p, "bound", k)>> \o First(p, o, k))
    BY <1>3 DEF HandleCreate, Emit
  <2>3. gens + 1 \in Nat
    BY DEF ServerInv, ServerTypes
  <2>4. o \in Object(req.type) /\ o # None /\ o.gen \in Nat /\ IsSane(o)
    BY <1>1, <2>3, NewIsObject, NewIsSane
  <2>5. r \in Resource /\ r.id = i
    BY <2>1 DEF Resource
  <2>6. AllTrue(a)
    BY AnnounceIsTrue, AnswerIsTrue, BothAreTrue
  <2>7. events' = events \o (a \o First(p, o, k))
    BY <2>2
  <2> HIDE DEF i, o, r, a
  <2>8. object'[i] = o /\ \A j \in Id \ {i} : object'[j] = object[j]
    BY <2>1, <2>2 DEF ServerInv, ServerTypes
  <2>9. resource'[p] = r /\ r # None /\ \A q \in Proxy \ {p} : resource'[q] = resource[q]
    BY <1>1, <2>2, <2>5 DEF ServerInv, ServerTypes
  <2>10. ObjectsAreSane' /\ After(p) = o
    BY <2>4, <2>5, <2>8, <2>9 DEF ObjectsAreSane, After
  <2>11. \A q \in Proxy \ {p} : Stays(q)
    BY <2>1, <2>8, <2>9 DEF Stays, After, ServerInv, ServerTypes, Resource
  <2>12. ServerTypes /\ req.kind \in {"bind", "create"} /\ req.proxy = p /\ requests # <<>>
         /\ resource'[p] # None
    BY <1>1, <2>9 DEF ServerInv
  <2> HIDE DEF p, k
  <2>13. Informs(a \o First(p, o, k))
    BY ONLY <1>1, <2>4, <2>6, <2>7, <2>10, <2>11, <2>12, FirstInforms
  <2> QED
    BY ONLY <2>13
<1> QED
  BY <1>2, <1>3

(* What the methods change, and of which types of objects. *)
LEMMA MethodTypes ==
  ASSUME NEW t \in Kind, NEW m \in DOMAIN Interface(t).methods
  PROVE  /\ m = "set_param" => t \in {"Node", "Device"}
         /\ m = "send_command" => t = "Node"
         /\ m = "update_properties" => t = "Client"
         /\ m \in {"set_property", "clear"} => t = "Metadata"
<1>1. CASE t = "Node"
  <2>1. m \in {"subscribe_params", "enum_params", "set_param", "send_command"}
    BY <1>1 DEF Interface, Node
  <2> QED
    BY <1>1, <2>1
<1>2. CASE t = "Port"
  BY <1>2 DEF Interface, Port
<1>3. CASE t = "Device"
  BY <1>3 DEF Interface, Device
<1>4. CASE t = "Client"
  BY <1>4 DEF Interface, Client
<1>5. CASE t \in {"Link", "Module", "Factory"}
  BY <1>5 DEF Interface, Link, Module, Factory
<1>6. CASE t = "Metadata"
  <2>1. m \in {"set_property", "clear"}
    BY <1>6 DEF Interface, Metadata
  <2> QED
    BY <1>6, <2>1
<1>7. t \in {"Node", "Port", "Device"} \/ t \in {"Client", "Metadata"} \/ t \in {"Link", "Module", "Factory"}
  BY DEF Kind
<1>8. CASE t \in {"Node", "Port", "Device"}
  BY <1>1, <1>2, <1>3, <1>8
<1>9. CASE t \in {"Client", "Metadata"}
  BY <1>4, <1>6, <1>9
<1> QED
  BY <1>5, <1>7, <1>8, <1>9, Zenon

LEMMA MethodSets ==
  ASSUME NEW t \in Kind, NEW m \in DOMAIN Interface(t).methods, NEW v \in Arg(m)
  PROVE  /\ m = "set_param" => "params" \in Fields(t) /\ v \in Values(t, "params")
         /\ m = "send_command" => "state" \in Fields(t) /\ v \in Values(t, "state")
         /\ m = "update_properties" => "props" \in Fields(t) /\ v \in Values(t, "props")
         /\ m = "set_property" => "key" \in Fields(t) /\ v \in Values(t, "key")
<1>1. CASE m = "set_param"
  <2>1. t = "Node" \/ t = "Device"
    BY <1>1, MethodTypes
  <2>2. "params" \in Fields(t)
    BY <2>1, FieldsAre, NodeFieldsAre DEF DeviceChangeMask
  <2>3. v \in Values(t, "params")
    BY <1>1 DEF Arg, Values
  <2> QED
    BY <1>1, <2>2, <2>3
<1>2. CASE m = "send_command"
  <2>1. t = "Node"
    BY <1>2, MethodTypes
  <2>2. "state" \in Fields(t)
    BY <2>1, FieldsAre, NodeFieldsAre
  <2>3. v \in Values(t, "state")
    BY <1>2, <2>1 DEF Arg, Values
  <2> QED
    BY <1>2, <2>2, <2>3
<1>3. CASE m = "update_properties"
  <2>1. t = "Client"
    BY <1>3, MethodTypes
  <2>2. "props" \in Fields(t)
    BY <2>1, FieldsAre DEF ClientChangeMask
  <2>3. v \in Values(t, "props")
    BY <1>3 DEF Arg, Values
  <2> QED
    BY <1>3, <2>2, <2>3
<1>4. CASE m = "set_property"
  <2>1. t = "Metadata"
    BY <1>4, MethodTypes
  <2>2. "key" \in Fields(t)
    BY <2>1, FieldsAre
  <2>3. v \in Values(t, "key")
    BY <1>4 DEF Arg, Values
  <2> QED
    BY <1>4, <2>2, <2>3
<1> QED
  BY <1>1, <1>2, <1>3, <1>4

LEMMA MethodInforms ==
  ASSUME ObjectsAreSane, WireInv, ServerInv, Queue(events), HandleMethod
  PROVE  \E es : Informs(es)
<1> DEFINE p == req.proxy
           r == resource[p]
           o == object[r.id]
           k == req.ordinal
           name == TableOf(o.type)[req.slot]
<1>1. p \in Proxy /\ k \in Nat
  BY RequestIs, OrdinalIsNat DEF HandleMethod, Handles
<1>2. ASSUME NEW e, e.name \in {"error", "param", "permissions"}
      PROVE  AllTrue(<<e>>)
  BY <1>2, OtherIsTrue, OneIsTrue
<1>3. CASE r = None
  <2>1. PICK e : e = Error(p, k)
    OBVIOUS
  <2>2. events' = events \o <<e>> /\ object' = object /\ resource' = resource
    BY <1>3, <2>1 DEF HandleMethod, Emit
  <2>3. AllTrue(<<e>>)
    BY <1>2, <2>1, ErrorIs
  <2> QED
    BY <2>2, <2>3, AnswersInform
<1>4. CASE r # None
  <2>1. r.id \in Id /\ o # None /\ o.type \in Kind /\ o \in Object(o.type) /\ r \in Resource
    BY <1>1, <1>4 DEF ServerInv, ServerTypes, Resource, Object
  <2>2. PICK m \in DOMAIN Interface(o.type).methods :
          /\ req.slot = Interface(o.type).methods[m]
          /\ IF m = "enum_params" THEN req.id \in {IdAny, "Props"} ELSE req.value \in Arg(m)
    <3>1. IsMethodOf(req, o.type)
      BY <1>4, <2>1, RequestIs DEF HandleMethod, StandsFor
    <3> QED
      BY <3>1 DEF IsMethodOf
  <2>3. name = m
    BY <2>1, <2>2, SlotsAgree
  <2>4. CASE name = "subscribe_params"
    <3>1. PICK e : e = Param(p, o, 0, k)
      OBVIOUS
    <3>2. /\ resource' = [resource EXCEPT ![p].subscribed = TRUE] /\ object' = object
          /\ events' = events \o <<e>>
      BY <1>4, <2>4, <3>1 DEF HandleMethod, Emit
    <3>3. AllTrue(<<e>>)
      BY <1>2, <3>1, ParamIs
    <3>4. \A q \in Proxy : Stays(q)
      <4>1. resource'[p].id = r.id /\ \A q \in Proxy \ {p} : resource'[q] = resource[q]
        BY <1>1, <2>1, <3>2 DEF ServerInv, ServerTypes, Resource
      <4> QED
        BY <1>4, <3>2, <4>1 DEF Stays, After
    <3>5. ObjectsAreSane'
      BY <3>2 DEF ObjectsAreSane
    <3> QED
      BY <3>2, <3>3, <3>4, <3>5, StayingInforms
  <2>5. CASE name = "enum_params"
    <3>1. PICK e : e = Param(p, o, req.seq, k)
      OBVIOUS
    <3>2. resource' = resource /\ object' = object /\ events' = events \o <<e>>
      BY <1>4, <2>2, <2>3, <2>5, <3>1 DEF HandleMethod, Emit
    <3>3. AllTrue(<<e>>)
      BY <1>2, <3>1, ParamIs
    <3> QED
      BY <3>2, <3>3, AnswersInform
  <2>6. CASE name = "get_permissions"
    <3>1. PICK e : e = With(ToProxy(p, o, "permissions", k), [index |-> 0, permissions |-> <<>>])
      OBVIOUS
    <3>2. resource' = resource /\ object' = object /\ events' = events \o <<e>>
      BY <1>4, <2>6, <3>1 DEF HandleMethod, Emit
    <3>3. e.name = "permissions"
      BY <3>1 DEF ToProxy, Event, With
    <3>4. AllTrue(<<e>>)
      BY <1>2, <3>3
    <3> QED
      BY <3>2, <3>4, AnswersInform
  <2>7. CASE name \in {"set_param", "send_command", "update_properties", "set_property"}
    <3>1. PICK f : /\ Set(r.id, f, req.value, k) /\ resource' = resource
                   /\ f = CASE name = "set_param" -> "params"
                            [] name = "send_command" -> "state"
                            [] name = "update_properties" -> "props"
                            [] name = "set_property" -> "key"
      BY <1>4, <2>7 DEF HandleMethod
    <3>2. f \in Fields(o.type) /\ req.value \in Values(o.type, f)
      <4>1. req.value \in Arg(m) /\ m = name
        BY <2>2, <2>3, <2>7
      <4>2. /\ m = "set_param" => "params" \in Fields(o.type) /\ req.value \in Values(o.type, "params")
            /\ m = "send_command" => "state" \in Fields(o.type) /\ req.value \in Values(o.type, "state")
            /\ m = "update_properties" =>
                 "props" \in Fields(o.type) /\ req.value \in Values(o.type, "props")
            /\ m = "set_property" => "key" \in Fields(o.type) /\ req.value \in Values(o.type, "key")
        BY <2>1, <2>2, <4>1, MethodSets
      <4> HIDE DEF name
      <4>3. CASE name = "set_param"
        BY ONLY <3>1, <4>1, <4>2, <4>3
      <4>4. CASE name = "send_command"
        BY ONLY <3>1, <4>1, <4>2, <4>4
      <4>5. CASE name = "update_properties"
        BY ONLY <3>1, <4>1, <4>2, <4>5
      <4>6. CASE name = "set_property"
        BY ONLY <3>1, <4>1, <4>2, <4>6
      <4> QED
        BY ONLY <2>7, <4>3, <4>4, <4>5, <4>6
    <3>3. ServerTypes
      BY DEF ServerInv
    <3> QED
      BY <1>1, <2>1, <3>1, <3>2, <3>3, SetInforms
  <2>8. CASE name = "clear"
    <3>1. PICK c : c = [o EXCEPT !.fields["key"] = Null]
      OBVIOUS
    <3>2. PICK cs : cs = [i \in 1 .. Cardinality(Bound(r.id)) |-> Property(SetToSeq(Bound(r.id))[i], c, Null, k)]
      OBVIOUS
    <3>3. object' = [object EXCEPT ![r.id] = c] /\ events' = events \o cs /\ resource' = resource
      BY <1>4, <2>8, <3>1, <3>2 DEF HandleMethod, Emit, Each
    <3>4. o.type = "Metadata" /\ ServerTypes
      BY <2>1, <2>2, <2>3, <2>8, MethodTypes DEF ServerInv
    <3> QED
      BY <1>1, <2>1, <3>1, <3>2, <3>3, <3>4, ClearInforms
  <2>9. CASE name \notin {"subscribe_params", "enum_params", "get_permissions", "set_param",
                           "send_command", "update_properties", "set_property", "clear"}
    <3>1. object' = object /\ resource' = resource /\ events' = events
      BY <1>4, <2>9 DEF HandleMethod
    <3>2. events' = events \o <<>>
      BY <3>1, SilenceIsSent
    <3> QED
      BY <3>1, <3>2, NothingIsTrue, AnswersInform
  <2> QED
    BY <2>4, <2>5, <2>6, <2>7, <2>8, <2>9
<1> QED
  BY <1>3, <1>4

LEMMA AppearsInforms ==
  ASSUME ObjectsAreSane, ServerTypes, NEW id \in Id, NEW t \in New, Appears(id, t)
  PROVE  \E es : Informs(es)
<1>1. PICK o, a : o = NewObject(t, gens + 1) /\ a = Announce(id, o, 0)
  OBVIOUS
<1>2. /\ object[id] = None /\ object' = [object EXCEPT ![id] = o] /\ events' = events \o a
      /\ resource' = resource
  BY <1>1 DEF Appears, Unasked, Emit
<1>3. IsSane(o) /\ AllTrue(a)
  BY <1>1, NewIsSane, AnnounceIsTrue
<1>4. object'[id] = o /\ \A i \in Id \ {id} : object'[i] = object[i]
  BY <1>2 DEF ServerTypes
<1>5. ObjectsAreSane'
  BY <1>3, <1>4 DEF ObjectsAreSane
<1>6. \A p \in Proxy : Stays(p)
  BY <1>2, <1>4 DEF Stays, After, ServerTypes, Resource
<1> QED
  BY <1>2, <1>3, <1>5, <1>6, StayingInforms

LEMMA ServerInforms ==
  ASSUME ObjectsAreSane, SessionInv, Server
  PROVE  \E es : Informs(es)
<1>1. WireInv /\ ServerInv /\ ServerTypes /\ Queue(events)
  BY DEF SessionInv, ServerInv, WireInv, EventsInOrder
<1>2. CASE HandleGetRegistry
  BY <1>1, <1>2, GetRegistryInforms
<1>3. CASE HandleSync
  BY <1>1, <1>3, SyncInforms
<1>4. CASE HandleBind
  BY <1>1, <1>4, BindInforms
<1>5. CASE HandleCreate
  BY <1>1, <1>5, CreateInforms
<1>6. CASE HandleDestroy
  BY <1>1, <1>6, DestroyInforms
<1>7. CASE HandleDestroyGlobal
  BY <1>1, <1>7, DestroyGlobalInforms
<1>8. CASE HandleMethod
  BY <1>1, <1>8, MethodInforms
<1>9. ASSUME NEW id \in Id, NEW t \in New, Appears(id, t)
      PROVE  \E es : Informs(es)
  BY <1>1, <1>9, AppearsInforms
<1>10. ASSUME NEW id \in Id, Vanishes(id)
       PROVE  \E es : Informs(es)
  <2>1. Gone(id, 0)
    BY <1>10 DEF Vanishes
  <2> QED
    BY <1>1, <2>1, GoneInforms
<1>11. ASSUME NEW id \in Id, NEW f, NEW v, Changes(id, f, v)
       PROVE  \E es : Informs(es)
  <2>1. /\ object[id] # None /\ Set(id, f, v, 0) /\ resource' = resource
        /\ f \in Fields(object[id].type) /\ v \in Values(object[id].type, f)
    BY <1>11 DEF Changes, Unasked
  <2> QED
    BY <1>1, <2>1, SetInforms
<1> QED
  BY <1>2, <1>3, <1>4, <1>5, <1>6, <1>7, <1>8, <1>9, <1>10, <1>11 DEF Server

-----------------------------------------------------------------------------
(* What the program does to what it keeps of an object.                    *)

(* What is kept of an object before it is told of. *)
Blank(type) == [f \in Fields(type) |-> IF type = "Metadata" THEN None ELSE Untold]

(* A request for what the proxy will stand for. *)
Makes(r, p) == r.kind \in {"bind", "create"} /\ r.proxy = p

KeepsMirror(p) == proxy'[p].mirror = proxy[p].mirror /\ proxy'[p].missed = proxy[p].missed

MirrorMoves(p) ==
  \/ proxy'[p].state # "live"
  \/ /\ proxy[p].state = "live" /\ proxy'[p].type = proxy[p].type /\ KeepsMirror(p)
     /\ proxy'[p].closures \in {proxy[p].closures, Handlers(proxy[p].type)}
  \/ /\ proxy[p].state = "live" /\ proxy'[p].type = proxy[p].type
     /\ proxy'[p].mirror = Blank(proxy[p].type) /\ proxy'[p].closures = {} /\ proxy'[p].missed = TRUE
  \/ /\ proxy[p].state = "unused" /\ proxy'[p].closures = {}
     /\ proxy'[p].mirror = Blank(proxy'[p].type) /\ proxy'[p].missed = FALSE
     /\ \A j, k \in 1 .. Len(requests') : Makes(requests'[j], p) /\ Makes(requests'[k], p) => j = k

(* A proxy that is told of nothing yet. *)
IsBlank(q, type) == q.type = type /\ q.closures = {} /\ q.mirror = Blank(type)

LEMMA NewIsBlank ==
  ASSUME NEW type, NEW from, NEW q, q = NewProxy(type, from)
  PROVE  IsBlank(q, type) /\ q.missed = FALSE
<1>1. PICK b : b = Blank(type)
  OBVIOUS
<1>2. q = [NoProxy EXCEPT !.state = "live", !.type = type, !.from = from, !.mirror = b]
  BY <1>1 DEF NewProxy, Blank
<1>3. q.type = type /\ q.closures = {} /\ q.mirror = b /\ q.missed = FALSE
  BY <1>2 DEF NoProxy
<1> QED
  BY <1>1, <1>3 DEF IsBlank

LEMMA LateIsBlank ==
  ASSUME NEW type, NEW from, NEW q, q = [NewProxy(type, from) EXCEPT !.missed = TRUE]
  PROVE  IsBlank(q, type) /\ q.missed = TRUE
<1>1. PICK n : n = NewProxy(type, from)
  OBVIOUS
<1>2. IsBlank(n, type) /\ DOMAIN n = DOMAIN NoProxy
  BY <1>1, NewIsBlank, NewProxyIs
<1>3. /\ q = [n EXCEPT !.missed = TRUE]
      /\ DOMAIN n = {"state", "type", "from", "shows", "closures", "mirror", "missed", "asked"}
  BY <1>1, <1>2 DEF NoProxy
<1>4. q.missed = TRUE /\ q.type = n.type /\ q.closures = n.closures /\ q.mirror = n.mirror
  BY <1>3
<1> QED
  BY <1>2, <1>4 DEF IsBlank

LEMMA OthersKeepMirrors ==
  ASSUME SessionInv, NEW q \in Proxy, proxy'[q] = proxy[q]
  PROVE  MirrorMoves(q)
BY DEF MirrorMoves, KeepsMirror

(* A proxy is made by one request. *)
LEMMA OneMakes ==
  ASSUME SessionInv, NEW r, Request(<<r>>), NEW p \in Proxy, proxy[p].state = "unused"
  PROVE  \A j, k \in 1 .. Len(requests') : Makes(requests'[j], p) /\ Makes(requests'[k], p) => j = k
<1> DEFINE ns == [i \in DOMAIN <<r>> |-> With(<<r>>[i], [ordinal |-> calls + i])]
<1>1. Queue(<<r>>) /\ Len(<<r>>) = 1
  BY SingleIsQueue
<1>2. DOMAIN <<r>> = 1 .. 1
  BY <1>1, QueueIs
<1>3. Queue(ns) /\ Len(ns) = 1
  BY <1>2, FunctionIsQueue
<1>4. requests' = requests \o ns
  BY DEF Request
<1> HIDE DEF ns
<1>5. Queue(requests)
  BY DEF SessionInv, WireInv, RequestsInOrder
<1>6. /\ Len(requests') = Len(requests) + Len(ns) /\ Len(requests) \in Nat
      /\ \A i \in 1 .. Len(requests) : requests'[i] = requests[i]
  <2>1. PICK q : q = requests
    OBVIOUS
  <2>2. PICK s : s = requests'
    OBVIOUS
  <2>3. Queue(q) /\ Queue(ns) /\ s = q \o ns
    BY <1>3, <1>4, <1>5, <2>1, <2>2
  <2>4. /\ Len(s) = Len(q) + Len(ns) /\ Len(q) \in Nat
        /\ \A i \in 1 .. Len(q) : s[i] = q[i]
    BY ONLY <2>3, Appended
  <2> QED
    BY ONLY <2>1, <2>2, <2>4
<1>7. \A k \in 1 .. Len(requests) : ~Makes(requests[k], p)
  BY DEF SessionInv, ProxyInv, UnusedIsFresh, Makes
<1>8. /\ Len(requests') = Len(requests) + 1 /\ Len(requests) \in Nat
      /\ \A i \in 1 .. Len(requests) : ~Makes(requests'[i], p)
  BY ONLY <1>3, <1>6, <1>7
<1>9. \A j \in 1 .. Len(requests') : Makes(requests'[j], p) => j = Len(requests) + 1
  BY ONLY <1>8
<1> QED
  BY ONLY <1>9

LEMMA NewMoves ==
  ASSUME SessionInv, NEW p \in Proxy, proxy[p].state = "unused", NEW t, NEW from,
         proxy' = [proxy EXCEPT ![p] = NewProxy(t, from)], NEW r, Request(<<r>>)
  PROVE  \A q \in Proxy : MirrorMoves(q)
<1>1. proxy'[p] = NewProxy(t, from) /\ \A q \in Proxy \ {p} : proxy'[q] = proxy[q]
  BY DEF SessionInv, ProxyInv, ProxyTypes
<1>2. \A j, k \in 1 .. Len(requests') : Makes(requests'[j], p) /\ Makes(requests'[k], p) => j = k
  BY OneMakes
<1>3. PICK n : n = NewProxy(t, from)
  OBVIOUS
<1>4. IsBlank(n, t) /\ n.missed = FALSE /\ proxy'[p] = n
  BY <1>1, <1>3, NewIsBlank
<1>5. MirrorMoves(p)
  BY <1>2, <1>4 DEF MirrorMoves, IsBlank
<1> QED
  BY <1>1, <1>5, OthersKeepMirrors

LEMMA EndMoves ==
  ASSUME SessionInv, NEW p \in Proxy, proxy' = [proxy EXCEPT ![p] = [NoProxy EXCEPT !.state = "gone"]]
  PROVE  \A q \in Proxy : MirrorMoves(q)
<1>1. proxy'[p] = [NoProxy EXCEPT !.state = "gone"] /\ \A q \in Proxy \ {p} : proxy'[q] = proxy[q]
  BY DEF SessionInv, ProxyInv, ProxyTypes
<1>2. proxy'[p].state = "gone"
  BY <1>1, GoneProxyIs
<1>3. MirrorMoves(p)
  BY <1>2 DEF MirrorMoves
<1> QED
  BY <1>1, <1>3, OthersKeepMirrors

LEMMA ProxyIsRecord ==
  ASSUME SessionInv, NEW p \in Proxy
  PROVE  /\ DOMAIN proxy = Proxy
         /\ DOMAIN proxy[p] = {"state", "type", "from", "shows", "closures", "mirror", "missed", "asked"}
BY DEF SessionInv, ProxyInv, ProxyTypes, NoProxy

LEMMA ProgramMovesMirrors ==
  ASSUME SessionInv, Program
  PROVE  \A p \in Proxy : MirrorMoves(p)
<1>1. ASSUME proxy' = proxy
      PROVE  \A p \in Proxy : MirrorMoves(p)
  BY <1>1, OthersKeepMirrors
<1>2. ASSUME NEW c, GetRegistry(c)
      PROVE  \A p \in Proxy : MirrorMoves(p)
  BY <1>1, <1>2 DEF GetRegistry
<1>3. CASE CoreSync
  BY <1>1, <1>3 DEF CoreSync
<1>4. ASSUME NEW id, DestroyGlobal(id)
      PROVE  \A p \in Proxy : MirrorMoves(p)
  BY <1>1, <1>4 DEF DestroyGlobal, programVars
<1>5. ASSUME NEW p \in Proxy, NEW id \in Id, NEW t, Bind(p, id, t)
      PROVE  \A q \in Proxy : MirrorMoves(q)
  <2> DEFINE bind == [kind |-> "bind", proxy |-> p, id |-> id, type |-> ToStr(globals[id].type)]
             fits == ObjectType(t) = globals[id].type
  <2>1. /\ proxy[p].state = "unused" /\ Request(IF fits THEN <<bind>> ELSE <<bind, Dropping(p)>>)
        /\ proxy' = [proxy EXCEPT ![p] = IF fits THEN NewProxy(t, globals[id].gen)
                                         ELSE [NoProxy EXCEPT !.state = "gone"]]
    BY <1>5 DEF Bind
  <2> HIDE DEF bind, fits
  <2>2. CASE fits
    <3>1. PICK from : from = globals[id].gen
      OBVIOUS
    <3>2. /\ SessionInv /\ p \in Proxy /\ proxy[p].state = "unused" /\ Request(<<bind>>)
          /\ proxy' = [proxy EXCEPT ![p] = NewProxy(t, from)]
      BY <2>1, <2>2, <3>1
    <3> QED
      BY ONLY <3>2, NewMoves
  <2>3. CASE ~fits
    <3>1. proxy' = [proxy EXCEPT ![p] = [NoProxy EXCEPT !.state = "gone"]]
      BY <2>1, <2>3
    <3> QED
      BY <3>1, EndMoves
  <2> QED
    BY <2>2, <2>3
<1>6. ASSUME NEW p \in Proxy, NEW t, CreateObject(p, t)
      PROVE  \A q \in Proxy : MirrorMoves(q)
  <2>1. PICK r : r = [kind |-> "create", proxy |-> p, type |-> t]
    OBVIOUS
  <2>2. proxy[p].state = "unused" /\ Request(<<r>>) /\ proxy' = [proxy EXCEPT ![p] = NewProxy(t, None)]
    BY <1>6, <2>1 DEF CreateObject
  <2> QED
    BY <2>2, NewMoves
<1>7. ASSUME NEW p \in Proxy, DestroyObject(p) \/ DropProxy(p)
      PROVE  \A q \in Proxy : MirrorMoves(q)
  <2>1. proxy' = [proxy EXCEPT ![p] = [NoProxy EXCEPT !.state = "gone"]]
    BY <1>7 DEF DestroyObject, DropProxy
  <2> QED
    BY <2>1, EndMoves
<1>8. ASSUME NEW p \in Proxy, Unlisten(p)
      PROVE  \A q \in Proxy : MirrorMoves(q)
  <2>1. PICK n : n = [NewProxy(proxy[p].type, proxy[p].from) EXCEPT !.missed = TRUE]
    OBVIOUS
  <2>2. proxy[p].state = "live" /\ proxy' = [proxy EXCEPT ![p] = n]
    BY <1>8, <2>1 DEF Unlisten
  <2>3. proxy'[p] = n /\ \A q \in Proxy \ {p} : proxy'[q] = proxy[q]
    BY <2>2, ProxyIsRecord
  <2>4. IsBlank(n, proxy[p].type) /\ n.missed = TRUE
    BY <2>1, LateIsBlank
  <2>5. MirrorMoves(p)
    BY <2>2, <2>3, <2>4 DEF MirrorMoves, IsBlank
  <2> QED
    BY <2>3, <2>5, OthersKeepMirrors
<1>9. ASSUME NEW p \in Proxy, Listen(p, Handlers(proxy[p].type))
      PROVE  \A q \in Proxy : MirrorMoves(q)
  <2>1. PICK c : c = Handlers(proxy[p].type)
    OBVIOUS
  <2>2. proxy[p].state = "live" /\ proxy' = [proxy EXCEPT ![p] = [proxy[p] EXCEPT !.closures = c]]
    BY <1>9, <2>1 DEF Listen
  <2>3. proxy'[p] = [proxy[p] EXCEPT !.closures = c] /\ \A q \in Proxy \ {p} : proxy'[q] = proxy[q]
    BY <2>2, ProxyIsRecord
  <2>4. /\ proxy'[p].type = proxy[p].type /\ proxy'[p].mirror = proxy[p].mirror
        /\ proxy'[p].missed = proxy[p].missed /\ proxy'[p].closures = c
    BY <2>3, ProxyIsRecord
  <2>5. MirrorMoves(p)
    BY <2>1, <2>2, <2>4 DEF MirrorMoves, KeepsMirror
  <2> QED
    BY <2>3, <2>5, OthersKeepMirrors
<1>10. ASSUME NEW p \in Proxy, NEW m, NEW a, Method(p, m, a)
       PROVE  \A q \in Proxy : MirrorMoves(q)
  <2>1. /\ proxy[p].state = "live"
        /\ \/ proxy' = proxy
           \/ proxy' = [proxy EXCEPT ![p].asked = @ \cup {calls + 1}]
    BY <1>10 DEF Method
  <2>2. CASE proxy' = [proxy EXCEPT ![p].asked = @ \cup {calls + 1}]
    <3>1. PICK s : s = proxy[p].asked \cup {calls + 1}
      OBVIOUS
    <3>2. proxy' = [proxy EXCEPT ![p] = [proxy[p] EXCEPT !.asked = s]]
      BY <2>2, <3>1
    <3>3. proxy'[p] = [proxy[p] EXCEPT !.asked = s] /\ \A q \in Proxy \ {p} : proxy'[q] = proxy[q]
      BY <3>2, ProxyIsRecord
    <3>4. /\ proxy'[p].type = proxy[p].type /\ proxy'[p].mirror = proxy[p].mirror
          /\ proxy'[p].missed = proxy[p].missed /\ proxy'[p].closures = proxy[p].closures
      BY <3>3, ProxyIsRecord
    <3>5. MirrorMoves(p)
      BY <2>1, <3>4 DEF MirrorMoves, KeepsMirror
    <3> QED
      BY <3>3, <3>5, OthersKeepMirrors
  <2> QED
    BY <1>1, <2>1, <2>2
<1> QED
  BY <1>2, <1>3, <1>4, <1>5, <1>6, <1>7, <1>8, <1>9, <1>10 DEF Program

-----------------------------------------------------------------------------
(* What a delivery makes of what is kept.                                  *)

(* A listener has every closure, or there is none and nothing was kept. *)
Mirrors ==
  \A p \in Proxy : proxy[p].state = "live" =>
    /\ DOMAIN proxy[p].mirror = Fields(proxy[p].type) /\ proxy[p].missed \in BOOLEAN
    /\ \/ proxy[p].closures = Handlers(proxy[p].type)
       \/ proxy[p].closures = {} /\ proxy[p].mirror = Blank(proxy[p].type)

NewsIsGiven ==
  \A k \in 1 .. Len(events) : events[k].to \in Proxy /\ IsNews(events[k]) => CanBeGiven(events[k])

(* What becomes of what is kept for a proxy when ev is delivered. *)
Heard(p) ==
  /\ DOMAIN proxy'[p].mirror = DOMAIN proxy[p].mirror
  /\ \/ KeepsMirror(p) /\ ~(ev.to = p /\ IsNews(ev))
     \/ /\ ev.to = p /\ IsNews(ev) /\ proxy[p].closures = {}
        /\ proxy'[p].mirror = proxy[p].mirror /\ proxy'[p].missed = TRUE
     \/ /\ ev.to = p /\ IsNews(ev) /\ proxy[p].closures # {} /\ proxy'[p].missed = proxy[p].missed
        /\ \A f \in DOMAIN proxy[p].mirror :
             proxy'[p].mirror[f] = IF Tells(ev, p, f) THEN Tidings(ev, f) ELSE proxy[p].mirror[f]

(* Nobody is told of news without a closure for them. *)
LEMMA UntoldIs ==
  ASSUME NEW e, IsNews(e), e.of \in Kind
  PROVE  Listener(e.of, {}, e) = Untold
<1>1. \A x : Told({}, e, x) = Untold
  BY DEF Told
<1>2. CASE e.of \in {"Node", "Port"}
  BY <1>1, <1>2 DEF Listener, NodeListener, PortListener
<1>3. CASE e.of \in {"Device", "Client"}
  BY <1>1, <1>3 DEF Listener, DeviceListener, ClientListener
<1>4. CASE e.of \in {"Link", "Module"}
  BY <1>1, <1>4 DEF Listener, LinkListener, ModuleListener
<1>5. CASE e.of \in {"Factory", "Metadata"}
  BY <1>1, <1>5 DEF Listener, FactoryListener, MetadataListener
<1>6. e.of \in {"Node", "Port"} \/ e.of \in {"Device", "Client"} \/ e.of \in {"Link", "Module"}
      \/ e.of \in {"Factory", "Metadata"}
  BY DEF Kind
<1> QED
  BY ONLY <1>2, <1>3, <1>4, <1>5, <1>6

(* Every type of object has a closure for its news. *)
LEMMA HandlersHear ==
  ASSUME NEW t \in Kind
  PROVE  /\ t = "Metadata" => "property" \in Handlers(t)
         /\ t # "Metadata" => "info" \in Handlers(t)
<1>1. CASE t \in {"Node", "Port", "Device"}
  BY <1>1 DEF Handlers, Interface, Node, Port, Device
<1>2. CASE t \in {"Client", "Metadata"}
  BY <1>2 DEF Handlers, Interface, Client, Metadata
<1>3. CASE t \in {"Link", "Module", "Factory"}
  BY <1>3 DEF Handlers, Interface, Link, Module, Factory
<1>4. t \in {"Node", "Port", "Device"} \/ t \in {"Client", "Metadata"} \/ t \in {"Link", "Module", "Factory"}
  BY DEF Kind
<1> QED
  BY ONLY <1>1, <1>2, <1>3, <1>4

(* What news add to what is kept of an object. *)
KeptOf(m, old, args) ==
  /\ DOMAIN m = DOMAIN old
  /\ \A f \in DOMAIN old :
       m[f] = IF ev.name = "info" THEN IF f \in args.change_mask THEN args[f] ELSE old[f]
              ELSE IF args.key \in {None, f} THEN args.value ELSE old[f]

LEMMA KeptMirrorIs ==
  ASSUME NEW q, DOMAIN q = DOMAIN NoProxy, NEW args
  PROVE  /\ Kept(q, args).missed = q.missed
         /\ ~IsNews(ev) => Kept(q, args).mirror = q.mirror
         /\ IsNews(ev) => KeptOf(Kept(q, args).mirror, q.mirror, args)
<1>1. DOMAIN q = {"state", "type", "from", "shows", "closures", "mirror", "missed", "asked"}
  BY DEF NoProxy
<1>2. CASE ev.name = "info"
  <2>1. PICK m : m = [f \in DOMAIN q.mirror |-> IF f \in args.change_mask THEN args[f] ELSE q.mirror[f]]
    OBVIOUS
  <2>2. Kept(q, args) = [q EXCEPT !.mirror = m, !.shows = ev.gen]
    BY <1>2, <2>1, Zenon DEF Kept
  <2>3. Kept(q, args).missed = q.missed /\ Kept(q, args).mirror = m
    BY <1>1, <2>2
  <2> QED
    BY <1>2, <2>1, <2>3 DEF IsNews, KeptOf
<1>3. CASE ev.name = "property"
  <2>1. PICK m : m = [f \in DOMAIN q.mirror |-> IF args.key \in {None, f} THEN args.value ELSE q.mirror[f]]
    OBVIOUS
  <2>2. Kept(q, args) = [q EXCEPT !.mirror = m, !.shows = ev.gen]
    BY <1>3, <2>1, Zenon DEF Kept
  <2>3. Kept(q, args).missed = q.missed /\ Kept(q, args).mirror = m
    BY <1>1, <2>2
  <2> QED
    BY <1>3, <2>1, <2>3 DEF IsNews, KeptOf
<1>4. CASE ev.name = "param"
  <2>1. PICK a : a = q.asked \ {args.seq}
    OBVIOUS
  <2>2. Kept(q, args) = [q EXCEPT !.asked = a, !.shows = ev.gen]
    BY <1>4, <2>1, Zenon DEF Kept
  <2>3. Kept(q, args).missed = q.missed /\ Kept(q, args).mirror = q.mirror
    BY <1>1, <2>2
  <2> QED
    BY <1>4, <2>3 DEF IsNews
<1>5. CASE ev.name \notin {"info", "property", "param"}
  <2>1. Kept(q, args) = q
    BY <1>5, Zenon DEF Kept
  <2> QED
    BY <1>5, <2>1 DEF IsNews
<1> QED
  BY <1>2, <1>3, <1>4, <1>5

LEMMA NewsIsHeard ==
  ASSUME SessionInv, Mirrors, NewsIsGiven, ev = events[1], 1 \in 1 .. Len(events), DeliverProxy,
         NEW p \in Proxy, proxy[p].state = "live"
  PROVE  Heard(p)
<1> DEFINE q == proxy[ev.to]
           args == IF ev.name \in ProxyCallbacks THEN ProxyListener(q.closures, ev)
                   ELSE Listener(q.type, q.closures, ev)
           n == IF args = Untold THEN [q EXCEPT !.missed = (q.missed \/ ev.name \in {"info", "property"})]
                ELSE Kept(q, args)
<1>1. ev.to \in Proxy /\ proxy' = IF q.state = "gone" THEN proxy ELSE [proxy EXCEPT ![ev.to] = n]
  BY DEF DeliverProxy, Delivers
<1>2. CASE p # ev.to
  <2>1. proxy'[p] = proxy[p]
    BY <1>1, <1>2
  <2> QED
    BY <1>2, <2>1 DEF Heard, KeepsMirror
<1>3. CASE p = ev.to
  <2>1. proxy'[p] = n /\ q = proxy[p] /\ DOMAIN q = DOMAIN NoProxy
    BY <1>1, <1>3 DEF SessionInv, ProxyInv, ProxyTypes
  <2>2. DOMAIN q = {"state", "type", "from", "shows", "closures", "mirror", "missed", "asked"}
    BY <2>1 DEF NoProxy
  <2>3. args = Untold => /\ n.mirror = q.mirror
                         /\ n.missed = (q.missed \/ ev.name \in {"info", "property"})
    BY <2>2
  <2>4. args # Untold => n = Kept(q, args)
    OBVIOUS
  <2>5. CASE IsNews(ev)
    <3>1. ev.of = q.type /\ CanBeGiven(ev) /\ q.type \in Kind /\ q.state = "live"
      BY <1>1, <1>3, <2>5 DEF SessionInv, ProxyInv, ProxyTypes, EventTypes, Contents, IsNews, NewsIsGiven
    <3>2. args = Listener(ev.of, q.closures, ev)
      BY <2>5, <3>1 DEF IsNews, ProxyCallbacks
    <3>3. CASE q.closures = {}
      <4>1. args = Untold
        BY <2>5, <3>1, <3>2, <3>3, UntoldIs
      <4>2. (q.missed \/ ev.name \in {"info", "property"}) = TRUE
        BY <2>5 DEF IsNews
      <4>3. n.mirror = q.mirror /\ n.missed = TRUE
        BY <2>3, <4>1, <4>2
      <4> HIDE DEF n, args, q
      <4> QED
        BY <1>3, <2>1, <2>5, <3>3, <4>3 DEF Heard
    <3>4. CASE q.closures # {}
      <4>1. q.closures = Handlers(q.type)
        BY <1>3, <3>4 DEF Mirrors
      <4>2. ev.name \in q.closures
        BY <2>5, <3>1, <4>1, HandlersHear DEF IsNews, CanBeGiven
      <4>3. args = Given(ev) /\ args # Untold
        BY <2>5, <3>1, <3>2, <4>2, GivenIs DEF CanBeGiven
      <4>4. n = Kept(q, args)
        BY <2>4, <4>3
      <4> HIDE DEF n, args, q
      <4>5. n.missed = q.missed /\ KeptOf(n.mirror, q.mirror, args)
        BY <2>1, <2>5, <4>4, KeptMirrorIs
      <4>6. \A f \in DOMAIN q.mirror :
              n.mirror[f] = IF Tells(ev, p, f) THEN Tidings(ev, f) ELSE q.mirror[f]
        BY <1>3, <2>5, <4>3, <4>5 DEF Tells, Tidings, IsNews, KeptOf
      <4> QED
        BY <1>3, <2>1, <2>5, <3>4, <4>5, <4>6 DEF Heard, KeptOf
    <3> QED
      BY <3>3, <3>4
  <2>6. CASE ~IsNews(ev)
    <3>1. n.mirror = q.mirror
      <4> HIDE DEF args, q
      <4> QED
        BY <2>1, <2>3, <2>4, <2>6, KeptMirrorIs
    <3>2. n.missed = q.missed
      <4>0. q.missed \in BOOLEAN /\ ev.name \notin {"info", "property"}
        BY <1>3, <2>1, <2>6 DEF IsNews, Mirrors
      <4>1. (q.missed \/ ev.name \in {"info", "property"}) = q.missed
        BY ONLY <4>0, Zenon
      <4> HIDE DEF args, q
      <4> QED
        BY <2>1, <2>3, <2>4, <2>6, <4>1, KeptMirrorIs
    <3> HIDE DEF n, args, q
    <3> QED
      BY <1>3, <2>1, <2>6, <3>1, <3>2 DEF Heard, KeepsMirror
  <2> QED
    BY <2>5, <2>6
<1> QED
  BY <1>2, <1>3

LEMMA LoopIsHeard ==
  ASSUME SessionInv, Mirrors, NewsIsGiven, Loop, NEW p \in Proxy, proxy[p].state = "live"
  PROVE  Heard(p)
<1>1. ev = events[1] /\ 1 \in 1 .. Len(events)
  BY LoopIs
<1>2. CASE DeliverProxy
  BY <1>1, <1>2, NewsIsHeard
<1>3. CASE DeliverRegistry
  <2>1. proxy' = proxy /\ ev.to = "registry"
    BY <1>3 DEF DeliverRegistry, Delivers
  <2> QED
    BY <2>1 DEF Heard, KeepsMirror
<1>4. CASE DeliverCore
  <2>1. ev.to = "core" /\ proxy' = IF ev.name = "error" /\ ev.id \in Proxy
                                   THEN [proxy EXCEPT ![ev.id].asked = {}] ELSE proxy
    BY <1>4 DEF DeliverCore, Delivers
  <2>2. proxy'[p].mirror = proxy[p].mirror /\ proxy'[p].missed = proxy[p].missed
    BY <2>1, ProxyIsRecord
  <2> QED
    BY <2>1, <2>2 DEF Heard, KeepsMirror
<1> QED
  BY <1>2, <1>3, <1>4 DEF Loop

-----------------------------------------------------------------------------
(* The invariant of what is kept: the last event under way that tells of a *)
(* field says what it is, and if there is none then what is kept does, or  *)
(* the program knows nothing of it because it was not there in time.       *)

(* Nothing is said of an object before the request for it is handled. *)
IsPending(p) ==
  \A k \in 1 .. Len(requests) : Makes(requests[k], p) =>
    /\ resource[p] = None /\ proxy[p].mirror = Blank(proxy[p].type)
    /\ \A j \in 1 .. Len(requests) : Makes(requests[j], p) => j = k
    /\ \A j \in 1 .. Len(events) : ~(events[j].to = p /\ IsNews(events[j]))

Behind(p) == object[resource[p].id]

IsKept(p, f) ==
  \/ proxy[p].mirror[f] = Shown(Behind(p), f)
  \/ proxy[p].missed /\ (proxy[p].type = "Metadata" \/ proxy[p].mirror[f] = Untold)

IsLast(k, p, f) ==
  /\ k \in 1 .. Len(events) /\ Tells(events[k], p, f)
  /\ \A j \in k + 1 .. Len(events) : ~Tells(events[j], p, f)

UpToDate(p, f) ==
  /\ \A k : IsLast(k, p, f) => Tidings(events[k], f) = Shown(Behind(p), f)
  /\ (\A k \in 1 .. Len(events) : ~Tells(events[k], p, f)) => IsKept(p, f)

MirrorInv ==
  /\ ObjectsAreSane /\ NewsIsGiven /\ Mirrors
  /\ \A p \in Proxy : proxy[p].state = "live" =>
       /\ IsPending(p)
       /\ resource[p] # None => \A f \in Fields(proxy[p].type) : UpToDate(p, f)

(* What the server does unasked gives a proxy nothing to stand for. *)
LEMMA UnaskedBindsNothing ==
  ASSUME SessionInv, Server, requests' = requests, NEW p \in Proxy, resource'[p] # None
  PROVE  resource[p] # None
<1>1. ASSUME NEW kind, Handles(kind)
      PROVE  FALSE
  <2>1. Queue(requests) /\ requests # <<>> /\ requests' = Tail(requests)
    BY <1>1 DEF Handles, SessionInv, WireInv, RequestsInOrder
  <2>2. Len(Tail(requests)) = Len(requests) - 1 /\ Len(requests) \in Nat
    BY <2>1, QueueTail
  <2> QED
    BY <2>1, <2>2
<1>2. ASSUME NEW id, NEW t, Appears(id, t)
      PROVE  resource' = resource
  BY <1>2 DEF Appears
<1>3. ASSUME NEW id, Vanishes(id)
      PROVE  resource' = [q \in Proxy |-> IF q \in Bound(id) THEN None ELSE resource[q]]
  BY <1>3 DEF Vanishes, Gone
<1>4. ASSUME NEW id, NEW f, NEW v, Changes(id, f, v)
      PROVE  resource' = resource
  BY <1>4 DEF Changes
<1> QED
  BY <1>1, <1>2, <1>3, <1>4
     DEF Server, HandleGetRegistry, HandleSync, HandleBind, HandleCreate, HandleDestroy,
         HandleDestroyGlobal, HandleMethod

LEMMA EventsAfter ==
  ASSUME SessionInv, NEW es, Informs(es)
  PROVE  /\ Len(events') = Len(events) + Len(es) /\ Len(events) \in Nat /\ Len(es) \in Nat
         /\ \A k \in 1 .. Len(events) : k \in 1 .. Len(events') /\ events'[k] = events[k]
         /\ \A k \in 1 .. Len(es) : Len(events) + k \in 1 .. Len(events') /\ events'[Len(events) + k] = es[k]
         /\ \A k \in 1 .. Len(events') :
              \/ k \in 1 .. Len(events) /\ events'[k] = events[k]
              \/ k > Len(events) /\ k - Len(events) \in 1 .. Len(es) /\ events'[k] = es[k - Len(events)]
<1>1. Queue(events) /\ Queue(es) /\ events' = events \o es
  BY DEF Informs, AllTrue, SessionInv, WireInv, EventsInOrder
<1>2. PICK a, b, s : a = events /\ b = es /\ s = events'
  OBVIOUS
<1>3. Queue(a) /\ Queue(b)
  BY <1>1, <1>2
<1>4. s = a \o b
  BY <1>1, <1>2
<1>5. /\ Len(s) = Len(a) + Len(b) /\ Len(a) \in Nat /\ Len(b) \in Nat
      /\ \A k \in 1 .. Len(a) : k \in 1 .. Len(s) /\ s[k] = a[k]
      /\ \A k \in 1 .. Len(b) : Len(a) + k \in 1 .. Len(s) /\ s[Len(a) + k] = b[k]
  BY ONLY <1>3, <1>4, Appended
<1>6. ASSUME NEW k \in 1 .. Len(s), k \notin 1 .. Len(a)
      PROVE  k > Len(a) /\ k - Len(a) \in 1 .. Len(b) /\ s[k] = b[k - Len(a)]
  <2>1. k > Len(a) /\ k - Len(a) \in 1 .. Len(b) /\ Len(a) + (k - Len(a)) = k
    BY ONLY <1>5, <1>6
  <2> QED
    BY ONLY <1>5, <2>1
<1>7. /\ Len(s) = Len(a) + Len(b) /\ Len(a) \in Nat /\ Len(b) \in Nat
      /\ \A k \in 1 .. Len(a) : k \in 1 .. Len(s) /\ s[k] = a[k]
      /\ \A k \in 1 .. Len(b) : Len(a) + k \in 1 .. Len(s) /\ s[Len(a) + k] = b[k]
      /\ \A k \in 1 .. Len(s) :
           \/ k \in 1 .. Len(a) /\ s[k] = a[k]
           \/ k > Len(a) /\ k - Len(a) \in 1 .. Len(b) /\ s[k] = b[k - Len(a)]
  BY ONLY <1>5, <1>6
<1> QED
  BY ONLY <1>2, <1>7

LEMMA ServerKeepsPending ==
  ASSUME SessionInv, MirrorInv, Server, Shortens, NEW ad, Adds(ad), NEW es, Informs(es),
         NEW p \in Proxy, proxy[p].state = "live"
  PROVE  IsPending(p)'
<1>1. IsPending(p) /\ proxy' = proxy
  BY DEF MirrorInv, Adds, programVars
<1>2. ASSUME NEW k \in 1 .. Len(requests'), Makes(requests'[k], p)
      PROVE  /\ resource'[p] = None
             /\ \E i \in 1 .. Len(requests) : Makes(requests[i], p)
             /\ \A j \in 1 .. Len(requests') : Makes(requests'[j], p) => j = k
  <2>1. CASE requests' = requests
    <3>1. resource[p] = None /\ \A j \in 1 .. Len(requests) : Makes(requests[j], p) => j = k
      BY <1>1, <1>2, <2>1 DEF IsPending
    <3> QED
      BY <1>2, <2>1, <3>1, UnaskedBindsNothing
  <2>2. CASE /\ requests # <<>> /\ req = requests[1] /\ 1 \in 1 .. Len(requests)
             /\ \A j \in 1 .. Len(requests') : requests'[j] = requests[j + 1] /\ j + 1 \in 1 .. Len(requests)
    <3>1. Makes(requests[k + 1], p) /\ k + 1 \in 1 .. Len(requests)
      BY <1>2, <2>2
    <3>2. resource[p] = None /\ \A j \in 1 .. Len(requests) : Makes(requests[j], p) => j = k + 1
      BY <1>1, <3>1 DEF IsPending
    <3>3. ~Makes(req, p)
      BY <2>2, <3>2
    <3>4. resource'[p] = None
      BY <3>2, <3>3 DEF Adds, Rebinds, Makes
    <3>5. \A j \in 1 .. Len(requests') : Makes(requests'[j], p) => j = k
      BY <2>2, <3>2
    <3> QED
      BY <3>1, <3>4, <3>5
  <2> QED
    BY <2>1, <2>2 DEF Shortens
<1>3. ASSUME NEW k \in 1 .. Len(requests'), Makes(requests'[k], p),
             NEW j \in 1 .. Len(events'), events'[j].to = p, IsNews(events'[j])
      PROVE  FALSE
  <2>1. PICK i \in 1 .. Len(requests) : Makes(requests[i], p)
    BY <1>2, <1>3
  <2>2. \A l \in 1 .. Len(events) : ~(events[l].to = p /\ IsNews(events[l]))
    BY <1>1, <2>1 DEF IsPending
  <2>3. \A l \in 1 .. Len(es) : ~(es[l].to = p /\ IsNews(es[l]))
    BY <1>2, <1>3 DEF Informs, AllTrue, IsTrue
  <2>4. (j \in 1 .. Len(events) /\ events'[j] = events[j]) \/ \E l \in 1 .. Len(es) : events'[j] = es[l]
    BY EventsAfter
  <2> QED
    BY <1>3, <2>2, <2>3, <2>4
<1>4. ASSUME NEW k \in 1 .. Len(requests'), Makes(requests'[k], p)
      PROVE  /\ resource'[p] = None /\ proxy'[p].mirror = Blank(proxy'[p].type)
             /\ \A j \in 1 .. Len(requests') : Makes(requests'[j], p) => j = k
             /\ \A j \in 1 .. Len(events') : ~(events'[j].to = p /\ IsNews(events'[j]))
  <2>1. proxy[p].mirror = Blank(proxy[p].type)
    BY <1>1, <1>2, <1>4 DEF IsPending
  <2> QED
    BY <1>1, <1>2, <1>3, <1>4, <2>1
<1> QED
  BY <1>4 DEF IsPending, Makes

LEMMA ServerKeepsUpToDate ==
  ASSUME SessionInv, SessionInv', MirrorInv, Server, NEW ad, Adds(ad), NEW es, Informs(es),
         NEW p \in Proxy, proxy[p].state = "live", resource'[p] # None,
         NEW f \in Fields(proxy[p].type)
  PROVE  UpToDate(p, f)'
<1>1. /\ proxy' = proxy /\ IsPending(p)
      /\ resource[p] # None => UpToDate(p, f)
  BY DEF MirrorInv, Adds, programVars
<1>2. After(p).type = proxy[p].type
  <2>1. /\ resource' \in [Proxy -> Resource \cup {None}] /\ object'[resource'[p].id] # None
        /\ \A i \in Id : object'[i] # None => \E t \in Kind : object'[i] \in Object(t)
    BY DEF SessionInv, ServerInv, ServerTypes
  <2>2. After(p).type \in Kind
    BY <2>1 DEF Resource, Object, After
  <2>3. PICK t \in Kind : t = After(p).type
    BY <2>2
  <2>4. StandsFor(p, t)'
    BY <2>3 DEF StandsFor, After
  <2>5. TypesAgree' /\ proxy'[p].state = "live"
    BY <1>1 DEF SessionInv, ProxyInv
  <2>6. t = proxy'[p].type
    BY <2>4, <2>5 DEF TypesAgree
  <2> QED
    BY <1>1, <2>3, <2>6
<1>3. IsInformed(es, p) /\ AllTrue(es)
  BY DEF Informs
<1>4. Behind(p)' = After(p)
  BY DEF Behind, After
<1>5. \A k \in 1 .. Len(es) : Tells(es[k], p, f) => Tidings(es[k], f) = Shown(After(p), f)
  BY <1>2, <1>3 DEF AllTrue, IsTrue, Tells
<1> DEFINE LastNow(k) == IsLast(k, p, f)'
<1>6. \A k : LastNow(k) <=> /\ k \in 1 .. Len(events') /\ Tells(events'[k], p, f)
                         /\ \A j \in k + 1 .. Len(events') : ~Tells(events'[j], p, f)
  BY DEF IsLast, Tells
<1>7. /\ Len(events') = Len(events) + Len(es) /\ Len(events) \in Nat /\ Len(es) \in Nat
      /\ \A k \in 1 .. Len(events) : k \in 1 .. Len(events') /\ events'[k] = events[k]
      /\ \A k \in 1 .. Len(es) : Len(events) + k \in 1 .. Len(events') /\ events'[Len(events) + k] = es[k]
      /\ \A k \in 1 .. Len(events') :
           \/ k \in 1 .. Len(events) /\ events'[k] = events[k]
           \/ k > Len(events) /\ k - Len(events) \in 1 .. Len(es) /\ events'[k] = es[k - Len(events)]
  BY EventsAfter
<1> HIDE DEF LastNow
<1>8. ASSUME NEW k, LastNow(k), k \notin 1 .. Len(events)
      PROVE  Tidings(events'[k], f) = Shown(After(p), f)
  BY <1>5, <1>6, <1>7, <1>8
<1>9. SUFFICES /\ \A k : LastNow(k) => Tidings(events'[k], f) = Shown(After(p), f)
               /\ (\A k \in 1 .. Len(events') : ~Tells(events'[k], p, f)) =>
                    \/ proxy[p].mirror[f] = Shown(After(p), f)
                    \/ proxy[p].missed /\ (proxy[p].type = "Metadata" \/ proxy[p].mirror[f] = Untold)
  BY <1>1, <1>4 DEF UpToDate, IsKept, LastNow, Tells
<1>10. CASE Hears(es, p, f)
  <2>1. PICK i \in 1 .. Len(es) : Tells(es[i], p, f)
    BY <1>10 DEF Hears
  <2>2. Len(events) + i \in 1 .. Len(events') /\ Tells(events'[Len(events) + i], p, f)
    BY <1>7, <2>1
  <2>3. \A k : LastNow(k) => k \notin 1 .. Len(events)
    <3> SUFFICES ASSUME NEW k \in 1 .. Len(events), LastNow(k)
                 PROVE  FALSE
      OBVIOUS
    <3>1. Len(events) + i \in k + 1 .. Len(events')
      BY <1>7, <2>1, <2>2
    <3> QED
      BY <1>6, <2>2, <3>1
  <2> QED
    BY <1>8, <2>2, <2>3
<1>11. CASE ~Hears(es, p, f)
  <2>1. \A k \in 1 .. Len(events') : Tells(events'[k], p, f) => k \in 1 .. Len(events)
    BY <1>7, <1>11 DEF Hears
  <2>2. \A k : LastNow(k) => IsLast(k, p, f) /\ events'[k] = events[k]
    BY <1>6, <1>7, <2>1 DEF IsLast
  <2>3. (\A k \in 1 .. Len(events') : ~Tells(events'[k], p, f)) =>
          \A k \in 1 .. Len(events) : ~Tells(events[k], p, f)
    BY <1>7
  <2>4. CASE /\ resource[p] # None /\ resource'[p].id = resource[p].id
             /\ Shown(object[resource[p].id], f) = Shown(After(p), f)
    <3>1. Shown(Behind(p), f) = Shown(After(p), f)
      BY <2>4 DEF Behind
    <3>2. UpToDate(p, f)
      BY <1>1, <2>4
    <3>3. \A k : LastNow(k) => Tidings(events'[k], f) = Shown(After(p), f)
      BY <2>2, <3>1, <3>2 DEF UpToDate
    <3>4. (\A k \in 1 .. Len(events') : ~Tells(events'[k], p, f)) => IsKept(p, f)
      BY <2>3, <3>2 DEF UpToDate
    <3> QED
      BY <3>1, <3>3, <3>4 DEF IsKept
  <2>5. CASE /\ requests # <<>> /\ req.kind \in {"bind", "create"} /\ req.proxy = p
             /\ After(p).type = "Metadata" /\ Shown(After(p), f) = None
    <3>1. 1 \in 1 .. Len(requests) /\ Makes(requests[1], p)
      <4>1. Queue(requests)
        BY DEF SessionInv, WireInv, RequestsInOrder
      <4> QED
        BY <2>5, <4>1, QueueTail DEF req, Makes
    <3>2. /\ proxy[p].mirror = Blank(proxy[p].type)
          /\ \A j \in 1 .. Len(events) : ~(events[j].to = p /\ IsNews(events[j]))
      BY <1>1, <3>1 DEF IsPending
    <3>3. \A k \in 1 .. Len(events) : ~Tells(events[k], p, f)
      BY <3>2 DEF Tells
    <3>4. \A k : ~LastNow(k)
      BY <1>6, <1>7, <2>1, <3>3
    <3>5. proxy[p].mirror[f] = None
      BY <1>2, <2>5, <3>2 DEF Blank
    <3> QED
      BY <2>5, <3>4, <3>5
  <2> QED
    BY <1>2, <1>3, <1>11, <2>4, <2>5 DEF IsInformed
<1> QED
  BY <1>10, <1>11

LEMMA ServerKeepsMirrors ==
  ASSUME SessionInv, SessionInv', MirrorInv, Server
  PROVE  MirrorInv'
<1>1. PICK ad : Adds(ad)
  BY ServerAdds
<1>2. PICK es : Informs(es)
  BY ServerInforms DEF MirrorInv
<1>3. proxy' = proxy /\ Shortens
  BY <1>1 DEF Adds, programVars
<1>4. Mirrors'
  BY <1>3 DEF MirrorInv, Mirrors
<1>5. NewsIsGiven'
  <2> SUFFICES ASSUME NEW k \in 1 .. Len(events'), events'[k].to \in Proxy, IsNews(events'[k])
               PROVE  CanBeGiven(events'[k])
    BY DEF NewsIsGiven, IsNews, CanBeGiven
  <2>1. (k \in 1 .. Len(events) /\ events'[k] = events[k]) \/ \E l \in 1 .. Len(es) : events'[k] = es[l]
    BY <1>2, EventsAfter
  <2> QED
    BY <1>2, <2>1 DEF MirrorInv, NewsIsGiven, Informs, AllTrue, IsTrue
<1>6. \A p \in Proxy : proxy'[p].state = "live" => IsPending(p)'
  BY <1>1, <1>2, <1>3, ServerKeepsPending
<1>7. \A p \in Proxy : proxy'[p].state = "live" /\ resource'[p] # None =>
        \A f \in Fields(proxy'[p].type) : UpToDate(p, f)'
  BY <1>1, <1>2, <1>3, ServerKeepsUpToDate
<1> QED
  BY <1>2, <1>4, <1>5, <1>6, <1>7 DEF MirrorInv, Informs

LEMMA LoopKeepsUpToDate ==
  ASSUME SessionInv, MirrorInv, Loop, NEW p \in Proxy, proxy[p].state = "live",
         resource[p] # None, NEW f \in Fields(proxy[p].type)
  PROVE  UpToDate(p, f)'
<1>1. /\ ev = events[1] /\ 1 \in 1 .. Len(events)
      /\ Len(events) \in Nat /\ Len(events') = Len(events) - 1
      /\ \A k \in 1 .. Len(events') : events'[k] = events[k + 1] /\ k + 1 \in 1 .. Len(events)
      /\ object' = object /\ resource' = resource /\ Same(p)
  BY LoopIs
<1>2. Heard(p) /\ UpToDate(p, f)
  BY LoopIsHeard DEF MirrorInv
<1>3. /\ DOMAIN proxy[p].mirror = Fields(proxy[p].type)
      /\ \/ proxy[p].closures = Handlers(proxy[p].type)
         \/ proxy[p].closures = {} /\ proxy[p].mirror = Blank(proxy[p].type)
  BY DEF MirrorInv, Mirrors
<1>4. proxy'[p].type = proxy[p].type
  BY <1>1 DEF Same
<1> DEFINE LastNow(k) == IsLast(k, p, f)'
<1>5. \A k : LastNow(k) => IsLast(k + 1, p, f) /\ events'[k] = events[k + 1]
  <2> SUFFICES ASSUME NEW k, LastNow(k)
               PROVE  IsLast(k + 1, p, f) /\ events'[k] = events[k + 1]
    OBVIOUS
  <2>1. /\ k \in 1 .. Len(events') /\ Tells(events'[k], p, f)
        /\ \A j \in k + 1 .. Len(events') : ~Tells(events'[j], p, f)
    BY DEF IsLast, Tells
  <2> HIDE DEF LastNow
  <2>2. k + 1 \in 1 .. Len(events) /\ events'[k] = events[k + 1]
    BY <1>1, <2>1
  <2>3. ASSUME NEW j \in (k + 1) + 1 .. Len(events)
        PROVE  ~Tells(events[j], p, f)
    <3>1. j - 1 \in k + 1 .. Len(events') /\ j - 1 \in 1 .. Len(events') /\ (j - 1) + 1 = j
      BY <1>1, <2>1
    <3> QED
      BY <1>1, <2>1, <3>1
  <2> QED
    BY <2>1, <2>2, <2>3 DEF IsLast
<1>6. Behind(p)' = Behind(p)
  BY <1>1 DEF Behind
<1>7. \A k : LastNow(k) => Tidings(events'[k], f) = Shown(Behind(p)', f)
  <2> HIDE DEF LastNow
  <2> QED
    BY <1>2, <1>5, <1>6 DEF UpToDate
<1>8. ASSUME \A k \in 1 .. Len(events') : ~Tells(events'[k], p, f)
      PROVE  \/ proxy'[p].mirror[f] = Shown(Behind(p), f)
             \/ proxy'[p].missed /\ (proxy[p].type = "Metadata" \/ proxy'[p].mirror[f] = Untold)
  <2>1. \A j \in 2 .. Len(events) : ~Tells(events[j], p, f)
    <3> SUFFICES ASSUME NEW j \in 2 .. Len(events)
                 PROVE  ~Tells(events[j], p, f)
      OBVIOUS
    <3>1. j - 1 \in 1 .. Len(events') /\ (j - 1) + 1 = j
      BY <1>1
    <3> QED
      BY <1>1, <1>8, <3>1
  <2>2. CASE Tells(ev, p, f)
    <3>1. IsLast(1, p, f)
      BY <1>1, <2>1, <2>2 DEF IsLast
    <3>2. Tidings(ev, f) = Shown(Behind(p), f)
      BY <1>1, <1>2, <3>1 DEF UpToDate
    <3>3. CASE proxy[p].closures # {}
      BY <1>2, <1>3, <2>2, <3>2, <3>3 DEF Heard, Tells
    <3>4. CASE proxy[p].closures = {}
      <4>1. Handlers(proxy[p].type) # {}
        BY DEF Handlers, ProxyCallbacks
      <4>2. proxy'[p].mirror = Blank(proxy[p].type) /\ proxy'[p].missed = TRUE
        BY <1>2, <1>3, <2>2, <3>4, <4>1 DEF Heard, Tells
      <4> QED
        BY <4>2 DEF Blank
    <3> QED
      BY <3>3, <3>4
  <2>3. CASE ~Tells(ev, p, f)
    <3>1. \A k \in 1 .. Len(events) : ~Tells(events[k], p, f)
      BY <1>1, <2>1, <2>3
    <3>2. IsKept(p, f)
      BY <1>2, <3>1 DEF UpToDate
    <3>3. proxy'[p].mirror[f] = proxy[p].mirror[f] /\ (proxy[p].missed => proxy'[p].missed)
      BY <1>2, <1>3, <2>3 DEF Heard, KeepsMirror
    <3> QED
      BY <3>2, <3>3 DEF IsKept
  <2> QED
    BY <2>2, <2>3
<1>9. (\A k \in 1 .. Len(events') : ~Tells(events'[k], p, f)) =>
        \/ proxy'[p].mirror[f] = Shown(Behind(p)', f)
        \/ proxy'[p].missed /\ (proxy'[p].type = "Metadata" \/ proxy'[p].mirror[f] = Untold)
  BY <1>4, <1>6, <1>8
<1> QED
  BY <1>7, <1>9 DEF UpToDate, IsKept, LastNow, Tells, Tidings, IsNews, Given

LEMMA LoopKeepsMirrors ==
  ASSUME SessionInv, MirrorInv, Loop
  PROVE  MirrorInv'
<1>1. /\ ev = events[1] /\ 1 \in 1 .. Len(events)
      /\ \A k \in 1 .. Len(events') : events'[k] = events[k + 1] /\ k + 1 \in 1 .. Len(events)
      /\ object' = object /\ resource' = resource /\ requests' = requests
      /\ \A p \in Proxy : Same(p)
  BY LoopIs
<1>2. \A p \in Proxy : proxy[p].state = "live" => Heard(p)
  BY LoopIsHeard DEF MirrorInv
<1>3. ObjectsAreSane'
  BY <1>1 DEF MirrorInv, ObjectsAreSane
<1>4. NewsIsGiven'
  <2> SUFFICES ASSUME NEW k \in 1 .. Len(events'), events'[k].to \in Proxy, IsNews(events'[k])
               PROVE  CanBeGiven(events'[k])
    BY DEF NewsIsGiven, IsNews, CanBeGiven
  <2> QED
    BY <1>1 DEF MirrorInv, NewsIsGiven
<1>5. ASSUME NEW p \in Proxy, proxy'[p].state = "live"
      PROVE  /\ DOMAIN proxy'[p].mirror = Fields(proxy'[p].type) /\ proxy'[p].missed \in BOOLEAN
             /\ \/ proxy'[p].closures = Handlers(proxy'[p].type)
                \/ proxy'[p].closures = {} /\ proxy'[p].mirror = Blank(proxy'[p].type)
  <2>1. /\ proxy[p].state = "live" /\ proxy'[p].type = proxy[p].type
        /\ proxy'[p].closures = proxy[p].closures
    BY <1>1, <1>5 DEF Same
  <2>2. /\ DOMAIN proxy[p].mirror = Fields(proxy[p].type) /\ proxy[p].missed \in BOOLEAN
        /\ \/ proxy[p].closures = Handlers(proxy[p].type)
           \/ proxy[p].closures = {} /\ proxy[p].mirror = Blank(proxy[p].type)
    BY <2>1 DEF MirrorInv, Mirrors
  <2>3. /\ DOMAIN proxy'[p].mirror = DOMAIN proxy[p].mirror /\ proxy'[p].missed \in BOOLEAN
        /\ proxy[p].closures = {} => proxy'[p].mirror = proxy[p].mirror
    BY <1>2, <2>1, <2>2 DEF Heard, KeepsMirror
  <2> QED
    BY <2>1, <2>2, <2>3
<1>6. ASSUME NEW p \in Proxy, proxy'[p].state = "live",
             NEW k \in 1 .. Len(requests), Makes(requests[k], p)
      PROVE  /\ resource[p] = None /\ proxy'[p].mirror = Blank(proxy'[p].type)
             /\ \A j \in 1 .. Len(requests) : Makes(requests[j], p) => j = k
             /\ \A j \in 1 .. Len(events') : ~(events'[j].to = p /\ IsNews(events'[j]))
  <2>1. proxy[p].state = "live" /\ proxy'[p].type = proxy[p].type
    BY <1>1, <1>6 DEF Same
  <2>2. /\ resource[p] = None /\ proxy[p].mirror = Blank(proxy[p].type)
        /\ \A j \in 1 .. Len(requests) : Makes(requests[j], p) => j = k
        /\ \A j \in 1 .. Len(events) : ~(events[j].to = p /\ IsNews(events[j]))
    BY <1>6, <2>1 DEF MirrorInv, IsPending
  <2>3. proxy'[p].mirror = proxy[p].mirror
    BY <1>1, <1>2, <2>1, <2>2 DEF Heard, KeepsMirror
  <2> QED
    BY <1>1, <2>1, <2>2, <2>3
<1>7. \A p \in Proxy : proxy'[p].state = "live" => IsPending(p)'
  BY <1>1, <1>6 DEF IsPending, Makes, IsNews
<1>8. ASSUME NEW p \in Proxy, proxy'[p].state = "live", resource'[p] # None,
             NEW f \in Fields(proxy'[p].type)
      PROVE  UpToDate(p, f)'
  <2>1. proxy[p].state = "live" /\ proxy'[p].type = proxy[p].type /\ resource[p] # None
    BY <1>1, <1>8 DEF Same
  <2> QED
    BY <1>8, <2>1, LoopKeepsUpToDate
<1>9. Mirrors'
  BY <1>5 DEF Mirrors
<1> QED
  BY <1>3, <1>4, <1>7, <1>8, <1>9 DEF MirrorInv

LEMMA ProgramKeepsMirrors ==
  ASSUME SessionInv, MirrorInv, Program
  PROVE  MirrorInv'
<1>1. /\ \A k \in 1 .. Len(requests') :
           (k \in 1 .. Len(requests) /\ requests'[k] = requests[k]) \/ Fits(requests'[k])
      /\ object' = object /\ resource' = resource /\ events' = events
  BY ProgramSteps DEF ProgramStep
<1>2. \A p \in Proxy : MirrorMoves(p)
  BY ProgramMovesMirrors
<1>3. ObjectsAreSane' /\ NewsIsGiven'
  <2>1. ObjectsAreSane'
    BY <1>1 DEF MirrorInv, ObjectsAreSane
  <2>2. NewsIsGiven'
    BY <1>1 DEF MirrorInv, NewsIsGiven
  <2> QED
    BY <2>1, <2>2
<1>4. \A type : DOMAIN Blank(type) = Fields(type)
  BY DEF Blank
(* A proxy that was followed, or could have been. *)
<1>5. ASSUME NEW p \in Proxy, proxy'[p].state = "live", proxy[p].state = "live",
             proxy'[p].type = proxy[p].type,
             \/ KeepsMirror(p) /\ proxy'[p].closures \in {proxy[p].closures, Handlers(proxy[p].type)}
             \/ /\ proxy'[p].mirror = Blank(proxy[p].type) /\ proxy'[p].closures = {}
                /\ proxy'[p].missed = TRUE
      PROVE  /\ DOMAIN proxy'[p].mirror = Fields(proxy'[p].type) /\ proxy'[p].missed \in BOOLEAN
             /\ \/ proxy'[p].closures = Handlers(proxy'[p].type)
                \/ proxy'[p].closures = {} /\ proxy'[p].mirror = Blank(proxy'[p].type)
             /\ IsPending(p)'
             /\ resource'[p] # None => \A f \in Fields(proxy'[p].type) : UpToDate(p, f)'
  <2>1. /\ DOMAIN proxy[p].mirror = Fields(proxy[p].type) /\ proxy[p].missed \in BOOLEAN
        /\ \/ proxy[p].closures = Handlers(proxy[p].type)
           \/ proxy[p].closures = {} /\ proxy[p].mirror = Blank(proxy[p].type)
        /\ IsPending(p)
        /\ resource[p] # None => \A f \in Fields(proxy[p].type) : UpToDate(p, f)
    BY <1>5 DEF MirrorInv, Mirrors
  <2>2. /\ DOMAIN proxy'[p].mirror = Fields(proxy'[p].type) /\ proxy'[p].missed \in BOOLEAN
        /\ \/ proxy'[p].closures = Handlers(proxy'[p].type)
           \/ proxy'[p].closures = {} /\ proxy'[p].mirror = Blank(proxy'[p].type)
    BY <1>4, <1>5, <2>1 DEF KeepsMirror
  <2>3. ASSUME NEW k \in 1 .. Len(requests'), Makes(requests'[k], p)
        PROVE  k \in 1 .. Len(requests) /\ requests'[k] = requests[k]
    BY <1>1, <1>5, <2>3 DEF Makes, Fits
  <2>4. ASSUME NEW k \in 1 .. Len(requests'), Makes(requests'[k], p)
        PROVE  /\ resource'[p] = None /\ proxy'[p].mirror = Blank(proxy'[p].type)
               /\ \A j \in 1 .. Len(requests') : Makes(requests'[j], p) => j = k
               /\ \A j \in 1 .. Len(events') : ~(events'[j].to = p /\ IsNews(events'[j]))
    <3>1. k \in 1 .. Len(requests) /\ Makes(requests[k], p)
      BY <2>3, <2>4
    <3>2. /\ resource[p] = None /\ proxy[p].mirror = Blank(proxy[p].type)
          /\ \A j \in 1 .. Len(requests) : Makes(requests[j], p) => j = k
          /\ \A j \in 1 .. Len(events) : ~(events[j].to = p /\ IsNews(events[j]))
      BY <2>1, <3>1 DEF IsPending
    <3>3. \A j \in 1 .. Len(requests') : Makes(requests'[j], p) => j = k
      BY <2>3, <3>2
    <3>4. proxy'[p].mirror = Blank(proxy'[p].type)
      BY <1>5, <3>2 DEF KeepsMirror
    <3> QED
      BY <1>1, <3>2, <3>3, <3>4
  <2>5. IsPending(p)'
    BY <2>4 DEF IsPending, Makes, IsNews
  <2>6. ASSUME resource'[p] # None, NEW f \in Fields(proxy'[p].type)
        PROVE  UpToDate(p, f)'
    <3>1. UpToDate(p, f)
      BY <1>1, <1>5, <2>1, <2>6
    <3>2. IsKept(p, f) => IsKept(p, f)'
      BY <1>1, <1>5, <2>6 DEF IsKept, Behind, KeepsMirror, Blank
    <3>3. \A k : IsLast(k, p, f)' => IsLast(k, p, f)
      BY <1>1 DEF IsLast
    <3> QED
      BY <1>1, <3>1, <3>2, <3>3 DEF UpToDate, Behind
  <2> QED
    BY <2>2, <2>5, <2>6
(* A proxy that is made in the step. *)
<1>6. ASSUME NEW p \in Proxy, proxy'[p].state = "live", proxy[p].state = "unused",
             proxy'[p].closures = {}, proxy'[p].mirror = Blank(proxy'[p].type),
             proxy'[p].missed = FALSE,
             \A j, k \in 1 .. Len(requests') : Makes(requests'[j], p) /\ Makes(requests'[k], p) => j = k
      PROVE  /\ DOMAIN proxy'[p].mirror = Fields(proxy'[p].type) /\ proxy'[p].missed \in BOOLEAN
             /\ \/ proxy'[p].closures = Handlers(proxy'[p].type)
                \/ proxy'[p].closures = {} /\ proxy'[p].mirror = Blank(proxy'[p].type)
             /\ IsPending(p)'
             /\ resource'[p] # None => \A f \in Fields(proxy'[p].type) : UpToDate(p, f)'
  <2>1. resource[p] = None /\ \A k \in 1 .. Len(events) : events[k].to = p => events[k].name \notin Contents
    BY <1>6 DEF SessionInv, ProxyInv, UnusedIsFresh
  <2>2. \A k \in 1 .. Len(events) : ~(events[k].to = p /\ IsNews(events[k]))
    <3>1. \A e : IsNews(e) => e.name \in Contents
      BY DEF IsNews, Contents
    <3> QED
      BY <2>1, <3>1
  <2>3. IsPending(p)'
    BY <1>1, <1>6, <2>1, <2>2 DEF IsPending, Makes, IsNews
  <2> QED
    BY <1>1, <1>4, <1>6, <2>1, <2>3
<1>7. \A p \in Proxy : proxy'[p].state = "live" =>
        /\ DOMAIN proxy'[p].mirror = Fields(proxy'[p].type) /\ proxy'[p].missed \in BOOLEAN
        /\ \/ proxy'[p].closures = Handlers(proxy'[p].type)
           \/ proxy'[p].closures = {} /\ proxy'[p].mirror = Blank(proxy'[p].type)
        /\ IsPending(p)'
        /\ resource'[p] # None => \A f \in Fields(proxy'[p].type) : UpToDate(p, f)'
  BY <1>2, <1>5, <1>6 DEF MirrorMoves
<1>8. Mirrors'
  BY <1>7 DEF Mirrors
<1> QED
  BY <1>3, <1>7, <1>8 DEF MirrorInv

LEMMA StutteringKeepsMirrors ==
  ASSUME MirrorInv, UNCHANGED vars
  PROVE  MirrorInv'
<1>1. /\ object' = object /\ resource' = resource /\ requests' = requests
      /\ events' = events /\ proxy' = proxy
  BY DEF vars, serverVars, programVars
<1>2. ObjectsAreSane' /\ NewsIsGiven' /\ Mirrors'
  BY <1>1 DEF MirrorInv, ObjectsAreSane, NewsIsGiven, Mirrors
<1>3. \A p \in Proxy : proxy'[p].state = "live" => IsPending(p)'
  BY <1>1 DEF MirrorInv, IsPending
<1>4. \A p \in Proxy : proxy'[p].state = "live" /\ resource'[p] # None =>
        \A f \in Fields(proxy'[p].type) : UpToDate(p, f)'
  BY <1>1 DEF MirrorInv, UpToDate, IsLast, IsKept, Behind
<1> QED
  BY <1>2, <1>3, <1>4 DEF MirrorInv

LEMMA MirrorInit ==
  ASSUME Init
  PROVE  MirrorInv
<1>1. Len(events) = 1 /\ events[1].to = "core"
  BY SingleIsQueue DEF Init
<1>2. NewsIsGiven
  BY <1>1, SessionAssumption DEF NewsIsGiven
<1>3. \A p \in Proxy : proxy[p].state = "unused"
  BY DEF Init, NoProxy
<1>4. ObjectsAreSane
  <2>1. PICK t \in Types : object = [i \in Id |-> IF i = 1 THEN NewObject(t, 1) ELSE None]
    BY DEF Init
  <2>2. t \in Kind
    BY SessionAssumption
  <2> QED
    BY <2>1, <2>2, NewIsSane DEF ObjectsAreSane
<1> QED
  BY <1>2, <1>3, <1>4 DEF MirrorInv, Mirrors

(* With nothing under way, what a program put together from the events of  *)
(* a proxy it follows is the object, field by field; only of what was sent *)
(* when nobody listened may it know nothing.                               *)
THEOREM MirrorsAreTrue == Spec => []MirrorsAgree
<1>1. Init => MirrorInv
  BY MirrorInit
<1>2. SessionInv /\ SessionInv' /\ MirrorInv /\ [Next]_vars => MirrorInv'
  BY ProgramKeepsMirrors, ServerKeepsMirrors, LoopKeepsMirrors, StutteringKeepsMirrors DEF Next
<1>3. MirrorInv => MirrorsAgree
  <2> SUFFICES ASSUME MirrorInv, Quiet, NEW p \in Proxy, Follows(p), NEW f \in Fields(proxy[p].type)
               PROVE  \/ proxy[p].mirror[f] = Shown(object[resource[p].id], f)
                      \/ proxy[p].missed /\ (proxy[p].type = "Metadata" \/ proxy[p].mirror[f] = Untold)
    BY DEF MirrorsAgree
  <2>1. Len(events) = 0
    BY EmptyIsQueue DEF Quiet
  <2>2. UpToDate(p, f)
    BY DEF MirrorInv, Follows
  <2> QED
    BY <2>1, <2>2 DEF UpToDate, IsKept, Behind
<1> QED
  BY <1>1, <1>2, <1>3, SessionIsSound, PTL DEF Spec

=============================================================================
