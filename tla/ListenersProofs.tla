---------------------------- MODULE ListenersProofs ----------------------------
(***************************************************************************)
(* Listeners, one by one and in the rings of their objects.                *)
(*                                                                         *)
(* One listener (ListenerCallbacks), for any table of events, any          *)
(* assignment of events to threads and any calls the closures make: what a *)
(* running trampoline refers to is not freed, unless it or what it calls   *)
(* drops the listener on the main loop; and a filter's trampolines do not  *)
(* alias when no event is emitted on both threads, unless the calls of a   *)
(* closure lead back to its own event.                                     *)
(*                                                                         *)
(* The rings (ThreadedListeners): the lock of a threaded loop keeps them   *)
(* apart, as who may use them holds it, and it is never given away in the  *)
(* middle of a removal.  They stay whole under every interleaving of walks *)
(* and removals that the lock admits, so that no pointer of a hook is      *)
(* written through after its memory is gone, and a module is destroyed     *)
(* once; and a walk calls every listener that was there from its beginning *)
(* to its end, each of them once.                                          *)
(***************************************************************************)
EXTENDS ListenerCallbacks, ThreadedListeners, SequenceTheorems, FiniteSetTheorems,
        WellFoundedInduction, TLAPS

USE ListenerAssumption DEF ListenerAssumption

-----------------------------------------------------------------------------
(* Facts about stacks: pushing on a sequence and removing its head.        *)

LEMMA PushSeq ==
  ASSUME NEW S, NEW q \in Seq(S), NEW e \in S
  PROVE  /\ <<e>> \o q \in Seq(S)
         /\ Len(<<e>> \o q) = Len(q) + 1
         /\ (<<e>> \o q)[1] = e
         /\ \A i \in 2 .. Len(q) + 1 : (<<e>> \o q)[i] = q[i - 1]
  OBVIOUS

LEMMA PopSeq ==
  ASSUME NEW S, NEW q \in Seq(S), q # <<>>
  PROVE  /\ Tail(q) \in Seq(S)
         /\ Len(q) \in Nat \ {0}
         /\ Head(q) = q[1]
         /\ Len(Tail(q)) = Len(q) - 1
         /\ \A i \in 1 .. Len(q) - 1 : Tail(q)[i] = q[i + 1]
  OBVIOUS

LEMMA TypesAtFirst == CallbackInit => Types
<1> SUFFICES ASSUME CallbackInit PROVE Types
  OBVIOUS
<1>1. selfDropped \in BOOLEAN
  BY Zenon DEF CallbackInit
<1>2. stack = [t \in CallbackThread |-> <<>>]
  BY Zenon DEF CallbackInit
<1>3. stack \in [CallbackThread -> Seq(Event)]
  <2>1. <<>> \in Seq(Event)
    OBVIOUS
  <2> QED BY Zenon, <1>2, <2>1
<1>4. closures = {} /\ table = {} /\ hook = "none" /\ record = "none"
  BY Zenon DEF CallbackInit
<1> QED BY <1>1, <1>3, <1>4 DEF Types

(* The types of the variables, whatever the program and the library do.    *)
LEMMA TypesHold == CallbackSpec => []Types
<1>1. CallbackInit => Types
  BY TypesAtFirst
<1>2. Types /\ [CallbackNext]_callbackVars => Types'
  <2> SUFFICES ASSUME Types, [CallbackNext]_callbackVars PROVE Types'
    OBVIOUS
  <2>1. ASSUME NEW t \in CallbackThread, NEW e \in Event, Emit(t, e) PROVE Types'
    <3>1. <<e>> \o stack[t] \in Seq(Event)
      BY PushSeq DEF Types
    <3> QED BY <2>1, <3>1 DEF Emit, Types
  <2>2. ASSUME NEW t \in CallbackThread, Return(t) PROVE Types'
    <3>1. Tail(stack[t]) \in Seq(Event)
      BY <2>2, PopSeq DEF Types, Return
    <3> QED BY <2>2, <3>1 DEF Return, Types
  <2>3. CASE \E e \in Event : SetCallback(e)
    BY <2>3 DEF SetCallback, Types
  <2>4. CASE NewBuilder \/ Register \/ DropBuilder
    BY <2>4 DEF NewBuilder, Register, DropBuilder, Types
  <2>5. CASE Unlink \/ Detach \/ FreeBoxes
    BY <2>5 DEF Unlink, Detach, FreeBoxes, Types
  <2>6. CASE UNCHANGED callbackVars
    BY <2>6 DEF callbackVars, Types
  <2> QED BY <2>1, <2>2, <2>3, <2>4, <2>5, <2>6 DEF CallbackNext
<1> QED BY <1>1, <1>2, PTL DEF CallbackSpec

-----------------------------------------------------------------------------
(* A thread has trampolines running only while the library calls the table *)
(* on it, or the listener was dropped inside them; the table has a slot    *)
(* only where the record has a closure, and the record exists from         *)
(* register to the end of the drop.                                        *)

Abandoned(t) == selfDropped /\ t = Main

StackIsCalled ==
  /\ \A t \in CallbackThread : stack[t] # <<>> => Calls(t) \/ Abandoned(t)
  /\ record = "building" => ~selfDropped

TableMatchesRecord ==
  /\ hook # "none" => record = "leaked"
  /\ hook = "none" => record # "leaked"
  /\ hook # "none" => table = closures
  /\ hook = "none" => table = {}

FramesHaveClosures ==
  \A t \in CallbackThread :
    Abandoned(t) \/ \A i \in 1 .. Len(stack[t]) : stack[t][i] \in closures

LiveInv == Types /\ StackIsCalled /\ TableMatchesRecord /\ FramesHaveClosures

LEMMA LiveInit == CallbackInit => LiveInv
<1> SUFFICES ASSUME CallbackInit PROVE LiveInv
  OBVIOUS
<1>1. Types /\ TableMatchesRecord
  <2>1. closures = {} /\ table = {} /\ hook = "none" /\ record = "none"
    BY Zenon DEF CallbackInit
  <2> QED BY <2>1, TypesAtFirst DEF TableMatchesRecord
<1>2. \A t \in CallbackThread : stack[t] = <<>>
  BY DEF CallbackInit
<1>3. StackIsCalled
  BY <1>2 DEF CallbackInit, StackIsCalled
<1>4. FramesHaveClosures
  BY <1>2 DEF FramesHaveClosures
<1> QED BY <1>1, <1>3, <1>4 DEF LiveInv

LEMMA LiveEmit ==
  ASSUME LiveInv, NEW t \in CallbackThread, NEW e \in Event, Emit(t, e)
  PROVE  LiveInv'
<1> DEFINE q == stack[t]
<1>1. q \in Seq(Event) /\ e \in closures
  BY DEF LiveInv, Types, TableMatchesRecord, Emit, Calls
<1>2. /\ stack'[t] = <<e>> \o q
      /\ \A s \in CallbackThread \ {t} : stack'[s] = stack[s]
      /\ stack' \in [CallbackThread -> Seq(Event)]
  <2>1. <<e>> \o q \in Seq(Event)
    BY <1>1, PushSeq
  <2> QED BY <2>1 DEF Emit, LiveInv, Types
<1>3. UNCHANGED <<closures, table, hook, record, selfDropped>>
  BY DEF Emit
<1>4. Types'
  BY <1>2, <1>3 DEF LiveInv, Types
<1>5. StackIsCalled'
  BY <1>2, <1>3 DEF LiveInv, StackIsCalled, Emit, Calls, Abandoned
<1>6. TableMatchesRecord'
  BY <1>3 DEF LiveInv, TableMatchesRecord
<1>7. FramesHaveClosures'
  <2> SUFFICES ASSUME NEW s \in CallbackThread, ~Abandoned(s), NEW i \in 1 .. Len(stack'[s])
               PROVE  stack'[s][i] \in closures
    BY <1>3 DEF FramesHaveClosures, Abandoned
  <2>1. CASE s # t
    BY <2>1, <1>2 DEF LiveInv, FramesHaveClosures
  <2>2. CASE s = t
    <3>1. Len(stack'[t]) = Len(q) + 1 /\ Len(q) \in Nat
      BY <1>1, <1>2, PushSeq
    <3>2. CASE i = 1
      BY <3>2, <2>2, <1>1, <1>2, PushSeq
    <3>3. CASE i # 1
      <4>1. i \in 2 .. Len(q) + 1 /\ i - 1 \in 1 .. Len(q)
        BY <3>1, <3>3, <2>2
      <4>2. stack'[t][i] = q[i - 1]
        BY <4>1, <1>1, <1>2, PushSeq
      <4> QED BY <4>1, <4>2, <2>2 DEF LiveInv, FramesHaveClosures
    <3> QED BY <3>2, <3>3
  <2> QED BY <2>1, <2>2
<1> QED BY <1>4, <1>5, <1>6, <1>7 DEF LiveInv

LEMMA LiveReturn ==
  ASSUME LiveInv, NEW t \in CallbackThread, Return(t)
  PROVE  LiveInv'
<1> DEFINE q == stack[t]
<1>1. q \in Seq(Event) /\ q # <<>>
  BY DEF LiveInv, Types, Return
<1>2. /\ stack'[t] = Tail(q)
      /\ \A s \in CallbackThread \ {t} : stack'[s] = stack[s]
      /\ stack' \in [CallbackThread -> Seq(Event)]
  <2>1. Tail(q) \in Seq(Event)
    BY <1>1, PopSeq
  <2> QED BY <2>1 DEF Return, LiveInv, Types
<1>3. UNCHANGED <<closures, table, hook, record, selfDropped>>
  BY DEF Return
<1>4. Types'
  BY <1>2, <1>3 DEF LiveInv, Types
<1>5. StackIsCalled'
  BY <1>1, <1>2, <1>3 DEF LiveInv, StackIsCalled, Calls, Abandoned
<1>6. TableMatchesRecord'
  BY <1>3 DEF LiveInv, TableMatchesRecord
<1>7. FramesHaveClosures'
  <2> SUFFICES ASSUME NEW s \in CallbackThread, ~Abandoned(s), NEW i \in 1 .. Len(stack'[s])
               PROVE  stack'[s][i] \in closures
    BY <1>3 DEF FramesHaveClosures, Abandoned
  <2>1. CASE s # t
    BY <2>1, <1>2 DEF LiveInv, FramesHaveClosures
  <2>2. CASE s = t
    <3>1. /\ Len(q) \in Nat /\ i \in 1 .. Len(q) - 1
          /\ stack'[t][i] = q[i + 1]
      <4>1. Len(q) \in Nat /\ Len(stack'[t]) = Len(q) - 1
        BY <1>1, <1>2, PopSeq
      <4>2. i \in 1 .. Len(q) - 1
        BY <4>1, <2>2
      <4> QED BY <4>1, <4>2, <1>1, <1>2, PopSeq
    <3>2. i + 1 \in 1 .. Len(q)
      BY <3>1
    <3> QED BY <3>1, <3>2, <2>2 DEF LiveInv, FramesHaveClosures
  <2> QED BY <2>1, <2>2
<1> QED BY <1>4, <1>5, <1>6, <1>7 DEF LiveInv

(* The steps of the builder and of the drop run with empty stacks, or      *)
(* leave what the running trampolines need; a drop inside a trampoline     *)
(* abandons those of its thread.                                           *)
LEMMA LiveOwner ==
  ASSUME LiveInv,
         \/ NewBuilder \/ Register \/ DropBuilder
         \/ \E e \in Event : SetCallback(e)
         \/ Unlink \/ Detach \/ FreeBoxes
         \/ UNCHANGED callbackVars
  PROVE  LiveInv'
<1> USE DEF LiveInv
<1>0. stack' = stack
  BY DEF NewBuilder, Register, DropBuilder, SetCallback, Unlink, Detach,
         FreeBoxes, callbackVars
<1>1. \A t \in CallbackThread :
        ~Calls(t) /\ ~Abandoned(t) => stack[t] = <<>> /\ Len(stack[t]) = 0
  BY DEF StackIsCalled
<1>2. CASE NewBuilder
  <2>1. /\ hook = "none" /\ UNCHANGED <<table, hook>> /\ record' = "building"
        /\ selfDropped' = FALSE /\ closures' = {}
    BY <1>2 DEF NewBuilder, TableMatchesRecord
  <2>2. \A t \in CallbackThread : stack[t] = <<>>
    BY <1>1, <1>2, <2>1 DEF Calls, NewBuilder, Abandoned
  <2>3. Types'
    BY <1>0, <1>2 DEF NewBuilder, Types
  <2> QED BY <1>0, <2>1, <2>2, <2>3
          DEF StackIsCalled, TableMatchesRecord, FramesHaveClosures
<1>3. CASE DropBuilder \/ Register \/ \E e \in Event : SetCallback(e)
  <2>1. record = "building" /\ ~selfDropped /\ ~selfDropped'
    BY <1>3 DEF Register, DropBuilder, SetCallback, StackIsCalled
  <2>2. hook = "none" /\ table = {}
    BY <2>1 DEF TableMatchesRecord
  <2>3. \A t \in CallbackThread : stack[t] = <<>>
    BY <1>1, <2>1, <2>2 DEF Calls, Abandoned
  <2>4. Types'
    BY <1>0, <1>3 DEF DropBuilder, Register, SetCallback, Types
  <2>5. TableMatchesRecord'
    BY <1>3, <2>2 DEF DropBuilder, Register, SetCallback, TableMatchesRecord
  <2> QED BY <1>0, <2>1, <2>3, <2>4, <2>5 DEF StackIsCalled, FramesHaveClosures
<1>4. CASE Unlink
  <2>1. UNCHANGED <<closures, table, record>> /\ hook = "linked"
        /\ hook' = "unlinked" /\ selfDropped' = (stack[Main] # <<>>)
        /\ record = "leaked"
    BY <1>4 DEF Unlink, TableMatchesRecord
  <2>2. StackIsCalled'
    BY <1>0, <2>1 DEF StackIsCalled, Calls, Abandoned
  <2>3. FramesHaveClosures'
    <3> SUFFICES ASSUME NEW t \in CallbackThread, ~Abandoned(t)'
                 PROVE  \A i \in 1 .. Len(stack[t]) : stack[t][i] \in closures
      BY <1>0, <2>1 DEF FramesHaveClosures
    <3>1. CASE Abandoned(t)
      <4>1. stack[t] = <<>>
        BY <3>1, <2>1 DEF Abandoned
      <4> QED BY <4>1
    <3> QED BY <3>1 DEF FramesHaveClosures
  <2>4. Types' /\ TableMatchesRecord'
    BY <1>0, <2>1 DEF Types, TableMatchesRecord
  <2> QED BY <2>2, <2>3, <2>4
<1>5. CASE Detach
  <2>1. UNCHANGED <<closures, table, record, selfDropped>> /\ hook = "unlinked"
        /\ hook' = "detached" /\ stack[Data] = <<>>
    BY <1>5 DEF Detach
  <2>2. StackIsCalled'
    BY <1>0, <1>1, <2>1 DEF StackIsCalled, Calls, Abandoned
  <2> QED BY <1>0, <2>1, <2>2 DEF Types, TableMatchesRecord, FramesHaveClosures, Abandoned
<1>6. CASE FreeBoxes
  <2>1. hook = "detached" /\ hook' = "none" /\ record' = "none" /\ table' = {}
        /\ closures' = {} /\ selfDropped' = selfDropped
    BY <1>6 DEF FreeBoxes
  <2>2. \A t \in CallbackThread : ~Abandoned(t) => stack[t] = <<>>
    BY <1>1, <2>1 DEF Calls
  <2> QED BY <1>0, <2>1, <2>2
          DEF Types, StackIsCalled, TableMatchesRecord, FramesHaveClosures, Abandoned
<1>7. CASE UNCHANGED callbackVars
  BY <1>7 DEF callbackVars, Types, StackIsCalled, TableMatchesRecord,
              FramesHaveClosures, Calls, Abandoned
<1> QED BY <1>2, <1>3, <1>4, <1>5, <1>6, <1>7

LEMMA LiveStep == LiveInv /\ [CallbackNext]_callbackVars => LiveInv'
  BY LiveEmit, LiveReturn, LiveOwner DEF CallbackNext

(* The listener's state keeps its types, and its record is lent to the     *)
(* library exactly while it has a hook (register and drop).                *)
THEOREM TypeCorrect == CallbackSpec => []CallbackTypes
<1>1. LiveInv => CallbackTypes
  BY DEF LiveInv, CallbackTypes, TableMatchesRecord
<1> QED BY LiveInit, LiveStep, <1>1, PTL DEF CallbackSpec

(* Whatever callbacks are set, however they nest and wherever the listener *)
(* is dropped, also inside its own callbacks: the record and the closure   *)
(* of a running trampoline exist, but for those on the main loop which     *)
(* that drop returns to.                                                   *)
THEOREM ClosuresAreLive == CallbackSpec => []RunningClosureIsLive
<1>1. LiveInv => RunningClosureIsLive
  <2> SUFFICES ASSUME LiveInv, NEW t \in CallbackThread, NEW i \in 1 .. MaxDepth,
                      i <= Len(stack[t]), ~Abandoned(t)
               PROVE  record = "leaked" /\ stack[t][i] \in closures
    <3> SUFFICES ASSUME LiveInv, NEW f \in Frames, ~Abandoned(f[1])
                 PROVE  FindsItsClosure(f)
      BY DEF RunningClosureIsLive, Abandoned, Frames
    <3>1. f[1] \in CallbackThread /\ f[2] \in 1 .. MaxDepth /\ f[2] <= Len(stack[f[1]])
      BY DEF Frames
    <3> QED BY <3>1 DEF FindsItsClosure, EventOf
  <2>1. Len(stack[t]) \in Nat /\ i \in 1 .. Len(stack[t])
    BY DEF LiveInv, Types
  <2>2. stack[t] # <<>>
    BY <2>1
  <2> QED BY <2>1, <2>2 DEF LiveInv, StackIsCalled, Calls, TableMatchesRecord,
                            FramesHaveClosures
<1> QED BY LiveInit, LiveStep, <1>1, PTL DEF CallbackSpec

-----------------------------------------------------------------------------
(* Exclusive references of a filter.  The hypotheses are about the program *)
(* and the library: On[t] are the events that can run on thread t, and     *)
(* Rank grows along every call from a closure to a further event.          *)

EventsSplit(On) ==
  /\ On \in [CallbackThread -> SUBSET Event]
  /\ On[Main] \cap On[Data] = {}
  /\ \A t \in CallbackThread : EmittedOn[t] \subseteq On[t]
  /\ \A t \in CallbackThread : \A p \in Nests : p[1] \in On[t] => p[2] \in On[t]

CallsAscend(Rank) ==
  /\ Rank \in [Event -> Nat]
  /\ \A p \in Nests : Rank[p[1]] < Rank[p[2]]

StaysOn(On) ==
  \A t \in CallbackThread : \A i \in 1 .. Len(stack[t]) : stack[t][i] \in On[t]

Ascends(Rank) ==
  \A t \in CallbackThread : \A i, j \in 1 .. Len(stack[t]) :
    i < j => Rank[stack[t][j]] < Rank[stack[t][i]]

(* No closure is entered while it runs. *)
NothingReenters == \A f, g \in Frames : f # g => ~Reenters(f, g)

LEMMA Pushed ==
  ASSUME Types, NEW t \in CallbackThread, NEW e \in Event, Emit(t, e)
  PROVE  /\ stack[t] \in Seq(Event) /\ Len(stack[t]) \in Nat
         /\ \A s \in CallbackThread \ {t} : stack'[s] = stack[s]
         /\ Len(stack'[t]) = Len(stack[t]) + 1
         /\ stack'[t][1] = e
         /\ \A i \in 2 .. Len(stack[t]) + 1 :
              i - 1 \in 1 .. Len(stack[t]) /\ stack'[t][i] = stack[t][i - 1]
<1> DEFINE q == stack[t]
<1>1. q \in Seq(Event) /\ Len(q) \in Nat
  BY DEF Types
<1>2. stack'[t] = <<e>> \o q /\ \A s \in CallbackThread \ {t} : stack'[s] = stack[s]
  BY DEF Emit, Types
<1>3. /\ Len(stack'[t]) = Len(q) + 1 /\ stack'[t][1] = e
      /\ \A i \in 2 .. Len(q) + 1 : stack'[t][i] = q[i - 1]
  BY <1>1, <1>2, PushSeq
<1>4. \A i \in 2 .. Len(q) + 1 : i - 1 \in 1 .. Len(q)
  BY <1>1
<1> QED BY <1>1, <1>2, <1>3, <1>4

(* What e was called from. *)
LEMMA CalledFrom ==
  ASSUME Types, NEW t \in CallbackThread, NEW e \in Event, Emit(t, e), stack[t] # <<>>
  PROVE  1 \in 1 .. Len(stack[t]) /\ <<stack[t][1], e>> \in Nests
<1>1. stack[t] \in Seq(Event)
  BY DEF Types
<1> QED BY <1>1, PopSeq DEF Emit, MayEmit

LEMMA Popped ==
  ASSUME Types, NEW t \in CallbackThread, Return(t)
  PROVE  /\ \A s \in CallbackThread \ {t} : stack'[s] = stack[s]
         /\ Len(stack'[t]) \in Nat
         /\ \A i \in 1 .. Len(stack'[t]) :
              i + 1 \in 1 .. Len(stack[t]) /\ stack'[t][i] = stack[t][i + 1]
<1> DEFINE q == stack[t]
<1>1. q \in Seq(Event) /\ q # <<>>
  BY DEF Types, Return
<1>2. stack'[t] = Tail(q) /\ \A s \in CallbackThread \ {t} : stack'[s] = stack[s]
  BY DEF Return, Types
<1>3. /\ Len(q) \in Nat /\ Len(stack'[t]) = Len(q) - 1 /\ Len(q) # 0
      /\ \A i \in 1 .. Len(q) - 1 : stack'[t][i] = q[i + 1]
  BY <1>1, <1>2, PopSeq
<1> QED BY <1>2, <1>3

(* An event is emitted on its threads only, by the library or by a call    *)
(* that a closure makes there.                                             *)
LEMMA EventsStay ==
  ASSUME NEW On, EventsSplit(On), Types, StaysOn(On), [CallbackNext]_callbackVars
  PROVE  StaysOn(On)'
<1>1. ASSUME NEW t \in CallbackThread, NEW e \in Event, Emit(t, e)
      PROVE  StaysOn(On)'
  <2>1. e \in On[t]
    <3>1. CASE stack[t] = <<>>
      BY <1>1, <3>1 DEF Emit, MayEmit, EventsSplit
    <3>2. CASE stack[t] # <<>>
      <4>1. <<stack[t][1], e>> \in Nests /\ stack[t][1] \in On[t]
        BY <1>1, <3>2, CalledFrom DEF StaysOn
      <4>2. <<stack[t][1], e>>[1] \in On[t] => <<stack[t][1], e>>[2] \in On[t]
        BY <4>1 DEF EventsSplit
      <4> QED BY <4>1, <4>2
    <3> QED BY <3>1, <3>2
  <2> SUFFICES ASSUME NEW s \in CallbackThread, NEW i \in 1 .. Len(stack'[s])
               PROVE  stack'[s][i] \in On[s]
    BY DEF StaysOn
  <2>2. CASE s # t
    BY <1>1, <2>2, Pushed DEF StaysOn
  <2>3. CASE s = t /\ i = 1
    BY <1>1, <2>1, <2>3, Pushed
  <2>4. CASE s = t /\ i # 1
    <3>1. i \in 2 .. Len(stack[t]) + 1
      BY <1>1, <2>4, Pushed
    <3> QED BY <1>1, <2>4, <3>1, Pushed DEF StaysOn
  <2> QED BY <2>2, <2>3, <2>4
<1>2. ASSUME NEW t \in CallbackThread, Return(t) PROVE StaysOn(On)'
  <2> SUFFICES ASSUME NEW s \in CallbackThread, NEW i \in 1 .. Len(stack'[s])
               PROVE  stack'[s][i] \in On[s]
    BY DEF StaysOn
  <2> QED BY <1>2, Popped DEF StaysOn
<1>3. CASE stack' = stack
  BY <1>3 DEF StaysOn
<1>4. \/ stack' = stack
      \/ \E t \in CallbackThread : Return(t) \/ \E e \in Event : Emit(t, e)
  BY DEF CallbackNext, NewBuilder, Register, DropBuilder, SetCallback, Unlink,
         Detach, FreeBoxes, callbackVars
<1> QED BY <1>1, <1>2, <1>3, <1>4

(* A push ranks above the frames under it. *)
LEMMA CallsStayAscending ==
  ASSUME NEW Rank, CallsAscend(Rank), Types, Ascends(Rank), [CallbackNext]_callbackVars
  PROVE  Ascends(Rank)'
<1>1. ASSUME NEW t \in CallbackThread, NEW e \in Event, Emit(t, e)
      PROVE  Ascends(Rank)'
  <2> DEFINE q == stack[t]
  <2>1. \A i \in 1 .. Len(q) : q[i] \in Event /\ Rank[q[i]] \in Nat
    BY DEF CallsAscend, Types
  <2>2. ASSUME NEW i \in 1 .. Len(q) PROVE Rank[q[i]] < Rank[e]
    <3>1. 1 \in 1 .. Len(q) /\ <<q[1], e>> \in Nests
      <4>1. q # <<>>
        BY <2>2
      <4> QED BY <1>1, <4>1, CalledFrom
    <3>2. Rank[q[1]] < Rank[e] /\ Rank[e] \in Nat /\ Rank[q[1]] \in Nat
      <4>1. Rank[<<q[1], e>>[1]] < Rank[<<q[1], e>>[2]]
        BY <3>1 DEF CallsAscend
      <4> QED BY <4>1, <3>1, <2>1 DEF CallsAscend
    <3>3. CASE i = 1
      BY <3>2, <3>3
    <3>4. CASE i # 1
      <4>1. 1 < i
        BY <3>4, <2>2, <1>1, Pushed
      <4>2. Rank[q[i]] < Rank[q[1]] /\ Rank[q[i]] \in Nat
        BY <4>1, <3>1, <2>1, <2>2 DEF Ascends
      <4> QED BY <4>2, <3>2
    <3> QED BY <3>3, <3>4
  <2> SUFFICES ASSUME NEW s \in CallbackThread,
                      NEW i \in 1 .. Len(stack'[s]), NEW j \in 1 .. Len(stack'[s]), i < j
               PROVE  Rank[stack'[s][j]] < Rank[stack'[s][i]]
    BY DEF Ascends
  <2>3. CASE s # t
    BY <1>1, <2>3, Pushed DEF Ascends
  <2>4. CASE s = t
    <3>1. Len(q) \in Nat /\ Len(stack'[t]) = Len(q) + 1
      BY <1>1, Pushed
    <3>2. j \in 2 .. Len(q) + 1
      BY <2>4, <3>1
    <3>3. j - 1 \in 1 .. Len(q) /\ stack'[t][j] = q[j - 1]
      BY <1>1, <3>2, Pushed
    <3>4. CASE i = 1
      BY <1>1, <2>2, <2>4, <3>3, <3>4, Pushed
    <3>5. CASE i # 1
      <4>1. i \in 2 .. Len(q) + 1 /\ i - 1 < j - 1
        BY <2>4, <3>1, <3>5
      <4>2. i - 1 \in 1 .. Len(q) /\ stack'[t][i] = q[i - 1]
        BY <1>1, <4>1, Pushed
      <4>3. Rank[q[j - 1]] < Rank[q[i - 1]]
        BY <3>3, <4>1, <4>2 DEF Ascends
      <4> QED BY <2>4, <3>3, <4>2, <4>3
    <3> QED BY <3>4, <3>5
  <2> QED BY <2>3, <2>4
<1>2. ASSUME NEW t \in CallbackThread, Return(t) PROVE Ascends(Rank)'
  <2> SUFFICES ASSUME NEW s \in CallbackThread,
                      NEW i \in 1 .. Len(stack'[s]), NEW j \in 1 .. Len(stack'[s]), i < j
               PROVE  Rank[stack'[s][j]] < Rank[stack'[s][i]]
    BY DEF Ascends
  <2>1. CASE s # t
    BY <1>2, <2>1, Popped DEF Ascends
  <2>2. CASE s = t
    <3>1. /\ i + 1 \in 1 .. Len(stack[t]) /\ stack'[t][i] = stack[t][i + 1]
          /\ j + 1 \in 1 .. Len(stack[t]) /\ stack'[t][j] = stack[t][j + 1]
      BY <1>2, <2>2, Popped
    <3>2. i + 1 < j + 1
      BY <1>2, <2>2, Popped
    <3>3. Rank[stack[t][j + 1]] < Rank[stack[t][i + 1]]
      BY <3>1, <3>2 DEF Ascends
    <3> QED BY <2>2, <3>1, <3>3
  <2> QED BY <2>1, <2>2
<1>3. CASE stack' = stack
  BY <1>3 DEF Ascends
<1>4. \/ stack' = stack
      \/ \E t \in CallbackThread : Return(t) \/ \E e \in Event : Emit(t, e)
  BY DEF CallbackNext, NewBuilder, Register, DropBuilder, SetCallback, Unlink,
         Detach, FreeBoxes, callbackVars
<1> QED BY <1>1, <1>2, <1>3, <1>4

(* A filter whose process events run on the data thread: two running       *)
(* trampolines refer to one closure only if one was entered again by its   *)
(* own calls, on its thread, and the user data is only shared (the cells   *)
(* of FilterListenerCallbacks).                                            *)
THEOREM FilterReferencesAreExclusive ==
  ASSUME Kind = "filter", NEW On, EventsSplit(On)
  PROVE  CallbackSpec => []ReferencesAreExclusive
<1>1. CallbackInit => StaysOn(On)
  BY DEF CallbackInit, StaysOn
<1>2. Types /\ StaysOn(On) /\ [CallbackNext]_callbackVars => StaysOn(On)'
  BY EventsStay
<1>3. Types /\ StaysOn(On) => ReferencesAreExclusive
  <2> SUFFICES ASSUME Types, StaysOn(On), NEW f \in Frames, NEW g \in Frames, f # g,
                      ~Reenters(f, g)
               PROVE  UniqueOf(EventOf(f))
                        \cap (UniqueOf(EventOf(g)) \cup SharedOf(EventOf(g))) = {}
    BY DEF ReferencesAreExclusive
  <2>1. ASSUME NEW h \in Frames
        PROVE  /\ h[1] \in CallbackThread /\ h[2] \in 1 .. Len(stack[h[1]])
               /\ EventOf(h) \in On[h[1]]
    <3>1. /\ h[1] \in CallbackThread /\ h[2] \in 1 .. MaxDepth /\ h[2] <= Len(stack[h[1]])
      BY DEF Frames
    <3>2. h[2] \in 1 .. Len(stack[h[1]])
      BY <3>1 DEF Types
    <3> QED BY <3>1, <3>2 DEF EventOf, StaysOn
  <2>2. EventOf(f) # EventOf(g)
    <3>1. CASE f[1] = g[1]
      BY <3>1 DEF Reenters
    <3>2. CASE f[1] # g[1]
      BY <2>1, <3>2 DEF EventsSplit
    <3> QED BY <3>1, <3>2
  <2> QED BY <2>2 DEF UniqueOf, SharedOf, FilterUnique, FilterShared, UserData
<1> QED BY <1>1, <1>2, <1>3, TypesHold, PTL DEF CallbackSpec

(* Which it is not when no closure's calls lead back to its event: nothing *)
(* but that keeps an FnMut from being entered while it runs.               *)
THEOREM NoClosureIsReentered ==
  ASSUME NEW Rank, CallsAscend(Rank)
  PROVE  CallbackSpec => []NothingReenters
<1>1. CallbackInit => Ascends(Rank)
  BY DEF CallbackInit, Ascends
<1>2. Types /\ Ascends(Rank) /\ [CallbackNext]_callbackVars => Ascends(Rank)'
  BY CallsStayAscending
<1>3. Types /\ Ascends(Rank) => NothingReenters
  <2> SUFFICES ASSUME Types, Ascends(Rank), NEW f \in Frames, NEW g \in Frames, f # g,
                      f[1] = g[1]
               PROVE  EventOf(f) # EventOf(g)
    BY DEF NothingReenters, Reenters
  <2>1. ASSUME NEW h \in Frames
        PROVE  /\ h[1] \in CallbackThread /\ h[2] \in 1 .. Len(stack[h[1]])
               /\ Rank[EventOf(h)] \in Nat /\ h = <<h[1], h[2]>>
    <3>1. /\ h[1] \in CallbackThread /\ h[2] \in 1 .. MaxDepth /\ h[2] <= Len(stack[h[1]])
          /\ h = <<h[1], h[2]>>
      BY DEF Frames
    <3>2. h[2] \in 1 .. Len(stack[h[1]])
      BY <3>1 DEF Types
    <3>3. stack[h[1]][h[2]] \in Event
      BY <3>1, <3>2 DEF Types
    <3> QED BY <3>1, <3>2, <3>3 DEF EventOf, CallsAscend
  <2>2. f[2] # g[2]
    BY <2>1
  <2>3. f[2] < g[2] \/ g[2] < f[2]
    BY <2>1, <2>2
  <2>4. \/ Rank[EventOf(g)] < Rank[EventOf(f)]
        \/ Rank[EventOf(f)] < Rank[EventOf(g)]
    BY <2>1, <2>3 DEF Ascends, EventOf
  <2> QED BY <2>1, <2>4
<1> QED BY <1>1, <1>2, <1>3, TypesHold, PTL DEF CallbackSpec

HIDE ListenerAssumption DEF ListenerAssumption

-----------------------------------------------------------------------------
(* The lock of a threaded loop.                                            *)

LoopTypes ==
  /\ owner \in Thread \cup {Nobody} /\ depth \in Nat
  /\ guards \in [App -> Nat]
  /\ pc \in [App -> {"runs", "waits", "waits_timed", "woken", "joins"}]
  /\ loopPc \in {"off", "polls", "dispatches", "holds_on", "left"}

(* A program thread owns the lock exactly while it has guards and does not *)
(* sleep, as often as it has guards; a thread that sleeps has one guard.   *)
ProgramLock ==
  \A t \in App :
    /\ owner = t <=> guards[t] > 0 /\ pc[t] \in {"runs", "joins"}
    /\ owner = t => depth = guards[t]
    /\ pc[t] \in {"waits", "waits_timed", "woken"} => guards[t] = 1

(* The loop's thread owns it exactly while it dispatches; else it is free. *)
LoopLock ==
  /\ owner = Loop <=> loopPc = "dispatches"
  /\ owner = Loop => depth = 1
  /\ owner = Nobody => depth = 0

LockInv == LoopTypes /\ ProgramLock /\ LoopLock

(* A removal that is half done belongs to a thread that may call. *)
RemoverMayCall ==
  /\ DOMAIN removing = Thread
  /\ \A t \in Thread : removing[t] # None => MayCall(t)

IInv == LockInv /\ RemoverMayCall

(* Two threads are never in the rings at once.                             *)
OneCaller == \A t, u \in Thread : MayCall(t) /\ MayCall(u) => t = u

(* While a thread is between the two writes of hook::remove, no other may  *)
(* read or write a ring, although callbacks of a walk may let go of the    *)
(* lock.                                                                   *)
RemovalsAreAlone ==
  \A t, u \in Thread : removing[t] # None /\ MayCall(u) => u = t

-----------------------------------------------------------------------------
USE ThreadLoopAssumption DEF Thread

LEMMA InitHolds == Init => IInv
BY DEF Init, LoopInit, H!HookInit, IInv, LockInv, LoopTypes, ProgramLock, LoopLock,
       RemoverMayCall

(* What a program thread does keeps the lock's books. *)
LEMMA ProgramKeepsLock ==
  ASSUME LockInv, NEW t \in App, ProgramStep(t)
  PROVE  LockInv'
<1> USE DEF LockInv, LoopTypes, ProgramLock, LoopLock
<1>1. CASE Lock(t)
  BY <1>1 DEF Lock, Spend
<1>2. CASE Unlock(t)
  <2>1. owner = t /\ depth = guards[t]
    BY <1>2 DEF Unlock, Locked
  <2> QED
    BY <1>2, <2>1 DEF Unlock, Locked
<1>3. CASE \E accept \in BOOLEAN : Ask(t, accept)
  BY <1>3 DEF Ask, Spend
<1>4. CASE Wait(t) \/ TimedWait(t)
  BY <1>4 DEF Wait, TimedWait, Sleep, Locked
<1>5. CASE WaitTimesOut(t)
  BY <1>5 DEF WaitTimesOut, Spend
<1>6. CASE WaitReturns(t)
  BY <1>6 DEF WaitReturns
<1>7. CASE Accept(t)
  BY <1>7 DEF Accept
<1>8. CASE Start(t)
  BY <1>8 DEF Start
<1>9. CASE Stop(t)
  BY <1>9 DEF Stop
<1>10. CASE StopReturns(t)
  BY <1>10 DEF StopReturns
<1> QED
  BY <1>1, <1>2, <1>3, <1>4, <1>5, <1>6, <1>7, <1>8, <1>9, <1>10 DEF ProgramStep

(* So does what the loop's thread does. *)
LEMMA LoopKeepsLock ==
  ASSUME LockInv, LoopStep
  PROVE  LockInv'
<1> USE DEF LockInv, LoopTypes, ProgramLock, LoopLock
<1>1. CASE Wakes
  BY <1>1 DEF Wakes
<1>2. ASSUME NEW t \in App, Answer(t)
      PROVE  LockInv'
  <2>1. \A u \in App : /\ pc'[u] \in {"runs", "joins"} <=> pc[u] \in {"runs", "joins"}
                       /\ pc[u] \in {"waits", "waits_timed", "woken"}
                            <=> pc'[u] \in {"waits", "waits_timed", "woken"}
    BY <1>2 DEF Answer, Woken
  <2>2. pc' \in [App -> {"runs", "waits", "waits_timed", "woken", "joins"}]
    BY <1>2 DEF Answer, Woken
  <2> QED
    BY <1>2, <2>1, <2>2 DEF Answer
<1>3. CASE Accepted
  BY <1>3 DEF Accepted
<1>4. CASE Polls
  BY <1>4 DEF Polls
<1> QED
  BY <1>1, <1>2, <1>3, <1>4 DEF LoopStep

(* The lock is let go of outside of removals only. *)
LEMMA LoopVarsStepKeepsRemovers ==
  ASSUME IInv, LoopStep \/ \E t \in App : ProgramStep(t), UNCHANGED listVars
  PROVE  RemoverMayCall'
<1> USE DEF IInv, RemoverMayCall, MayCall, Locked
<1>1. UNCHANGED removing
  BY DEF listVars
<1>2. SUFFICES ASSUME NEW u \in Thread, removing[u] # None
               PROVE  MayCall(u)'
  BY <1>1
<1>3. MayCall(u) /\ ~OutOfLists(u) /\ (u = Loop => ~InCallback(Loop))
  BY <1>2 DEF OutOfLists, InCallback, H!Calls, H!Free
<1>4. CASE LoopStep
  <2>1. CASE u = Loop
    BY <1>3, <1>4, <2>1 DEF LoopStep, Wakes, Accepted
  <2>2. CASE u \in App
    BY <1>3, <1>4, <2>2 DEF LoopStep, Wakes, Answer, Woken, Accepted, Polls, LockInv, LoopTypes
  <2> QED
    BY <2>1, <2>2
<1>5. ASSUME NEW t \in App, ProgramStep(t)
      PROVE  MayCall(u)'
  <2>1. CASE u = Loop
    BY <1>3, <1>5, <2>1 DEF ProgramStep, Lock, Unlock, Ask, Wait, TimedWait, Sleep, WaitTimesOut,
       WaitReturns, Accept, Start, Stop, StopReturns
  <2>2. CASE u \in App
    BY <1>3, <1>5, <2>2 DEF ProgramStep, Lock, Unlock, Ask, Wait, TimedWait, Sleep, WaitTimesOut,
       WaitReturns, Accept, Start, Stop, StopReturns, LockInv, LoopTypes
  <2> QED
    BY <2>1, <2>2
<1> QED
  BY <1>4, <1>5

(* A thread begins a removal only when it may call. *)
LEMMA ListStepKeepsRemovers ==
  ASSUME IInv, NEW t \in Thread, ListStep(t), UNCHANGED loopVars
  PROVE  RemoverMayCall'
<1> USE DEF IInv, RemoverMayCall
<1>1. MayCall(t) /\ \A u \in Thread : MayCall(u) => MayCall(u)'
  <2>1. UNCHANGED <<guards, pc, loopPc>>
    BY ONLY UNCHANGED loopVars DEF loopVars
  <2>2. MayCall(t)
    BY ONLY Zenon, ListStep(t) DEF ListStep
  <2> QED
    BY ONLY <2>1, <2>2 DEF MayCall, Locked
<1>2. DOMAIN removing' = Thread /\ \A u \in Thread \ {t} : removing'[u] = removing[u]
  BY DEF ListStep, H!HookStep, H!Register, H!DropListener, H!DropModule, H!StartRemove,
         H!FinishRemove, H!EmitEvent, H!ModuleDestroysItself, H!DropObject, H!StartWalk,
         H!Call, H!EndWalk
<1> QED
  BY <1>1, <1>2

LEMMA NextKeeps == IInv /\ [Next]_vars => IInv'
<1> SUFFICES ASSUME IInv, [Next]_vars
             PROVE  IInv'
  OBVIOUS
<1>1. CASE (LoopStep \/ \E t \in App : ProgramStep(t)) /\ UNCHANGED listVars
  BY <1>1, ProgramKeepsLock, LoopKeepsLock, LoopVarsStepKeepsRemovers DEF IInv
<1>2. ASSUME NEW t \in Thread, ListStep(t), UNCHANGED loopVars
      PROVE  IInv'
  <2>1. LockInv'
    BY <1>2 DEF IInv, LockInv, LoopTypes, ProgramLock, LoopLock, loopVars
  <2> QED
    BY <1>2, <2>1, ListStepKeepsRemovers DEF IInv
<1>3. CASE UNCHANGED vars
  BY <1>3 DEF vars, loopVars, listVars, IInv, LockInv, LoopTypes, ProgramLock, LoopLock,
              RemoverMayCall, MayCall, Locked
<1> QED
  BY <1>1, <1>2, <1>3 DEF Next

(* The lock, the guards and the threads agree at all times, whatever        *)
(* callbacks and waits let go of (ThreadLoopLockGuard, wait, signal).       *)
THEOREM Invariant == Spec => []IInv
BY InitHolds, NextKeeps, PTL DEF Spec

(* At most one thread may use the loop's objects: the guards of the        *)
(* program's threads and the dispatches of the loop's exclude each other.  *)
THEOREM CallersExclude == Spec => []OneCaller
<1>1. IInv => OneCaller
  BY DEF IInv, LockInv, LoopTypes, ProgramLock, LoopLock, OneCaller, MayCall, Locked
<1> QED
  BY <1>1, Invariant, PTL

(* Between the two writes of hook::remove no other thread is in any ring,  *)
(* so a removal is one step for everybody else.                            *)
THEOREM RemovalsExclude == Spec => []RemovalsAreAlone
<1>1. IInv => RemovalsAreAlone
  BY DEF IInv, LockInv, LoopTypes, ProgramLock, LoopLock, RemoverMayCall, RemovalsAreAlone,
         MayCall, Locked
<1> QED
  BY <1>1, Invariant, PTL

(* A loop that has left was told to; a thread that called stop with the    *)
(* lock held has it, and the loop did not get to leave.                    *)
StopsWait ==
  /\ loopPc = "left" => stopping
  /\ \A t \in App : StopsLocked(t) => loopPc # "left"

LEMMA StopsWaitKept ==
  ASSUME LockInv, StopsWait, [Next]_vars
  PROVE  StopsWait' /\ \A t \in App : StopsLocked(t) => StopsLocked(t)'
<1> USE DEF LockInv, LoopTypes, ProgramLock, LoopLock, StopsWait, StopsLocked
<1>1. ASSUME NEW t \in App, ProgramStep(t)
      PROVE  StopsWait' /\ \A u \in App : StopsLocked(u) => StopsLocked(u)'
  <2>1. CASE Lock(t) \/ Unlock(t)
    BY <2>1 DEF Lock, Unlock, Locked, Spend
  <2>2. CASE \E accept \in BOOLEAN : Ask(t, accept)
    BY <2>2 DEF Ask, Spend
  <2>3. CASE Wait(t) \/ TimedWait(t)
    BY <2>3 DEF Wait, TimedWait, Sleep, Locked
  <2>4. CASE WaitTimesOut(t) \/ WaitReturns(t)
    BY <2>4 DEF WaitTimesOut, WaitReturns, Spend
  <2>5. CASE Accept(t)
    BY <2>5 DEF Accept
  <2>6. CASE Start(t)
    BY <2>6 DEF Start
  <2>7. CASE Stop(t)
    BY <2>7 DEF Stop
  <2>8. CASE StopReturns(t)
    BY <2>8 DEF StopReturns
  <2> QED BY <1>1, <2>1, <2>2, <2>3, <2>4, <2>5, <2>6, <2>7, <2>8 DEF ProgramStep
<1>2. ASSUME LoopStep
      PROVE  StopsWait' /\ \A u \in App : StopsLocked(u) => StopsLocked(u)'
  <2>1. CASE Wakes \/ Accepted
    BY <2>1 DEF Wakes, Accepted
  <2>2. ASSUME NEW t \in App, Answer(t)
        PROVE  StopsWait' /\ \A u \in App : StopsLocked(u) => StopsLocked(u)'
    <3>1. \A u \in App : pc'[u] = "joins" <=> pc[u] = "joins"
      BY <2>2 DEF Answer, Woken
    <3> QED BY <2>2, <3>1 DEF Answer
  <2>3. CASE Polls
    BY <2>3 DEF Polls
  <2> QED BY <1>2, <2>1, <2>2, <2>3 DEF LoopStep
<1>3. CASE UNCHANGED loopVars
  BY <1>3 DEF loopVars
<1> QED BY <1>1, <1>2, <1>3 DEF Next, vars

(* Whoever calls stop with the lock held never comes back from it, at any  *)
(* number of threads: the loop's thread cannot leave without the lock.     *)
THEOREM StopNeedsTheLockFree == Spec => LockedStopHangs
<1>1. Init => StopsWait
  BY DEF Init, LoopInit, StopsWait, StopsLocked
<1>2. IInv /\ StopsWait /\ [Next]_vars => StopsWait'
  BY StopsWaitKept DEF IInv
<1>3. IInv /\ StopsWait /\ [Next]_vars =>
        [\A t \in App : StopsLocked(t) => StopsLocked(t)']_vars
  BY StopsWaitKept DEF IInv
<1> QED BY <1>1, <1>2, <1>3, Invariant, PTL DEF Spec, LockedStopHangs

-----------------------------------------------------------------------------
(* The rings of hooks under that lock.                                     *)
HIDE ThreadLoopAssumption DEF Thread

(* Whoever goes on along next comes through all of S. *)
OneCycle(nx, S) ==
  \A C \in SUBSET S : (\A x \in C : nx[x] \in C) => C = {} \/ C = S

(* next and prev are inverse to each other on S and lead out of it nowhere, *)
(* and the ring they make there is one.                                     *)
Whole(nx, pv, S) ==
  /\ \A x \in S : /\ nx[x] \in S /\ pv[nx[x]] = x
                  /\ pv[x] \in S /\ nx[pv[x]] = x
  /\ OneCycle(nx, S)

-----------------------------------------------------------------------------
(* Linking and unlinking.                                                  *)

(* hook::remove leaves a ring whole without the hook. *)
LEMMA UnlinkedIsWhole ==
  ASSUME NEW D, NEW R, NEW nx \in [D -> R], NEW pv \in [D -> R],
         NEW S \in SUBSET D, Whole(nx, pv, S), NEW n \in S
  PROVE  Whole([nx EXCEPT ![pv[n]] = nx[n]], [pv EXCEPT ![nx[n]] = pv[n]], S \ {n})
<1> DEFINE nx2 == [nx EXCEPT ![pv[n]] = nx[n]]
           pv2 == [pv EXCEPT ![nx[n]] = pv[n]]
<1>1. \A x \in S : nx2[x] = IF x = pv[n] THEN nx[n] ELSE nx[x]
  OBVIOUS
<1>2. \A x \in S : pv2[x] = IF x = nx[n] THEN pv[n] ELSE pv[x]
  OBVIOUS
<1> HIDE DEF nx2, pv2
<1>3. \A x \in S \ {n} : nx2[x] \in S \ {n} /\ pv2[nx2[x]] = x
  BY <1>1, <1>2 DEF Whole
<1>4. \A x \in S \ {n} : pv2[x] \in S \ {n} /\ nx2[pv2[x]] = x
  BY <1>1, <1>2 DEF Whole
<1>5. OneCycle(nx2, S \ {n})
  <2> SUFFICES ASSUME NEW C \in SUBSET (S \ {n}), \A x \in C : nx2[x] \in C, C # {}
               PROVE  C = S \ {n}
    BY DEF OneCycle
  <2>1. CASE pv[n] \in C
    <3>1. \A x \in C \cup {n} : nx[x] \in C \cup {n}
      BY <1>1, <2>1 DEF Whole
    <3>2. C \cup {n} = S
      <4> PICK Z : Z = C \cup {n}
        OBVIOUS
      <4> QED
        BY <3>1 DEF Whole, OneCycle
    <3> QED
      BY <3>2
  <2>2. CASE pv[n] \notin C
    <3>1. \A x \in C : nx[x] \in C
      BY <1>1, <2>2
    <3>2. C = S
      BY <3>1 DEF Whole, OneCycle
    <3> QED
      BY <3>2
  <2> QED
    BY <2>1, <2>2
<1> QED
  BY <1>3, <1>4, <1>5 DEF Whole, nx2, pv2

(* spa_list_insert leaves a ring whole with the new node. *)
LEMMA InsertedIsWhole ==
  ASSUME NEW D, NEW R, NEW nx \in [D -> R], NEW pv \in [D -> R],
         NEW S \in SUBSET D, Whole(nx, pv, S), NEW at \in S, NEW n \in D \ S
  PROVE  Whole([nx EXCEPT ![at] = n, ![n] = nx[at]],
               [pv EXCEPT ![n] = at, ![nx[at]] = n], S \cup {n})
<1> DEFINE nx2 == [nx EXCEPT ![at] = n, ![n] = nx[at]]
           pv2 == [pv EXCEPT ![n] = at, ![nx[at]] = n]
<1>1. nx2[n] = nx[at] /\ \A x \in S : nx2[x] = IF x = at THEN n ELSE nx[x]
  OBVIOUS
<1>2. pv2[n] = at /\ \A x \in S : pv2[x] = IF x = nx[at] THEN n ELSE pv[x]
  BY DEF Whole
<1> HIDE DEF nx2, pv2
<1>3. \A x \in S \cup {n} : nx2[x] \in S \cup {n} /\ pv2[nx2[x]] = x
  BY <1>1, <1>2 DEF Whole
<1>4. \A x \in S \cup {n} : pv2[x] \in S \cup {n} /\ nx2[pv2[x]] = x
  BY <1>1, <1>2 DEF Whole
<1>5. OneCycle(nx2, S \cup {n})
  <2> SUFFICES ASSUME NEW C \in SUBSET (S \cup {n}), \A x \in C : nx2[x] \in C, C # {}
               PROVE  C = S \cup {n}
    BY DEF OneCycle
  <2>1. \A x \in C \ {n} : nx[x] \in C \ {n}
    BY <1>1 DEF Whole
  <2>2. C \ {n} = {} \/ C \ {n} = S
    BY <2>1 DEF Whole, OneCycle
  <2>3. C \ {n} # {}
    <3> SUFFICES ASSUME C = {n}
                 PROVE  FALSE
      OBVIOUS
    <3>1. nx2[n] = n
      OBVIOUS
    <3> QED
      BY <1>1, <3>1 DEF Whole
  <2>4. n \in C
    BY <1>1, <2>2, <2>3
  <2> QED
    BY <2>2, <2>3, <2>4
<1> QED
  BY <1>3, <1>4, <1>5 DEF Whole, nx2, pv2

(* A ring none of whose pointers change stays whole. *)
LEMMA UntouchedIsWhole ==
  ASSUME NEW nx, NEW pv, NEW nx2, NEW pv2, NEW S, Whole(nx, pv, S),
         \A x \in S : nx2[x] = nx[x] /\ pv2[x] = pv[x]
  PROVE  Whole(nx2, pv2, S)
<1>1. OneCycle(nx2, S)
  <2> SUFFICES ASSUME NEW C \in SUBSET S, \A x \in C : nx2[x] \in C
               PROVE  C = {} \/ C = S
    BY DEF OneCycle
  <2>1. \A x \in C : nx[x] \in C
    OBVIOUS
  <2> QED
    BY <2>1 DEF Whole, OneCycle
<1> QED
  BY <1>1 DEF Whole

(* Writing one pointer of the links. *)
LEMMA NextWritten ==
  ASSUME NEW nx, NEW pv, NEW n, NEW m
  PROVE  [[next |-> nx, prev |-> pv] EXCEPT !.next[n] = m]
           = [next |-> [nx EXCEPT ![n] = m], prev |-> pv]
OBVIOUS

LEMMA PrevWritten ==
  ASSUME NEW nx, NEW pv, NEW n, NEW m
  PROVE  [[next |-> nx, prev |-> pv] EXCEPT !.prev[n] = m]
           = [next |-> nx, prev |-> [pv EXCEPT ![n] = m]]
OBVIOUS

LEMMA UnlinkIs ==
  ASSUME NEW n
  PROVE  H!Unlink(H!Links, n) = [next |-> [next EXCEPT ![prev[n]] = next[n]],
                                 prev |-> [prev EXCEPT ![next[n]] = prev[n]]]
<1> DEFINE elem == [next |-> next[n], prev |-> prev[n]]
<1>1. H!Predecessor(H!Links, elem) = [next |-> [next EXCEPT ![prev[n]] = next[n]], prev |-> prev]
  BY DEF H!Links, H!Predecessor
<1>2. H!Unlink(H!Links, n) = H!Successor([next |-> [next EXCEPT ![prev[n]] = next[n]], prev |-> prev], elem)
  BY <1>1 DEF H!Unlink, H!Links
<1> QED
  BY <1>2 DEF H!Successor

-----------------------------------------------------------------------------
(* The invariant.                                                          *)

Attached(o) == {l \in Listener \cap live : Of[l] = o}
CursorsOf(o) ==
  {c \in H!Cursor : c[2] \in 1 .. Len(walks[c[1]]) /\ walks[c[1]][c[2]].object = o}
Ring(o) == {o} \cup Attached(o) \cup CursorsOf(o)

(* t tells the hooks of a module that destroys itself. *)
Freeing(t) == walks[t] # <<>> /\ walks[t][Len(walks[t])].kind = "free"
Busy(t) == removing[t] # None \/ Freeing(t)
Leaving(o) == \E t \in Thread : removing[t] # None /\ Of[removing[t].hook] = o

WalkRecord ==
  [object : Object, kind : {"event", "free"}, at : H!Node, called : Seq(H!Node),
   due : SUBSET Listener]

HookTypes ==
  /\ next \in [H!Node -> H!Node \cup {None}]
  /\ prev \in [H!Node -> H!Node \cup {None}]
  /\ live \subseteq H!Node
  /\ module \in [Listener -> Object \cup {None}]
  /\ DOMAIN destroyed = Object
  /\ DOMAIN removing = Thread
  /\ walks \in [Thread -> Seq(WalkRecord)]
  /\ \A t \in Thread : Len(walks[t]) <= MaxWalks

(* What is walked exists; a module is only walked when it destroys itself, *)
(* and then nothing else is begun in that thread.                          *)
WalksAreLive ==
  \A t \in Thread : \A i \in 1 .. Len(walks[t]) :
    /\ walks[t][i].object \in live
    /\ <<t, i>> \in live
    /\ walks[t][i].kind = "event" <=> walks[t][i].object \notin Module
    /\ walks[t][i].kind = "free" => i = Len(walks[t])

RingsAreWhole ==
  \A o \in Object \cap live : ~Leaving(o) => Whole(next, prev, Ring(o))

(* A removal that is half done leaves the ring whole when it ends.         *)
HalfRemoved ==
  \A t \in Thread : removing[t] # None =>
    LET e == removing[t]
        o == Of[e.hook]
    IN /\ e.hook \in Listener \cap live /\ o \in live
       /\ e.next \in Ring(o)
       /\ Whole(next, [prev EXCEPT ![e.next] = e.prev], Ring(o) \ {e.hook})
       /\ e.prev \in H!Node
       /\ ~Freeing(t)
       /\ o \in Module => module[e.hook] = None /\ ~H!Walked(o)

(* A module that exists and does not go has its listener next to it, which *)
(* knows it; one that has gone, or is going, was destroyed once.           *)
ModulesAreKnown ==
  \A o \in Module :
    /\ o \in live /\ ~H!Walked(o) =>
         /\ destroyed[o] = 0
         /\ ~Leaving(o) => \A l \in Attached(o) : module[l] = o /\ next[o] = l /\ next[l] = o
    /\ o \in live /\ H!Walked(o) => destroyed[o] = 1
    /\ o \notin live => destroyed[o] = 1 /\ \A l \in Attached(o) : module[l] = None

(* The walk that tells a module's listener has it ahead, or behind and     *)
(* without its module.                                                     *)
FreeingIsTold ==
  \A t \in Thread : Freeing(t) =>
    LET o == walks[t][Len(walks[t])].object
        c == <<t, Len(walks[t])>>
    IN \A l \in Attached(o) :
         \/ next[o] = c /\ next[c] = l /\ next[l] = o
         \/ next[o] = l /\ next[l] = c /\ next[c] = o /\ module[l] = None

HInv ==
  /\ HookTypes /\ WalksAreLive /\ RingsAreWhole /\ HalfRemoved /\ ModulesAreKnown
  /\ FreeingIsTold /\ ~dangling

(* The threads but t are not in the middle of anything. *)
Alone(t) == \A u \in Thread \ {t} : ~Busy(u)

-----------------------------------------------------------------------------
(* What the invariant says of rings.                                       *)

USE ThreadedListenersAssumption DEF H!HookListAssumption

LEMMA NodesDiffer ==
  /\ \A c \in H!Cursor : c \notin Object /\ c \notin Listener
  /\ \A l \in Listener : l \notin Object /\ Of[l] \in Object
  /\ Object \subseteq H!Node /\ Listener \subseteq H!Node /\ H!Cursor \subseteq H!Node
BY DEF H!Node

LEMMA RingsAreNodes ==
  ASSUME HInv, NEW o \in Object \cap live
  PROVE  Ring(o) \subseteq H!Node /\ Ring(o) \subseteq live
<1>1. \A c \in CursorsOf(o) : c \in live
  <2> SUFFICES ASSUME NEW c \in CursorsOf(o)
               PROVE  c \in live
    OBVIOUS
  <2>1. c \in H!Cursor /\ c[1] \in Thread /\ c[2] \in 1 .. Len(walks[c[1]]) /\ c = <<c[1], c[2]>>
    BY DEF CursorsOf, H!Cursor
  <2> QED
    BY <2>1 DEF HInv, WalksAreLive
<1> QED
  BY <1>1, NodesDiffer DEF Ring, Attached, CursorsOf

LEMMA RingsAreApart ==
  ASSUME NEW o \in Object, NEW o2 \in Object, o # o2
  PROVE  Ring(o) \cap Ring(o2) = {}
BY NodesDiffer DEF Ring, Attached, CursorsOf

(* A thread that may begin something finds every ring whole, and no module *)
(* on its way out.                                                         *)
LEMMA CallersFindRingsWhole ==
  ASSUME HInv, NEW t \in Thread, Alone(t), H!Calls(t)
  PROVE  /\ \A u \in Thread : removing[u] = None /\ ~Freeing(u)
         /\ \A o \in Module : ~H!Walked(o)
         /\ \A o \in Object \cap live : Whole(next, prev, Ring(o))
         /\ \A u \in Thread : \A i \in 1 .. Len(walks[u]) : walks[u][i].kind = "event"
<1>1. \A u \in Thread : removing[u] = None /\ ~Freeing(u)
  BY DEF Alone, Busy, H!Calls, H!Free, Freeing, H!Walk
<1>2. \A u \in Thread : \A i \in 1 .. Len(walks[u]) : walks[u][i].kind = "event"
  <2> SUFFICES ASSUME NEW u \in Thread, NEW i \in 1 .. Len(walks[u]), walks[u][i].kind # "event"
               PROVE  FALSE
    OBVIOUS
  <2>1. walks[u] \in Seq(WalkRecord) /\ walks[u][i] \in WalkRecord
    BY DEF HInv, HookTypes
  <2>2. walks[u][i].kind = "free"
    BY <2>1 DEF WalkRecord
  <2>3. i = Len(walks[u])
    BY <2>2 DEF HInv, WalksAreLive
  <2>4. walks[u] # <<>>
    BY <2>1
  <2> QED
    BY <1>1, <2>2, <2>3, <2>4 DEF Freeing
<1>3. \A o \in Module : ~H!Walked(o)
  <2> SUFFICES ASSUME NEW o \in Module, NEW u \in Thread, NEW i \in DOMAIN walks[u],
                      walks[u][i].object = o
               PROVE  FALSE
    BY DEF H!Walked
  <2>1. i \in 1 .. Len(walks[u])
    BY DEF HInv, HookTypes
  <2> QED
    BY <1>2, <2>1 DEF HInv, WalksAreLive
<1> QED
  BY <1>1, <1>2, <1>3 DEF HInv, RingsAreWhole, Leaving

LEMMA WalkedHasCursor ==
  ASSUME HookTypes, NEW o
  PROVE  H!Walked(o) <=> CursorsOf(o) # {}
<1>1. \A u \in Thread : DOMAIN walks[u] = 1 .. Len(walks[u]) /\ Len(walks[u]) \in 0 .. MaxWalks
  BY DEF HookTypes
<1>2. ASSUME NEW u \in Thread, NEW i \in DOMAIN walks[u], walks[u][i].object = o
      PROVE  <<u, i>> \in CursorsOf(o)
  BY <1>1, <1>2 DEF CursorsOf, H!Cursor
<1>3. ASSUME NEW c \in CursorsOf(o)
      PROVE  H!Walked(o)
  BY <1>1 DEF CursorsOf, H!Cursor, H!Walked
<1> QED
  BY <1>2, <1>3 DEF H!Walked

LEMMA WalkedHasCursorAfter ==
  ASSUME HookTypes', NEW o
  PROVE  H!Walked(o)' <=> CursorsOf(o)' # {}
<1>1. \A u \in Thread : DOMAIN walks'[u] = 1 .. Len(walks'[u]) /\ Len(walks'[u]) \in 0 .. MaxWalks
  BY DEF HookTypes
<1>2. ASSUME NEW u \in Thread, NEW i \in DOMAIN walks'[u], walks'[u][i].object = o
      PROVE  <<u, i>> \in CursorsOf(o)'
  BY <1>1, <1>2 DEF CursorsOf, H!Cursor
<1>3. ASSUME NEW c \in CursorsOf(o)'
      PROVE  H!Walked(o)'
  BY <1>1 DEF CursorsOf, H!Cursor, H!Walked
<1> QED
  BY <1>2, <1>3 DEF H!Walked

(* What the pointers are once a node is linked. *)
NextLinked(at, n) == [next EXCEPT ![at] = n, ![n] = next[at]]
PrevLinked(at, n) == [prev EXCEPT ![n] = at, ![next[at]] = n]

LEMMA Linked ==
  ASSUME HInv, NEW o \in Object \cap live, NEW at \in Ring(o), NEW n \in H!Node,
         Whole(next, prev, Ring(o)), \A o2 \in Object \cap live : n \notin Ring(o2)
  PROVE  /\ NextLinked(at, n) \in [H!Node -> H!Node \cup {None}]
         /\ PrevLinked(at, n) \in [H!Node -> H!Node \cup {None}]
         /\ Whole(NextLinked(at, n), PrevLinked(at, n), Ring(o) \cup {n})
         /\ \A o2 \in (Object \cap live) \ {o} : \A x \in Ring(o2) :
              NextLinked(at, n)[x] = next[x] /\ PrevLinked(at, n)[x] = prev[x]
<1>1. /\ next \in [H!Node -> H!Node \cup {None}] /\ prev \in [H!Node -> H!Node \cup {None}]
      /\ Ring(o) \subseteq H!Node /\ next[at] \in Ring(o) /\ n \notin Ring(o)
  BY RingsAreNodes DEF HInv, HookTypes, Whole
<1>2. Whole(NextLinked(at, n), PrevLinked(at, n), Ring(o) \cup {n})
  BY <1>1, InsertedIsWhole DEF NextLinked, PrevLinked
<1>3. ASSUME NEW o2 \in (Object \cap live) \ {o}, NEW x \in Ring(o2)
      PROVE  NextLinked(at, n)[x] = next[x] /\ PrevLinked(at, n)[x] = prev[x]
  <2>1. x \in H!Node /\ x \notin Ring(o) /\ x # n
    BY RingsAreNodes, RingsAreApart
  <2> QED
    BY <1>1, <2>1 DEF NextLinked, PrevLinked
<1>4. /\ NextLinked(at, n) \in [H!Node -> H!Node \cup {None}]
      /\ PrevLinked(at, n) \in [H!Node -> H!Node \cup {None}]
  BY <1>1 DEF NextLinked, PrevLinked
<1> QED
  BY <1>2, <1>3, <1>4

(* And once a node is unlinked. *)
NextUnlinked(n) == [next EXCEPT ![prev[n]] = next[n]]
PrevUnlinked(n) == [prev EXCEPT ![next[n]] = prev[n]]

LEMMA Unlinked ==
  ASSUME HInv, NEW o \in Object \cap live, NEW n \in Ring(o), Whole(next, prev, Ring(o))
  PROVE  /\ NextUnlinked(n) \in [H!Node -> H!Node \cup {None}]
         /\ PrevUnlinked(n) \in [H!Node -> H!Node \cup {None}]
         /\ Whole(NextUnlinked(n), PrevUnlinked(n), Ring(o) \ {n})
         /\ \A o2 \in (Object \cap live) \ {o} : \A x \in Ring(o2) :
              NextUnlinked(n)[x] = next[x] /\ PrevUnlinked(n)[x] = prev[x]
<1>1. /\ next \in [H!Node -> H!Node \cup {None}] /\ prev \in [H!Node -> H!Node \cup {None}]
      /\ Ring(o) \subseteq H!Node /\ next[n] \in Ring(o) /\ prev[n] \in Ring(o)
  BY RingsAreNodes DEF HInv, HookTypes, Whole
<1>2. Whole(NextUnlinked(n), PrevUnlinked(n), Ring(o) \ {n})
  BY <1>1, UnlinkedIsWhole DEF NextUnlinked, PrevUnlinked
<1>3. ASSUME NEW o2 \in (Object \cap live) \ {o}, NEW x \in Ring(o2)
      PROVE  NextUnlinked(n)[x] = next[x] /\ PrevUnlinked(n)[x] = prev[x]
  <2>1. x \in H!Node /\ x \notin Ring(o)
    BY RingsAreNodes, RingsAreApart
  <2> QED
    BY <1>1, <2>1 DEF NextUnlinked, PrevUnlinked
<1>4. /\ NextUnlinked(n) \in [H!Node -> H!Node \cup {None}]
      /\ PrevUnlinked(n) \in [H!Node -> H!Node \cup {None}]
  BY <1>1 DEF NextUnlinked, PrevUnlinked
<1> QED
  BY <1>2, <1>3, <1>4

-----------------------------------------------------------------------------
(* Every step keeps the invariant.                                         *)

LEMMA RegisterKeeps ==
  ASSUME HInv, NEW t \in Thread, Alone(t), NEW l \in Listener, H!Register(t, l)
  PROVE  HInv'
<1> DEFINE o == Of[l]
<1>1. /\ \A u \in Thread : removing[u] = None /\ ~Freeing(u)
      /\ \A m \in Module : ~H!Walked(m)
      /\ \A m \in Object \cap live : Whole(next, prev, Ring(m))
  BY CallersFindRingsWhole DEF H!Register
<1>2. o \in Object \cap live /\ next[l] = None
  BY NodesDiffer DEF H!Register
<1>3. l \notin live
  <2>1. ASSUME l \in live PROVE FALSE
    <3>1. l \in Ring(o)
      BY <2>1 DEF Ring, Attached
    <3> QED
      BY <1>1, <1>2, <3>1, RingsAreNodes DEF Whole
  <2> QED
    BY <2>1
<1>4. prev[o] \in Ring(o)
  BY <1>1, <1>2 DEF Whole, Ring
<1>5. \A m \in Object \cap live : l \notin Ring(m)
  BY <1>3, RingsAreNodes
<1>6. next' = NextLinked(prev[o], l) /\ prev' = PrevLinked(prev[o], l)
  BY DEF H!Register, H!SetLinks, H!Links, H!Insert, NextLinked, PrevLinked
<1>20. /\ next' \in [H!Node -> H!Node \cup {None}]
       /\ prev' \in [H!Node -> H!Node \cup {None}]
       /\ Whole(next', prev', Ring(o) \cup {l})
       /\ \A m \in (Object \cap live) \ {o} : \A x \in Ring(m) :
            next'[x] = next[x] /\ prev'[x] = prev[x]
  <2>1. l \in H!Node /\ Whole(next, prev, Ring(o))
    BY <1>1, <1>2, NodesDiffer
  <2>2. /\ NextLinked(prev[o], l) \in [H!Node -> H!Node \cup {None}]
        /\ PrevLinked(prev[o], l) \in [H!Node -> H!Node \cup {None}]
        /\ Whole(NextLinked(prev[o], l), PrevLinked(prev[o], l), Ring(o) \cup {l})
        /\ \A m \in (Object \cap live) \ {o} : \A x \in Ring(m) :
              NextLinked(prev[o], l)[x] = next[x] /\ PrevLinked(prev[o], l)[x] = prev[x]
    BY ONLY HInv, <1>2, <1>4, <1>5, <2>1, Linked
  <2> QED
    BY <1>6, <2>2
<1>7. /\ live' = live \cup {l} /\ UNCHANGED <<walks, removing, destroyed, dangling>>
      /\ module' = [module EXCEPT ![l] = IF o \in Module THEN o ELSE None]
  BY DEF H!Register
<1>8. /\ Attached(o)' = Attached(o) \cup {l}
      /\ \A m \in Object \ {o} : Attached(m)' = Attached(m)
      /\ \A m : CursorsOf(m)' = CursorsOf(m) /\ (H!Walked(m)' <=> H!Walked(m))
  BY <1>7 DEF Attached, CursorsOf, H!Walked
<1>9. Ring(o)' = Ring(o) \cup {l} /\ \A m \in Object \ {o} : Ring(m)' = Ring(m)
  BY <1>8 DEF Ring
<1>10. \A u \in Thread : removing'[u] = None /\ ~Freeing(u)'
  BY <1>1, <1>7 DEF Freeing
<1>11. Object \cap live' = Object \cap live
  BY <1>7, NodesDiffer
<1>12. HookTypes'
  <2>1. live' \subseteq H!Node /\ module' \in [Listener -> Object \cup {None}]
    BY <1>2, <1>7, NodesDiffer DEF HInv, HookTypes
  <2> QED
    BY <1>20, <1>7, <2>1 DEF HInv, HookTypes
<1>13. WalksAreLive'
  BY <1>7 DEF HInv, WalksAreLive
<1>14. RingsAreWhole'
  <2> SUFFICES ASSUME NEW m \in Object \cap live
               PROVE  Whole(next', prev', Ring(m)')
    BY <1>11 DEF RingsAreWhole
  <2>1. CASE m = o
    BY <1>20, <1>9, <2>1
  <2>2. CASE m # o
    <3>1. Whole(next, prev, Ring(m)) /\ \A x \in Ring(m) : next'[x] = next[x] /\ prev'[x] = prev[x]
      BY <1>1, <1>20, <2>2
    <3>2. Whole(next', prev', Ring(m))
      BY <3>1, UntouchedIsWhole
    <3> QED
      BY <1>9, <2>2, <3>2
  <2> QED
    BY <2>1, <2>2
<1>15. HalfRemoved'
  BY <1>10 DEF HalfRemoved
<1>16. ModulesAreKnown'
  <2> SUFFICES ASSUME NEW m \in Module
               PROVE  /\ m \in live' /\ ~H!Walked(m)' => destroyed'[m] = 0
                           /\ (~Leaving(m)' => \A k \in Attached(m)' :
                                 module'[k] = m /\ next'[m] = k /\ next'[k] = m)
                      /\ m \in live' /\ H!Walked(m)' => destroyed'[m] = 1
                      /\ m \notin live' => destroyed'[m] = 1 /\ \A k \in Attached(m)' : module'[k] = None
    BY DEF ModulesAreKnown
  <2>1. m \in Object /\ (m \in live <=> m \in live')
    BY <1>11
  <2>2. CASE m = o
    <3>1. Attached(o) = {}
      BY <1>2, <1>3, <2>2 DEF Attached
    <3>2. Ring(o) = {o}
      BY <1>1, <2>2, <3>1, WalkedHasCursor DEF Ring, HInv
    <3>3. prev[o] = o /\ next[o] = o
      BY <1>1, <1>2, <3>2 DEF Whole
    <3>4. next'[o] = l /\ next'[l] = o /\ module'[l] = o /\ l # o
      BY <1>2, <1>6, <1>7, <2>2, <3>3, NodesDiffer DEF HInv, HookTypes, NextLinked
    <3> QED
      BY <1>1, <1>2, <1>7, <1>8, <2>1, <2>2, <3>1, <3>4 DEF HInv, ModulesAreKnown
  <2>3. CASE m # o
    <3>1. Attached(m)' = Attached(m) /\ \A k \in Attached(m) : k # l /\ k \in Listener
      BY <1>3, <1>8, <2>1, <2>3 DEF Attached
    <3>2. \A k \in Attached(m) : module'[k] = module[k]
      BY <1>7, <3>1 DEF HInv, HookTypes
    <3>3. m \in live => next'[m] = next[m] /\ \A k \in Attached(m) : next'[k] = next[k]
      BY <1>20, <2>1, <2>3 DEF Ring
    <3>4. ~Leaving(m)
      BY <1>1 DEF Leaving
    <3> QED
      BY <1>7, <1>8, <2>1, <3>1, <3>2, <3>3, <3>4 DEF HInv, ModulesAreKnown
  <2> QED
    BY <2>2, <2>3
<1>17. FreeingIsTold'
  BY <1>10 DEF FreeingIsTold
<1> QED
  BY <1>7, <1>12, <1>13, <1>14, <1>15, <1>16, <1>17 DEF HInv

LEMMA FunctionIsSeq ==
  ASSUME NEW S, NEW n \in Nat, NEW f \in [1 .. n -> S]
  PROVE  f \in Seq(S)
BY Zenon, SeqDef

(* StartRemove only takes a listener off what the walks are due to call. *)
LEMMA WalksStay ==
  ASSUME HookTypes, NEW l,
         walks' = [u \in Thread |-> [i \in DOMAIN walks[u] |->
                     [walks[u][i] EXCEPT !.due = @ \ {l}]]]
  PROVE  /\ walks' \in [Thread -> Seq(WalkRecord)]
         /\ \A u \in Thread : /\ Len(walks'[u]) = Len(walks[u])
                              /\ \A i \in 1 .. Len(walks[u]) :
                                   /\ walks'[u][i].object = walks[u][i].object
                                   /\ walks'[u][i].kind = walks[u][i].kind
<1> SUFFICES ASSUME NEW u \in Thread
             PROVE  /\ walks'[u] \in Seq(WalkRecord)
                    /\ Len(walks'[u]) = Len(walks[u])
                    /\ \A i \in 1 .. Len(walks[u]) :
                          /\ walks'[u][i].object = walks[u][i].object
                          /\ walks'[u][i].kind = walks[u][i].kind
  BY Zenon
<1> DEFINE w == walks[u]
           less(r) == [r EXCEPT !.due = @ \ {l}]
<1>1. w \in Seq(WalkRecord)
  BY DEF HookTypes
<1>2. walks'[u] = [i \in 1 .. Len(w) |-> less(w[i])]
  BY <1>1
<1>3. \A r \in WalkRecord : /\ less(r) \in WalkRecord
                            /\ less(r).object = r.object /\ less(r).kind = r.kind
  BY DEF WalkRecord
<1> HIDE DEF w, less
<1>4. Len(w) \in Nat /\ \A i \in 1 .. Len(w) : w[i] \in WalkRecord
  BY <1>1
<1>5. walks'[u] \in [1 .. Len(w) -> WalkRecord]
  BY <1>2, <1>3, <1>4
<1>6. walks'[u] \in Seq(WalkRecord)
  BY <1>4, <1>5, FunctionIsSeq
<1>7. Len(walks'[u]) = Len(w)
  BY <1>4, <1>5, <1>6, LenProperties
<1>8. \A i \in 1 .. Len(w) : walks'[u][i].object = w[i].object /\ walks'[u][i].kind = w[i].kind
  BY <1>2, <1>3, <1>4
<1> QED
  BY <1>6, <1>7, <1>8 DEF w

(* Rings, walks and modules after walks stayed as they were. *)
LEMMA WalkedStays ==
  ASSUME HookTypes, HookTypes',
         \A u \in Thread : /\ Len(walks'[u]) = Len(walks[u])
                           /\ \A i \in 1 .. Len(walks[u]) :
                                /\ walks'[u][i].object = walks[u][i].object
                                /\ walks'[u][i].kind = walks[u][i].kind
  PROVE  /\ \A m : CursorsOf(m)' = CursorsOf(m) /\ (H!Walked(m)' <=> H!Walked(m))
         /\ \A u \in Thread : Freeing(u)' <=> Freeing(u)
<1>1. \A m : CursorsOf(m)' = CursorsOf(m)
  BY DEF CursorsOf, H!Cursor
<1>2. \A u \in Thread : /\ DOMAIN walks[u] = 1 .. Len(walks[u]) /\ DOMAIN walks'[u] = 1 .. Len(walks[u])
                        /\ Len(walks[u]) \in Nat
                        /\ (walks[u] = <<>> <=> Len(walks[u]) = 0)
                        /\ (walks'[u] = <<>> <=> Len(walks[u]) = 0)
  BY DEF HookTypes
<1>3. \A m : H!Walked(m)' <=> H!Walked(m)
  BY <1>2 DEF H!Walked
<1>4. \A u \in Thread : Freeing(u)' <=> Freeing(u)
  BY <1>2 DEF Freeing
<1> QED
  BY <1>1, <1>3, <1>4

(* The first write of hook::remove. *)
LEMMA StartRemoveKeeps ==
  ASSUME HInv, NEW t \in Thread, Alone(t), H!Calls(t), NEW l \in Listener, l \in live,
         Of[l] \in live, H!StartRemove(t, l), UNCHANGED <<live, destroyed>>,
         module' = IF Of[l] \in Module THEN [module EXCEPT ![l] = None] ELSE module
  PROVE  HInv'
<1> DEFINE o == Of[l]
           e == [hook |-> l, next |-> next[l], prev |-> prev[l]]
<1>1. /\ \A u \in Thread : removing[u] = None /\ ~Freeing(u)
      /\ \A m \in Module : ~H!Walked(m)
      /\ \A m \in Object \cap live : Whole(next, prev, Ring(m))
  BY CallersFindRingsWhole
<1>2. o \in Object \cap live /\ l \in Ring(o) /\ l \in Attached(o)
  BY NodesDiffer DEF Ring, Attached
<1>3. /\ next[l] \in Ring(o) /\ prev[l] \in Ring(o)
      /\ next[l] \in H!Node /\ prev[l] \in H!Node /\ prev[l] \in live
  BY <1>1, <1>2, RingsAreNodes DEF Whole
<1>4. next' = NextUnlinked(l) /\ prev' = prev
  BY DEF H!StartRemove, H!SetLinks, H!Predecessor, H!Links, NextUnlinked
<1>5. removing' = [removing EXCEPT ![t] = e]
  BY DEF H!StartRemove
<1>6. ~dangling'
  BY <1>3 DEF H!StartRemove, HInv
<1>7. e # None /\ e.hook = l /\ e.next = next[l] /\ e.prev = prev[l]
  BY <1>3
<1>8. /\ walks' \in [Thread -> Seq(WalkRecord)]
      /\ \A u \in Thread : /\ Len(walks'[u]) = Len(walks[u])
                           /\ \A i \in 1 .. Len(walks[u]) :
                                /\ walks'[u][i].object = walks[u][i].object
                                /\ walks'[u][i].kind = walks[u][i].kind
  BY WalksStay DEF H!StartRemove, HInv
<1> HIDE DEF e
<1>9. /\ removing'[t] = e /\ DOMAIN removing' = Thread
      /\ \A u \in Thread \ {t} : removing'[u] = None
  BY <1>1, <1>5 DEF HInv, HookTypes
<1>10. /\ NextUnlinked(l) \in [H!Node -> H!Node \cup {None}]
       /\ Whole(NextUnlinked(l), PrevUnlinked(l), Ring(o) \ {l})
       /\ \A m \in (Object \cap live) \ {o} : \A x \in Ring(m) : NextUnlinked(l)[x] = next[x]
  BY SMTT(40), <1>1, <1>2, Unlinked
<1>11. HookTypes'
  <2>1. module' \in [Listener -> Object \cup {None}]
    BY DEF HInv, HookTypes
  <2> QED
    BY <1>4, <1>8, <1>9, <1>10, <2>1 DEF HInv, HookTypes
<1>12. /\ \A m : CursorsOf(m)' = CursorsOf(m) /\ (H!Walked(m)' <=> H!Walked(m))
       /\ \A u \in Thread : Freeing(u)' <=> Freeing(u)
  BY <1>8, <1>11, WalkedStays DEF HInv
<1>13. \A m : Attached(m)' = Attached(m) /\ Ring(m)' = Ring(m)
  BY <1>12 DEF Attached, Ring
<1>14. \A m : Leaving(m)' <=> m = o
  BY <1>7, <1>9 DEF Leaving
<1>15. WalksAreLive'
  <2> SUFFICES ASSUME NEW u \in Thread, NEW i \in 1 .. Len(walks[u])
               PROVE  /\ walks'[u][i].object \in live
                      /\ <<u, i>> \in live
                      /\ walks'[u][i].kind = "event" <=> walks'[u][i].object \notin Module
                      /\ walks'[u][i].kind = "free" => i = Len(walks[u])
    BY <1>8 DEF WalksAreLive
  <2>1. walks'[u][i].object = walks[u][i].object /\ walks'[u][i].kind = walks[u][i].kind
    BY <1>8
  <2> QED
    BY <2>1 DEF HInv, WalksAreLive
<1>16. RingsAreWhole'
  <2> SUFFICES ASSUME NEW m \in Object \cap live, m # o
               PROVE  Whole(next', prev', Ring(m)')
    BY <1>14 DEF RingsAreWhole
  <2>1. Whole(next, prev, Ring(m)) /\ \A x \in Ring(m) : next'[x] = next[x] /\ prev'[x] = prev[x]
    BY <1>1, <1>4, <1>10
  <2>2. Whole(next', prev', Ring(m))
    BY <2>1, UntouchedIsWhole
  <2> QED
    BY <1>13, <2>2
<1>17. HalfRemoved'
  <2>1. [prev' EXCEPT ![next[l]] = prev[l]] = PrevUnlinked(l)
    BY <1>4 DEF PrevUnlinked
  <2>2. Whole(next', [prev' EXCEPT ![e.next] = e.prev], Ring(o)' \ {l})
    BY <1>4, <1>7, <1>10, <1>13, <2>1
  <2>3. o \in Module => module'[l] = None /\ ~H!Walked(o)'
    BY <1>1, <1>12 DEF HInv, HookTypes
  <2>4. ~Freeing(t)'
    BY <1>1, <1>12
  <2> QED
    BY <1>2, <1>3, <1>7, <1>9, <1>13, <2>2, <2>3, <2>4 DEF HalfRemoved
<1>18. ModulesAreKnown'
  <2> SUFFICES ASSUME NEW m \in Module
               PROVE  /\ m \in live' /\ ~H!Walked(m)' => destroyed'[m] = 0
                           /\ (~Leaving(m)' => \A k \in Attached(m)' :
                                 module'[k] = m /\ next'[m] = k /\ next'[k] = m)
                      /\ m \in live' /\ H!Walked(m)' => destroyed'[m] = 1
                      /\ m \notin live' => destroyed'[m] = 1 /\ \A k \in Attached(m)' : module'[k] = None
    BY DEF ModulesAreKnown
  <2>1. CASE m = o
    BY <1>1, <1>2, <1>12, <1>14, <2>1 DEF HInv, ModulesAreKnown
  <2>2. CASE m # o
    <3>1. \A k \in Attached(m) : k \in Listener /\ module'[k] = module[k]
      BY <2>2 DEF Attached, HInv, HookTypes
    <3>2. m \in live => next'[m] = next[m] /\ \A k \in Attached(m) : next'[k] = next[k]
      BY <1>4, <1>10, <2>2 DEF Ring
    <3>3. ~Leaving(m)
      BY <1>1 DEF Leaving
    <3> QED
      BY <1>12, <1>13, <3>1, <3>2, <3>3 DEF HInv, ModulesAreKnown
  <2> QED
    BY <2>1, <2>2
<1>19. FreeingIsTold'
  BY <1>1, <1>12 DEF FreeingIsTold
<1> QED
  BY <1>6, <1>11, <1>15, <1>16, <1>17, <1>18, <1>19 DEF HInv

LEMMA DropListenerKeeps ==
  ASSUME HInv, ListenersGoFirst, NEW t \in Thread, Alone(t), NEW l \in Listener,
         H!DropListener(t, l)
  PROVE  HInv'
BY StartRemoveKeeps DEF H!DropListener, ListenersGoFirst

(* A LocalModule whose pointer is gone is only freed, long after its ring. *)
LEMMA DropModuleKeeps ==
  ASSUME HInv, NEW t \in Thread, Alone(t), NEW l \in Listener, H!DropModule(t, l)
  PROVE  HInv'
<1> DEFINE o == Of[l]
<1>1. /\ \A u \in Thread : removing[u] = None /\ ~Freeing(u)
      /\ \A m \in Module : ~H!Walked(m)
      /\ \A m \in Object \cap live : Whole(next, prev, Ring(m))
  BY CallersFindRingsWhole DEF H!DropModule
<1>2. H!Calls(t) /\ l \in live /\ o \in Module /\ o \in Object /\ o # None
      /\ UNCHANGED destroyed /\ module' = [module EXCEPT ![l] = None]
  BY NodesDiffer DEF H!DropModule
<1>3. l \in Attached(o)
  BY <1>2 DEF Attached
<1>4. ~Leaving(o)
  BY <1>1 DEF Leaving
<1>5. o \in live <=> module[l] # None
  BY <1>1, <1>2, <1>3, <1>4 DEF HInv, ModulesAreKnown
<1>6. CASE module[l] # None
  <2>1. H!StartRemove(t, l) /\ UNCHANGED live
    BY <1>6 DEF H!DropModule
  <2> QED
    BY <1>2, <1>5, <1>6, <2>1, StartRemoveKeeps
<1>7. CASE module[l] = None
  <2>1. live' = live \ {l} /\ UNCHANGED <<next, prev, walks, removing, dangling>>
    BY <1>7 DEF H!DropModule, H!StartRemove
  <2>2. o \notin live
    BY <1>5, <1>7
  <2>3. Object \cap live' = Object \cap live
    BY <2>1, NodesDiffer
  <2>4. /\ \A m \in Object \cap live : Attached(m)' = Attached(m)
        /\ \A m : Attached(m)' \subseteq Attached(m) /\ l \notin Attached(m)'
    BY <2>1, <2>2 DEF Attached
  <2>5. \A m : CursorsOf(m)' = CursorsOf(m) /\ (H!Walked(m)' <=> H!Walked(m))
    BY <2>1 DEF CursorsOf, H!Walked
  <2>6. \A m \in Object \cap live : Ring(m)' = Ring(m)
    BY <2>4, <2>5 DEF Ring
  <2>7. \A u \in Thread : removing'[u] = None /\ ~Freeing(u)'
    BY <1>1, <2>1 DEF Freeing
  <2>8. HookTypes'
    BY <1>2, <2>1 DEF HInv, HookTypes
  <2>9. WalksAreLive'
    <3> SUFFICES ASSUME NEW u \in Thread, NEW i \in 1 .. Len(walks[u])
                 PROVE  walks[u][i].object # l /\ <<u, i>> # l
      BY <2>1 DEF HInv, WalksAreLive
    <3>1. walks[u] \in Seq(WalkRecord) /\ walks[u][i] \in WalkRecord /\ Len(walks[u]) \in 0 .. MaxWalks
      BY DEF HInv, HookTypes
    <3>2. <<u, i>> \in H!Cursor /\ walks[u][i].object \in Object
      BY <3>1 DEF H!Cursor, WalkRecord
    <3> QED
      BY <3>2, NodesDiffer
  <2>10. RingsAreWhole'
    BY <1>1, <2>1, <2>3, <2>6 DEF RingsAreWhole
  <2>11. HalfRemoved'
    BY <2>7 DEF HalfRemoved
  <2>12. ModulesAreKnown'
    <3> SUFFICES ASSUME NEW m \in Module
                 PROVE  /\ m \in live' /\ ~H!Walked(m)' => destroyed'[m] = 0
                             /\ (~Leaving(m)' => \A k \in Attached(m)' :
                                   module'[k] = m /\ next'[m] = k /\ next'[k] = m)
                        /\ m \in live' /\ H!Walked(m)' => destroyed'[m] = 1
                        /\ m \notin live' => destroyed'[m] = 1 /\ \A k \in Attached(m)' : module'[k] = None
      BY DEF ModulesAreKnown
    <3>1. m \in Object /\ (m \in live' <=> m \in live) /\ ~Leaving(m)
      BY <1>1, <2>3 DEF Leaving
    <3>2. \A k \in Attached(m)' : k \in Attached(m) /\ k # l
      BY <2>4
    <3>3. \A k \in Attached(m) : k # l => module'[k] = module[k]
      BY <1>2 DEF Attached, HInv, HookTypes
    <3> QED
      BY <3>3, <1>2, <2>1, <2>5, <3>1, <3>2 DEF HInv, ModulesAreKnown
  <2>13. FreeingIsTold'
    BY <2>7 DEF FreeingIsTold
  <2> QED
    BY <2>1, <2>8, <2>9, <2>10, <2>11, <2>12, <2>13 DEF HInv
<1> QED
  BY <1>6, <1>7

(* The second write of hook::remove, and the box goes. *)
LEMMA FinishRemoveKeeps ==
  ASSUME HInv, NEW t \in Thread, Alone(t), H!FinishRemove(t)
  PROVE  HInv'
<1> PICK e : e = removing[t]
  OBVIOUS
<1> PICK l : l = e.hook
  OBVIOUS
<1> PICK o : o = Of[l]
  OBVIOUS
<1>1. /\ l \in Listener \cap live /\ o \in Object \cap live
      /\ e.next \in Ring(o)
      /\ Whole(next, [prev EXCEPT ![e.next] = e.prev], Ring(o) \ {l})
      /\ e.prev \in H!Node
      /\ ~Freeing(t)
      /\ o \in Module => module[l] = None /\ ~H!Walked(o)
  BY NodesDiffer DEF HInv, HalfRemoved, H!FinishRemove, H!Free
<1>2. /\ UNCHANGED <<next, walks, module>>
      /\ prev' = [prev EXCEPT ![e.next] = e.prev]
      /\ removing' = [removing EXCEPT ![t] = None]
      /\ live' = live \ (IF o \in Module THEN {l, o} ELSE {l})
      /\ destroyed' = IF o \in Module THEN [destroyed EXCEPT ![o] = @ + 1] ELSE destroyed
      /\ dangling' = (dangling \/ e.next \notin live)
  BY DEF H!FinishRemove, H!SetLinks, H!Successor, H!Links
<1>3. ~dangling' /\ e.next \in H!Node
  BY <1>1, <1>2, RingsAreNodes DEF HInv
<1>4. /\ \A u \in Thread : removing'[u] = None /\ ~Freeing(u)
      /\ \A u \in Thread : ~Freeing(u)'
      /\ \A m \in Object : Leaving(m) <=> m = o
  <2>1. \A u \in Thread \ {t} : removing[u] = None /\ ~Freeing(u)
    BY DEF Alone, Busy
  <2>2. \A u \in Thread : removing'[u] = None /\ ~Freeing(u)
    BY <1>1, <1>2, <2>1 DEF HInv, HookTypes
  <2>3. e # None
    BY DEF H!FinishRemove, H!Free
  <2> QED
    BY <1>2, <2>1, <2>2, <2>3 DEF Leaving, Freeing
<1>5. l # o /\ l \in Attached(o) /\ l \in H!Node /\ l \notin H!Cursor
  BY <1>1, NodesDiffer DEF Attached
<1>6. \A m : CursorsOf(m)' = CursorsOf(m) /\ (H!Walked(m)' <=> H!Walked(m))
  BY <1>2 DEF CursorsOf, H!Walked
<1>7. /\ Object \cap live' = (Object \cap live) \ (IF o \in Module THEN {o} ELSE {})
      /\ Attached(o)' = Attached(o) \ {l}
      /\ \A m \in Object \ {o} : Attached(m)' = Attached(m)
  BY <1>1, <1>2, NodesDiffer DEF Attached
<1>8. /\ Ring(o)' = Ring(o) \ {l}
      /\ \A m \in Object \ {o} : Ring(m)' = Ring(m)
  <2>1. l \notin CursorsOf(o)
    BY <1>5 DEF CursorsOf
  <2> QED
    BY <1>5, <1>6, <1>7, <2>1 DEF Ring
<1>9. HookTypes'
  <2>1. prev' \in [H!Node -> H!Node \cup {None}]
    BY <1>1, <1>2, <1>3 DEF HInv, HookTypes
  <2>2. DOMAIN destroyed' = Object /\ DOMAIN removing' = Thread /\ live' \subseteq H!Node
    BY <1>2 DEF HInv, HookTypes
  <2> QED
    BY <1>2, <2>1, <2>2 DEF HInv, HookTypes
<1>10. WalksAreLive'
  <2> SUFFICES ASSUME NEW u \in Thread, NEW i \in 1 .. Len(walks[u])
               PROVE  walks[u][i].object \in live' /\ <<u, i>> \in live'
    BY <1>2 DEF HInv, WalksAreLive
  <2>1. walks[u] \in Seq(WalkRecord) /\ walks[u][i] \in WalkRecord /\ Len(walks[u]) \in 0 .. MaxWalks
        /\ i \in DOMAIN walks[u]
    BY DEF HInv, HookTypes
  <2>2. <<u, i>> \in H!Cursor /\ walks[u][i].object \in Object
    BY <2>1 DEF H!Cursor, WalkRecord
  <2>3. walks[u][i].object \in live /\ <<u, i>> \in live
    BY DEF HInv, WalksAreLive
  <2>4. o \in Module => walks[u][i].object # o
    BY <1>1, <2>1 DEF H!Walked
  <2> QED
    BY <1>1, <1>2, <2>2, <2>3, <2>4, NodesDiffer
<1>11. \A m \in (Object \cap live) \ {o} : \A x \in Ring(m) : prev'[x] = prev[x]
  <2> SUFFICES ASSUME NEW m \in (Object \cap live) \ {o}, NEW x \in Ring(m)
               PROVE  prev'[x] = prev[x]
    OBVIOUS
  <2>1. x \in H!Node /\ x # e.next
    BY <1>1, RingsAreNodes, RingsAreApart
  <2> QED
    BY <1>2, <2>1 DEF HInv, HookTypes
<1>12. RingsAreWhole'
  <2> SUFFICES ASSUME NEW m \in Object \cap live'
               PROVE  Whole(next', prev', Ring(m)')
    BY DEF RingsAreWhole
  <2>1. m \in Object \cap live
    BY <1>7
  <2>2. CASE m = o
    BY <1>1, <1>2, <1>8, <2>2
  <2>3. CASE m # o
    <3>1. Whole(next, prev, Ring(m)) /\ \A x \in Ring(m) : next'[x] = next[x] /\ prev'[x] = prev[x]
      BY <1>2, <1>4, <1>11, <2>1, <2>3 DEF HInv, RingsAreWhole
    <3>2. Whole(next', prev', Ring(m))
      BY <3>1, UntouchedIsWhole
    <3> QED
      BY <1>8, <2>3, <3>2
  <2> QED
    BY <2>2, <2>3
<1>13. HalfRemoved'
  BY <1>4 DEF HalfRemoved
<1>14. ModulesAreKnown'
  <2> SUFFICES ASSUME NEW m \in Module
               PROVE  /\ m \in live' /\ ~H!Walked(m)' => destroyed'[m] = 0
                           /\ (~Leaving(m)' => \A k \in Attached(m)' :
                                 module'[k] = m /\ next'[m] = k /\ next'[k] = m)
                      /\ m \in live' /\ H!Walked(m)' => destroyed'[m] = 1
                      /\ m \notin live' => destroyed'[m] = 1 /\ \A k \in Attached(m)' : module'[k] = None
    BY DEF ModulesAreKnown
  <2>1. CASE m = o
    <3>1. m \notin live' /\ destroyed[m] = 0
      BY <1>1, <1>2, <2>1 DEF HInv, ModulesAreKnown
    <3>2. destroyed'[m] = 1
      BY <1>1, <1>2, <2>1, <3>1 DEF HInv, HookTypes
    <3>3. Attached(m)' = {}
      BY <1>1, <1>7, <2>1 DEF Attached
    <3> QED
      BY <3>1, <3>2, <3>3
  <2>2. CASE m # o
    <3>1. m \in Object /\ ~Leaving(m) /\ (m \in live' <=> m \in live) /\ destroyed'[m] = destroyed[m]
      BY <1>1, <1>2, <1>4, <1>7, <2>2 DEF HInv, HookTypes
    <3> QED
      BY <1>2, <1>6, <1>7, <2>2, <3>1 DEF HInv, ModulesAreKnown
  <2> QED
    BY <2>1, <2>2
<1>15. FreeingIsTold'
  BY <1>4 DEF FreeingIsTold
<1> QED
  BY <1>3, <1>9, <1>10, <1>12, <1>13, <1>14, <1>15 DEF HInv

LEMMA StartWalkKeeps ==
  ASSUME HInv, NEW t \in Thread, Alone(t), NEW o \in Object, NEW kind \in {"event", "free"},
         H!StartWalk(t, o, kind), kind = "event" <=> o \notin Module,
         kind = "free" => destroyed[o] = 0,
         destroyed' = IF kind = "free" THEN [destroyed EXCEPT ![o] = @ + 1] ELSE destroyed
  PROVE  HInv'
<1> PICK n : n = Len(walks[t]) + 1
  OBVIOUS
<1> DEFINE c == <<t, n>>
<1>1. /\ \A u \in Thread : removing[u] = None /\ ~Freeing(u)
      /\ \A m \in Module : ~H!Walked(m)
      /\ \A m \in Object \cap live : Whole(next, prev, Ring(m))
      /\ \A u \in Thread : \A i \in 1 .. Len(walks[u]) : walks[u][i].kind = "event"
  BY CallersFindRingsWhole DEF H!StartWalk
<1>2. o \in live /\ o \in Ring(o) /\ Len(walks[t]) < MaxWalks
  BY DEF H!StartWalk, Ring
<1>3. walks[t] \in Seq(WalkRecord) /\ Len(walks[t]) \in Nat /\ n \in 1 .. MaxWalks
  BY <1>2 DEF HInv, HookTypes
<1>4. c \in H!Cursor /\ c \in H!Node /\ c \notin Listener /\ c \notin Object /\ c[1] = t /\ c[2] = n
  BY <1>3, NodesDiffer DEF H!Cursor
<1>5. /\ next' = NextLinked(o, c) /\ prev' = PrevLinked(o, c)
      /\ live' = live \cup {c} /\ UNCHANGED <<removing, module, dangling>>
  BY DEF H!StartWalk, H!SetLinks, H!Insert, H!Links, NextLinked, PrevLinked
<1>6. PICK r \in WalkRecord : /\ r.object = o /\ r.kind = kind
                             /\ walks' = [walks EXCEPT ![t] = Append(@, r)]
  <2> DEFINE s == [object |-> o, kind |-> kind, at |-> o, called |-> <<>>, due |-> H!Registered(o)]
  <2>1. s \in WalkRecord /\ s.object = o /\ s.kind = kind
    BY NodesDiffer DEF WalkRecord, H!Registered
  <2>2. walks' = [walks EXCEPT ![t] = Append(@, s)]
    BY DEF H!StartWalk
  <2> HIDE DEF s
  <2> QED
    BY <2>1, <2>2
<1>7. /\ walks' \in [Thread -> Seq(WalkRecord)]
      /\ \A u \in Thread \ {t} : walks'[u] = walks[u]
      /\ Len(walks'[t]) = n /\ walks'[t] # <<>>
      /\ walks'[t][n] = r
      /\ \A i \in 1 .. Len(walks[t]) : walks'[t][i] = walks[t][i]
  <2>1. walks'[t] = Append(walks[t], r) /\ \A u \in Thread \ {t} : walks'[u] = walks[u]
    BY <1>6 DEF HInv, HookTypes
  <2>2. /\ Append(walks[t], r) \in Seq(WalkRecord)
        /\ Len(Append(walks[t], r)) = n
        /\ Append(walks[t], r)[n] = r
        /\ \A i \in 1 .. Len(walks[t]) : Append(walks[t], r)[i] = walks[t][i]
        /\ Append(walks[t], r) # <<>>
    BY <1>3, AppendProperties
  <2>3. walks' \in [Thread -> Seq(WalkRecord)]
    BY <1>6, <2>2 DEF HInv, HookTypes
  <2> QED
    BY ONLY <2>1, <2>2, <2>3
<1> HIDE DEF c
<1>8. \A m \in Object : CursorsOf(m)' = IF m = o THEN CursorsOf(m) \cup {c} ELSE CursorsOf(m)
  <2> SUFFICES ASSUME NEW m \in Object, NEW d \in H!Cursor
               PROVE  d \in CursorsOf(m)' <=> d \in CursorsOf(m) \/ (m = o /\ d = c)
    BY <1>4 DEF CursorsOf
  <2>1. d[1] \in Thread /\ d[2] \in Nat \ {0} /\ (d = c <=> d[1] = t /\ d[2] = n)
    BY DEF H!Cursor, c
  <2>2. CASE d[1] # t
    BY <1>7, <2>1, <2>2 DEF CursorsOf
  <2>3. CASE d[1] = t /\ d[2] # n
    <3>1. d # c /\ (d[2] \in 1 .. Len(walks'[t]) <=> d[2] \in 1 .. Len(walks[t]))
      BY <1>3, <1>7, <2>1, <2>3, n = Len(walks[t]) + 1
    <3>2. d[2] \in 1 .. Len(walks[t]) => walks'[t][d[2]] = walks[t][d[2]]
      BY <1>7
    <3> QED
      BY <2>3, <3>1, <3>2 DEF CursorsOf
  <2>4. CASE d[1] = t /\ d[2] = n
    BY <1>3, <1>6, <1>7, <2>1, <2>4 DEF CursorsOf
  <2> QED
    BY <2>2, <2>3, <2>4
<1>9. \A m \in Object \cap live : c \notin Ring(m)
  BY <1>3, <1>4 DEF Ring, Attached, CursorsOf
<1>10. /\ NextLinked(o, c) \in [H!Node -> H!Node \cup {None}]
       /\ PrevLinked(o, c) \in [H!Node -> H!Node \cup {None}]
       /\ Whole(NextLinked(o, c), PrevLinked(o, c), Ring(o) \cup {c})
       /\ \A m \in (Object \cap live) \ {o} : \A x \in Ring(m) :
            NextLinked(o, c)[x] = next[x] /\ PrevLinked(o, c)[x] = prev[x]
  <2>1. /\ Whole(next, prev, Ring(o)) /\ o \in Object \cap live
        /\ o \in Ring(o) /\ c \in H!Node
    BY <1>1, <1>2, <1>4
  <2> QED
    BY ONLY HInv, <1>9, <2>1, Linked
<1>11. Object \cap live' = Object \cap live /\ \A m : Attached(m)' = Attached(m)
  BY <1>4, <1>5 DEF Attached
<1>12. \A m \in Object : Ring(m)' = IF m = o THEN Ring(m) \cup {c} ELSE Ring(m)
  BY <1>8, <1>11 DEF Ring
<1>13. HookTypes'
  <2>0. \A u \in Thread : Len(walks[u]) <= MaxWalks
    BY DEF HInv, HookTypes
  <2>1. \A u \in Thread : Len(walks'[u]) <= MaxWalks
    <3>1. \A u \in Thread \ {t} : Len(walks'[u]) <= MaxWalks
      BY ONLY <1>7, <2>0
    <3>2. Len(walks'[t]) <= MaxWalks
      BY ONLY <1>3, <1>7, ThreadedListenersAssumption DEF H!HookListAssumption
    <3> QED
      BY ONLY <3>1, <3>2
  <2> QED
    BY <1>4, <1>5, <1>7, <1>10, <2>1 DEF HInv, HookTypes
<1>14. \A m \in Object : H!Walked(m)' <=> (m = o \/ H!Walked(m))
  <2>1. \A m : H!Walked(m)' <=> CursorsOf(m)' # {}
    BY <1>13, WalkedHasCursorAfter
  <2>2. \A m : H!Walked(m) <=> CursorsOf(m) # {}
    BY WalkedHasCursor DEF HInv
  <2> QED
    BY <1>8, <2>1, <2>2
<1>15. \A u \in Thread : Freeing(u)' <=> u = t /\ kind = "free"
  BY <1>1, <1>6, <1>7 DEF Freeing
<1>16. WalksAreLive'
  <2> SUFFICES ASSUME NEW u \in Thread, NEW i \in 1 .. Len(walks'[u])
               PROVE  /\ walks'[u][i].object \in live'
                      /\ <<u, i>> \in live'
                      /\ walks'[u][i].kind = "event" <=> walks'[u][i].object \notin Module
                      /\ walks'[u][i].kind = "free" => i = Len(walks'[u])
    BY DEF WalksAreLive
  <2>1. CASE u = t /\ i = n
    BY <1>2, <1>5, <1>6, <1>7, <2>1 DEF c
  <2>2. CASE u # t \/ i # n
    <3>1. i \in 1 .. Len(walks[u]) /\ walks'[u][i] = walks[u][i]
      BY <1>3, <1>7, <2>2
    <3> QED
      BY <1>1, <1>5, <3>1 DEF HInv, WalksAreLive
  <2> QED
    BY <2>1, <2>2
<1>17. RingsAreWhole'
  <2> SUFFICES ASSUME NEW m \in Object \cap live
               PROVE  Whole(next', prev', Ring(m)')
    BY <1>11 DEF RingsAreWhole
  <2>1. CASE m = o
    BY <1>5, <1>10, <1>12, <2>1
  <2>2. CASE m # o
    <3>1. Whole(next, prev, Ring(m)) /\ \A x \in Ring(m) : next'[x] = next[x] /\ prev'[x] = prev[x]
      BY <1>1, <1>5, <1>10, <2>2
    <3>2. Whole(next', prev', Ring(m))
      BY <3>1, UntouchedIsWhole
    <3> QED
      BY <1>12, <2>2, <3>2
  <2> QED
    BY <2>1, <2>2
<1>18. HalfRemoved'
  BY <1>1, <1>5 DEF HalfRemoved
<1>19. ModulesAreKnown'
  <2> SUFFICES ASSUME NEW m \in Module
               PROVE  /\ m \in live' /\ ~H!Walked(m)' => destroyed'[m] = 0
                           /\ (~Leaving(m)' => \A k \in Attached(m)' :
                                 module'[k] = m /\ next'[m] = k /\ next'[k] = m)
                      /\ m \in live' /\ H!Walked(m)' => destroyed'[m] = 1
                      /\ m \notin live' => destroyed'[m] = 1 /\ \A k \in Attached(m)' : module'[k] = None
    BY DEF ModulesAreKnown
  <2>1. CASE m = o
    BY <1>2, <1>5, <1>14, <2>1 DEF HInv, HookTypes
  <2>2. CASE m # o
    <3>1. m \in Object /\ (m \in live' <=> m \in live) /\ destroyed'[m] = destroyed[m] /\ ~Leaving(m)
      BY <1>1, <1>11, <2>2 DEF HInv, HookTypes, Leaving
    <3>2. m \in live => next'[m] = next[m] /\ \A k \in Attached(m) : next'[k] = next[k]
      BY <1>5, <1>10, <2>2, <3>1 DEF Ring
    <3> QED
      BY <1>5, <1>11, <1>14, <2>2, <3>1, <3>2 DEF HInv, ModulesAreKnown
  <2> QED
    BY <2>1, <2>2
<1>20. FreeingIsTold'
  <2>5. walks'[t][Len(walks'[t])].object = o /\ <<t, Len(walks'[t])>> = c
    BY <1>6, <1>7 DEF c
  <2> SUFFICES ASSUME kind = "free", NEW l \in Attached(o)
               PROVE  next'[o] = c /\ next'[c] = l /\ next'[l] = o
    <3> SUFFICES ASSUME NEW u \in Thread, u = t, NEW l \in Attached(o), kind = "free",
                        next'[o] = c /\ next'[c] = l /\ next'[l] = o
                 PROVE  LET m == walks'[u][Len(walks'[u])].object
                            d == <<u, Len(walks'[u])>>
                        IN \/ next'[m] = d /\ next'[d] = l /\ next'[l] = m
                           \/ next'[m] = l /\ next'[l] = d /\ next'[d] = m /\ module'[l] = None
      BY <1>11, <1>15, <2>5 DEF FreeingIsTold
    <3> QED
      BY <2>5
  <2>1. next[o] = l /\ next[l] = o
    BY <1>1, <1>2 DEF HInv, ModulesAreKnown, Leaving
  <2>2. o # c /\ l # c /\ l # o /\ o \in H!Node /\ l \in H!Node
    BY <1>4, NodesDiffer DEF Attached
  <2> QED
    BY <1>4, <1>5, <2>1, <2>2 DEF HInv, HookTypes, NextLinked
<1> QED
  BY <1>5, <1>13, <1>16, <1>17, <1>18, <1>19, <1>20 DEF HInv

LEMMA EmitEventKeeps ==
  ASSUME HInv, NEW t \in Thread, Alone(t), NEW o \in Object, H!EmitEvent(t, o)
  PROVE  HInv'
BY StartWalkKeeps DEF H!EmitEvent

LEMMA ModuleDestroysItselfKeeps ==
  ASSUME HInv, NEW t \in Thread, Alone(t), NEW o \in Object, H!ModuleDestroysItself(t, o)
  PROVE  HInv'
BY StartWalkKeeps DEF H!ModuleDestroysItself

(* The innermost walk of a thread that ends or goes on: the ring is whole. *)
LEMMA WalkersFindRingsWhole ==
  ASSUME HInv, NEW t \in Thread, Alone(t), H!Free(t), walks[t] # <<>>
  PROVE  /\ \A u \in Thread : removing[u] = None
         /\ \A u \in Thread \ {t} : ~Freeing(u)
         /\ \A m \in Object \cap live : Whole(next, prev, Ring(m))
         /\ walks[t] \in Seq(WalkRecord) /\ Len(walks[t]) \in 1 .. MaxWalks
         /\ H!Walk(t) \in WalkRecord
         /\ H!Walk(t).object \in Object \cap live
         /\ H!Here(t) \in CursorsOf(H!Walk(t).object)
         /\ H!Here(t) \in Ring(H!Walk(t).object)
         /\ H!Here(t) \in H!Node /\ H!Here(t) \notin Object /\ H!Here(t) \notin Listener
         /\ H!Walk(t).kind = "event" <=> H!Walk(t).object \notin Module
         /\ H!Walk(t).kind = "free" <=> Freeing(t)
<1>1. /\ \A u \in Thread : removing[u] = None
      /\ \A u \in Thread \ {t} : ~Freeing(u)
  BY DEF Alone, Busy, H!Free
<1>2. \A m \in Object \cap live : Whole(next, prev, Ring(m))
  BY <1>1 DEF HInv, RingsAreWhole, Leaving
<1>3. walks[t] \in Seq(WalkRecord) /\ Len(walks[t]) \in 1 .. MaxWalks
  <2>1. walks[t] \in Seq(WalkRecord) /\ Len(walks[t]) <= MaxWalks
    BY DEF HInv, HookTypes
  <2> QED
    BY <2>1
<1>4. H!Walk(t) \in WalkRecord
  BY <1>3 DEF H!Walk
<1>10. /\ H!Walk(t).object \in live
       /\ H!Walk(t).kind = "event" <=> H!Walk(t).object \notin Module
  <2>1. Len(walks[t]) \in 1 .. Len(walks[t])
    BY <1>3
  <2> QED
    BY <2>1 DEF HInv, WalksAreLive, H!Walk
<1>5. H!Walk(t).object \in Object \cap live
  BY <1>4, <1>10 DEF WalkRecord
<1>6. H!Here(t) \in CursorsOf(H!Walk(t).object)
  BY <1>3 DEF H!Here, H!Walk, CursorsOf, H!Cursor
<1>7. H!Here(t) \in H!Cursor
  BY <1>6 DEF CursorsOf
<1>9. H!Walk(t).kind = "free" <=> Freeing(t)
  BY DEF H!Walk, Freeing
<1> QED
  BY <1>1, <1>2, <1>3, <1>4, <1>5, <1>6, <1>7, <1>9, <1>10, NodesDiffer DEF Ring

(* The cursor steps over a node: out of the ring, and in again behind it.  *)
LEMMA SteppedOver ==
  ASSUME HInv, NEW o \in Object \cap live, NEW c \in Ring(o), c # o,
         Whole(next, prev, Ring(o)),
         H!SetLinks(H!Insert(H!Unlink(H!Links, c), next[c], c))
  PROVE  /\ next' \in [H!Node -> H!Node \cup {None}]
         /\ prev' \in [H!Node -> H!Node \cup {None}]
         /\ Whole(next', prev', Ring(o))
         /\ \A m \in (Object \cap live) \ {o} : \A x \in Ring(m) :
              next'[x] = next[x] /\ prev'[x] = prev[x]
         /\ next' = [NextUnlinked(c) EXCEPT ![next[c]] = c, ![c] = NextUnlinked(c)[next[c]]]
<1> DEFINE nx == NextUnlinked(c)
           pv == PrevUnlinked(c)
           pos == next[c]
<1>1. /\ nx \in [H!Node -> H!Node \cup {None}] /\ pv \in [H!Node -> H!Node \cup {None}]
      /\ Whole(nx, pv, Ring(o) \ {c})
      /\ \A m \in (Object \cap live) \ {o} : \A x \in Ring(m) : nx[x] = next[x] /\ pv[x] = prev[x]
  BY Unlinked
<1>2. /\ next' = [nx EXCEPT ![pos] = c, ![c] = nx[pos]]
      /\ prev' = [pv EXCEPT ![c] = pos, ![nx[pos]] = c]
  <2>1. H!Unlink(H!Links, c) = [next |-> nx, prev |-> pv]
    BY UnlinkIs DEF NextUnlinked, PrevUnlinked
  <2> HIDE DEF nx, pv
  <2> QED
    BY <2>1 DEF H!SetLinks, H!Insert
<1>3. /\ Ring(o) \subseteq H!Node /\ pos \in Ring(o) /\ prev[c] \in Ring(o)
      /\ next \in [H!Node -> H!Node \cup {None}] /\ prev \in [H!Node -> H!Node \cup {None}]
  BY RingsAreNodes DEF Whole, HInv, HookTypes
<1>4. CASE pos = c
  <2>1. prev[c] = c
    BY <1>4 DEF Whole
  <2>2. nx = next /\ pv = prev
    BY <1>3, <1>4, <2>1 DEF NextUnlinked, PrevUnlinked
  <2>3. next' = next /\ prev' = prev
    BY <1>2, <1>3, <1>4, <2>1, <2>2
  <2> QED
    BY <1>2, <1>3, <2>3
<1>5. CASE pos # c
  <2> HIDE DEF nx, pv
  <2>1. pos \in Ring(o) \ {c} /\ nx[pos] \in Ring(o) \ {c} /\ c \in H!Node \ (Ring(o) \ {c})
    BY <1>1, <1>3, <1>5 DEF Whole
  <2>2. Whole(next', prev', (Ring(o) \ {c}) \cup {c})
    <3>1. Ring(o) \ {c} \in SUBSET H!Node
      BY <1>3
    <3> HIDE DEF pos
    <3> QED
      BY <1>1, <1>2, <2>1, <3>1, InsertedIsWhole
  <2>3. (Ring(o) \ {c}) \cup {c} = Ring(o)
    OBVIOUS
  <2>4. next' \in [H!Node -> H!Node \cup {None}] /\ prev' \in [H!Node -> H!Node \cup {None}]
    BY <1>1, <1>2, <1>3, <2>1
  <2>5. ASSUME NEW m \in (Object \cap live) \ {o}, NEW x \in Ring(m)
        PROVE  next'[x] = next[x] /\ prev'[x] = prev[x]
    <3>1. x \in H!Node /\ x \notin Ring(o)
      BY RingsAreNodes, RingsAreApart
    <3>2. x # c /\ x # pos /\ x # nx[pos]
      BY <1>3, <2>1, <3>1
    <3> QED
      BY <1>1, <1>2, <3>1, <3>2
  <2> QED
    BY <1>2, <2>2, <2>3, <2>4, <2>5 DEF nx
<1> QED
  BY <1>4, <1>5

(* Two fields of one record of one sequence. *)
SteppedAt(W, t, n, p) == [W EXCEPT ![t][n].at = p, ![t][n].called = Append(@, p)]

LEMMA WalkWritten ==
  ASSUME NEW W, NEW t, NEW n, NEW p
  PROVE  SteppedAt(W, t, n, p)
           = [W EXCEPT ![t] = [W[t] EXCEPT ![n] = [W[t][n] EXCEPT !.at = p, !.called = Append(@, p)]]]
BY DEF SteppedAt

(* A thread steps over the next hook and calls it.                         *)
LEMMA CallKeeps ==
  ASSUME HInv, NEW t \in Thread, Alone(t), H!Call(t)
  PROVE  HInv'
<1> PICK o : o = H!Walk(t).object
  OBVIOUS
<1> PICK c : c = H!Here(t)
  OBVIOUS
<1> PICK pos : pos = next[c]
  OBVIOUS
<1>1. /\ \A u \in Thread : removing[u] = None
      /\ \A u \in Thread \ {t} : ~Freeing(u)
      /\ \A m \in Object \cap live : Whole(next, prev, Ring(m))
      /\ walks[t] \in Seq(WalkRecord) /\ Len(walks[t]) \in 1 .. MaxWalks
      /\ H!Walk(t) \in WalkRecord
      /\ o \in Object \cap live /\ c \in CursorsOf(o) /\ c \in Ring(o)
      /\ c \in H!Node /\ c \notin Object /\ c \notin Listener
      /\ H!Walk(t).kind = "event" <=> o \notin Module
      /\ H!Walk(t).kind = "free" <=> Freeing(t)
  BY WalkersFindRingsWhole DEF H!Call
<1>2. pos \in Ring(o) /\ pos \in H!Node /\ pos \in live /\ pos # o /\ c # o
  BY <1>1, RingsAreNodes DEF H!Call, Whole
<1>3. /\ next' \in [H!Node -> H!Node \cup {None}]
      /\ prev' \in [H!Node -> H!Node \cup {None}]
      /\ Whole(next', prev', Ring(o))
      /\ \A m \in (Object \cap live) \ {o} : \A x \in Ring(m) :
           next'[x] = next[x] /\ prev'[x] = prev[x]
      /\ next' = [NextUnlinked(c) EXCEPT ![pos] = c, ![c] = NextUnlinked(c)[pos]]
  <2>1. H!SetLinks(H!Insert(H!Unlink(H!Links, c), next[c], c))
    BY DEF H!Call
  <2>2. Whole(next, prev, Ring(o))
    BY <1>1
  <2> QED
    BY <1>1, <1>2, <2>1, <2>2, SteppedOver
<1>4. UNCHANGED <<live, removing, destroyed>> /\ ~dangling'
  BY <1>2 DEF H!Call, HInv
<1>5. module' = IF pos \in Listener /\ H!Walk(t).kind = "free"
                  THEN [module EXCEPT ![pos] = None] ELSE module
  BY DEF H!Call, H!ModuleFreed
<1>6. /\ walks' \in [Thread -> Seq(WalkRecord)]
      /\ \A u \in Thread : /\ Len(walks'[u]) = Len(walks[u])
                           /\ \A i \in 1 .. Len(walks[u]) :
                                /\ walks'[u][i].object = walks[u][i].object
                                /\ walks'[u][i].kind = walks[u][i].kind
  <2>1. CASE pos \in Listener
    <3> PICK n : n = Len(walks[t])
      OBVIOUS
    <3> PICK w : w = walks[t]
      OBVIOUS
    <3> DEFINE r == [w[n] EXCEPT !.at = pos, !.called = Append(@, pos)]
    <3>1. w \in Seq(WalkRecord) /\ n = Len(w) /\ n \in 1 .. Len(w) /\ w[n] \in WalkRecord
      BY <1>1
    <3>2. r \in WalkRecord /\ r.object = w[n].object /\ r.kind = w[n].kind
      BY <1>2, <3>1, AppendProperties DEF WalkRecord
    <3>3. walks' = [walks EXCEPT ![t] = [w EXCEPT ![n] = r]]
      <4>1. walks' = SteppedAt(walks, t, n, pos)
        BY <2>1 DEF H!Call, SteppedAt
      <4>2. walks' = [walks EXCEPT ![t] = [walks[t] EXCEPT ![n] =
                         [walks[t][n] EXCEPT !.at = pos, !.called = Append(@, pos)]]]
        BY <4>1, WalkWritten
      <4> QED
        BY <4>2
    <3> HIDE DEF r
    <3>4. /\ [w EXCEPT ![n] = r] \in Seq(WalkRecord)
          /\ Len([w EXCEPT ![n] = r]) = Len(w)
          /\ \A i \in 1 .. Len(w) : [w EXCEPT ![n] = r][i] = IF i = n THEN r ELSE w[i]
      BY <3>1, <3>2, ExceptSeq
    <3>5. walks'[t] = [w EXCEPT ![n] = r] /\ \A u \in Thread \ {t} : walks'[u] = walks[u]
      BY <3>3 DEF HInv, HookTypes
    <3>6. walks' \in [Thread -> Seq(WalkRecord)]
      BY <3>3, <3>4 DEF HInv, HookTypes
    <3> QED
      BY SMTT(20), <3>2, <3>4, <3>5, <3>6
  <2>2. CASE pos \notin Listener
    BY <2>2 DEF H!Call, HInv, HookTypes
  <2> QED
    BY <2>1, <2>2
<1>7. HookTypes'
  <2>1. module' \in [Listener -> Object \cup {None}]
    BY <1>5 DEF HInv, HookTypes
  <2> QED
    BY <1>3, <1>4, <1>6, <2>1 DEF HInv, HookTypes
<1>8. /\ \A m : CursorsOf(m)' = CursorsOf(m) /\ (H!Walked(m)' <=> H!Walked(m))
      /\ \A u \in Thread : Freeing(u)' <=> Freeing(u)
  BY <1>6, <1>7, WalkedStays DEF HInv
<1>9. \A m : Attached(m)' = Attached(m) /\ Ring(m)' = Ring(m)
  BY <1>4, <1>8 DEF Attached, Ring
<1>10. WalksAreLive'
  <2> SUFFICES ASSUME NEW u \in Thread, NEW i \in 1 .. Len(walks[u])
               PROVE  /\ walks'[u][i].object \in live
                      /\ <<u, i>> \in live
                      /\ walks'[u][i].kind = "event" <=> walks'[u][i].object \notin Module
                      /\ walks'[u][i].kind = "free" => i = Len(walks[u])
    BY <1>4, <1>6 DEF WalksAreLive
  <2>1. walks'[u][i].object = walks[u][i].object /\ walks'[u][i].kind = walks[u][i].kind
    BY <1>6
  <2> QED
    BY <2>1 DEF HInv, WalksAreLive
<1>11. RingsAreWhole'
  <2> SUFFICES ASSUME NEW m \in Object \cap live
               PROVE  Whole(next', prev', Ring(m))
    BY <1>4, <1>9 DEF RingsAreWhole
  <2>1. CASE m = o
    BY <1>3, <2>1
  <2>2. CASE m # o
    <3>1. Whole(next, prev, Ring(m)) /\ \A x \in Ring(m) : next'[x] = next[x] /\ prev'[x] = prev[x]
      BY <1>1, <1>3, <2>2
    <3> QED
      BY <3>1, UntouchedIsWhole
  <2> QED
    BY <2>1, <2>2
<1>12. HalfRemoved'
  BY <1>1, <1>4 DEF HalfRemoved
<1>13. ModulesAreKnown'
  <2> SUFFICES ASSUME NEW m \in Module
               PROVE  /\ m \in live' /\ ~H!Walked(m)' => destroyed'[m] = 0
                           /\ (~Leaving(m)' => \A k \in Attached(m)' :
                                 module'[k] = m /\ next'[m] = k /\ next'[k] = m)
                      /\ m \in live' /\ H!Walked(m)' => destroyed'[m] = 1
                      /\ m \notin live' => destroyed'[m] = 1 /\ \A k \in Attached(m)' : module'[k] = None
    BY DEF ModulesAreKnown
  <2>1. m \in Object /\ ~Leaving(m)
    BY <1>1 DEF Leaving
  <2>2. CASE m = o
    <3>1. H!Walked(m)
      BY <1>1, <2>2, WalkedHasCursor DEF HInv
    <3> QED
      BY <1>1, <1>4, <1>8, <2>2, <3>1 DEF HInv, ModulesAreKnown
  <2>3. CASE m # o
    <3>1. \A k \in Attached(m) : module'[k] = module[k]
      <4>1. \A k \in Attached(m) : k # pos
        BY <1>2, <2>1, <2>3, NodesDiffer DEF Ring, Attached, CursorsOf
      <4> QED
        BY <1>5, <4>1 DEF Attached, HInv, HookTypes
    <3>2. m \in live => next'[m] = next[m] /\ \A k \in Attached(m) : next'[k] = next[k]
      BY <1>3, <2>1, <2>3 DEF Ring
    <3> QED
      BY <1>4, <1>8, <1>9, <2>1, <3>1, <3>2 DEF HInv, ModulesAreKnown
  <2> QED
    BY <2>2, <2>3
<1>14. FreeingIsTold'
  <2>1. /\ Len(walks'[t]) = Len(walks[t])
        /\ walks'[t][Len(walks[t])].object = o /\ walks[t][Len(walks[t])].object = o
        /\ c = <<t, Len(walks[t])>>
    BY <1>1, <1>6 DEF H!Walk, H!Here
  <2>2. ASSUME Freeing(t), NEW l \in Attached(o)
        PROVE  next'[o] = l /\ next'[l] = c /\ next'[c] = o /\ module'[l] = None
    <3>1. next[o] = c /\ next[c] = l /\ next[l] = o
      BY <1>2, <2>1, <2>2 DEF HInv, FreeingIsTold
    <3>2. l \in Listener /\ l = pos /\ l \in H!Node /\ o \in H!Node /\ l # o /\ l # c
      BY <1>1, <3>1, NodesDiffer DEF Attached
    <3>3. prev[c] = o
      BY <1>1, <3>1 DEF Whole, Ring
    <3>4. NextUnlinked(c) = [next EXCEPT ![o] = l]
      BY <3>1, <3>3 DEF NextUnlinked
    <3>5. module'[l] = None
      BY <1>1, <1>5, <2>2, <3>2 DEF HInv, HookTypes
    <3> QED
      BY <1>1, <1>2, <1>3, <3>1, <3>2, <3>4, <3>5 DEF HInv, HookTypes
  <2> SUFFICES ASSUME NEW u \in Thread, Freeing(u), u = t
               PROVE  LET m == walks'[u][Len(walks'[u])].object
                          d == <<u, Len(walks'[u])>>
                      IN \A l \in Attached(m) :
                           \/ next'[m] = d /\ next'[d] = l /\ next'[l] = m
                           \/ next'[m] = l /\ next'[l] = d /\ next'[d] = m /\ module'[l] = None
    BY <1>1, <1>8, <1>9 DEF FreeingIsTold
  <2> QED
    BY <2>1, <2>2
<1> QED
  BY <1>4, <1>7, <1>10, <1>11, <1>12, <1>13, <1>14 DEF HInv

(* The innermost walk ends; a module that told its hooks goes with it.     *)
LEMMA EndWalkKeeps ==
  ASSUME HInv, NEW t \in Thread, Alone(t), H!EndWalk(t)
  PROVE  HInv'
<1> PICK o : o = H!Walk(t).object
  OBVIOUS
<1> PICK c : c = H!Here(t)
  OBVIOUS
<1> PICK n : n = Len(walks[t])
  OBVIOUS
<1>1. /\ \A u \in Thread : removing[u] = None
      /\ \A u \in Thread \ {t} : ~Freeing(u)
      /\ \A m \in Object \cap live : Whole(next, prev, Ring(m))
      /\ walks[t] \in Seq(WalkRecord) /\ n \in 1 .. MaxWalks
      /\ H!Walk(t) \in WalkRecord
      /\ o \in Object \cap live /\ c \in CursorsOf(o) /\ c \in Ring(o)
      /\ c \in H!Node /\ c \notin Object /\ c \notin Listener
      /\ H!Walk(t).kind = "event" <=> o \notin Module
      /\ H!Walk(t).kind = "free" <=> Freeing(t)
  BY WalkersFindRingsWhole DEF H!EndWalk
<1>2. /\ c = <<t, n>> /\ walks[t][n].object = o /\ next[c] = o /\ c # o
      /\ H!Walk(t).kind = "free" <=> o \in Module
  <2>1. H!Walk(t).kind \in {"event", "free"}
    BY <1>1 DEF WalkRecord
  <2> QED
    BY <1>1, <2>1 DEF H!Here, H!Walk, H!EndWalk
<1>3. /\ next' = NextUnlinked(c) /\ prev' = PrevUnlinked(c)
      /\ live' = live \ (IF o \in Module THEN {c, o} ELSE {c})
      /\ UNCHANGED <<removing, module, destroyed, dangling>>
      /\ walks' = [walks EXCEPT ![t] = SubSeq(walks[t], 1, n - 1)]
  <2>1. H!SetLinks(H!Unlink(H!Links, c))
    BY DEF H!EndWalk
  <2>3. H!Unlink(H!Links, c) = [next |-> NextUnlinked(c), prev |-> PrevUnlinked(c)]
    BY UnlinkIs DEF NextUnlinked, PrevUnlinked
  <2>2. next' = NextUnlinked(c) /\ prev' = PrevUnlinked(c)
    BY <2>1, <2>3 DEF H!SetLinks
  <2> QED
    BY <1>2, <2>2 DEF H!EndWalk
<1>4. /\ NextUnlinked(c) \in [H!Node -> H!Node \cup {None}]
      /\ PrevUnlinked(c) \in [H!Node -> H!Node \cup {None}]
      /\ Whole(NextUnlinked(c), PrevUnlinked(c), Ring(o) \ {c})
      /\ \A m \in (Object \cap live) \ {o} : \A x \in Ring(m) :
           NextUnlinked(c)[x] = next[x] /\ PrevUnlinked(c)[x] = prev[x]
  <2>1. Whole(next, prev, Ring(o))
    BY <1>1
  <2> QED
    BY <1>1, <2>1, Unlinked
<1>5. /\ walks' \in [Thread -> Seq(WalkRecord)]
      /\ \A u \in Thread \ {t} : walks'[u] = walks[u]
      /\ Len(walks'[t]) = n - 1
      /\ \A i \in 1 .. n - 1 : walks'[t][i] = walks[t][i]
  <2>1. /\ SubSeq(walks[t], 1, n - 1) \in Seq(WalkRecord)
        /\ Len(SubSeq(walks[t], 1, n - 1)) = n - 1
        /\ \A i \in 1 .. n - 1 : SubSeq(walks[t], 1, n - 1)[i] = walks[t][i]
    BY <1>1
  <2>2. walks'[t] = SubSeq(walks[t], 1, n - 1) /\ \A u \in Thread \ {t} : walks'[u] = walks[u]
    BY <1>3 DEF HInv, HookTypes
  <2>3. walks' \in [Thread -> Seq(WalkRecord)]
    BY <1>3, <2>1 DEF HInv, HookTypes
  <2> QED
    BY <2>1, <2>2, <2>3
<1>6. HookTypes'
  <2>1. \A u \in Thread : Len(walks'[u]) <= MaxWalks
    <3>1. Len(walks'[t]) <= MaxWalks
      BY <1>1, <1>5
    <3>2. \A u \in Thread \ {t} : Len(walks'[u]) <= MaxWalks
      BY <1>5 DEF HInv, HookTypes
    <3> QED
      BY <3>1, <3>2
  <2> QED
    BY <1>3, <1>4, <1>5, <2>1 DEF HInv, HookTypes
<1>7. \A m \in Object : CursorsOf(m)' = CursorsOf(m) \ {c}
  <2> SUFFICES ASSUME NEW m \in Object, NEW d \in H!Cursor
               PROVE  d \in CursorsOf(m)' <=> d \in CursorsOf(m) /\ d # c
    BY DEF CursorsOf
  <2>1. d[1] \in Thread /\ d[2] \in Nat \ {0} /\ (d = c <=> d[1] = t /\ d[2] = n)
    BY <1>2 DEF H!Cursor
  <2>2. CASE d[1] # t
    BY <1>5, <2>1, <2>2 DEF CursorsOf
  <2>3. CASE d[1] = t
    <3>1. d[2] \in 1 .. Len(walks'[t]) <=> d[2] \in 1 .. Len(walks[t]) /\ d # c
      BY <1>1, <1>5, <2>1, <2>3
    <3>2. d[2] \in 1 .. Len(walks'[t]) => walks'[t][d[2]] = walks[t][d[2]]
      BY <1>5
    <3> QED
      BY <2>3, <3>1, <3>2 DEF CursorsOf
  <2> QED
    BY <2>2, <2>3
<1>8. \A m \in Object : m # o => c \notin Ring(m)
  BY <1>1, RingsAreApart
<1>9. \A m \in Object : Attached(m)' = Attached(m) /\ Ring(m)' = Ring(m) \ {c}
  <2>1. \A m \in Object : Attached(m)' = Attached(m) /\ c \notin Attached(m) /\ c # m
    BY <1>1, <1>3, NodesDiffer DEF Attached
  <2> QED
    BY <1>7, <2>1 DEF Ring
<1>10. /\ Object \cap live' = (Object \cap live) \ (IF o \in Module THEN {o} ELSE {})
       /\ \A m \in Object \ {o} : m \in live' <=> m \in live
  BY <1>1, <1>3
<1>11. \A u \in Thread : \A i \in 1 .. Len(walks'[u]) :
         /\ i \in 1 .. Len(walks[u]) /\ walks'[u][i] = walks[u][i] /\ <<u, i>> # c
  BY <1>1, <1>2, <1>5
<1>12. \A u \in Thread : \A i \in 1 .. Len(walks'[u]) :
         walks[u][i].kind # "free"
  <2> SUFFICES ASSUME NEW u \in Thread, NEW i \in 1 .. Len(walks'[u]), walks[u][i].kind = "free"
               PROVE  FALSE
    OBVIOUS
  <2>1. i \in 1 .. Len(walks[u])
    BY <1>11
  <2>2. i = Len(walks[u])
    BY <2>1 DEF HInv, WalksAreLive
  <2>3. u # t
    BY <1>1, <1>5, <2>2
  <2>4. walks[u] # <<>>
    BY <2>1 DEF HInv, HookTypes
  <2> QED
    BY <1>1, <2>2, <2>3, <2>4 DEF Freeing
<1>13. \A u \in Thread : ~Freeing(u)'
  <2> SUFFICES ASSUME NEW u \in Thread, walks'[u] # <<>>
               PROVE  walks'[u][Len(walks'[u])].kind # "free"
    BY DEF Freeing
  <2>1. walks'[u] \in Seq(WalkRecord)
    BY <1>5
  <2>2. Len(walks'[u]) \in 1 .. Len(walks'[u])
    BY <2>1
  <2>3. walks'[u][Len(walks'[u])] = walks[u][Len(walks'[u])]
    BY <1>11, <2>2
  <2> QED
    BY <1>12, <2>2, <2>3
<1>14. WalksAreLive'
  <2> SUFFICES ASSUME NEW u \in Thread, NEW i \in 1 .. Len(walks'[u])
               PROVE  /\ walks'[u][i].object \in live'
                      /\ <<u, i>> \in live'
                      /\ walks'[u][i].kind = "event" <=> walks'[u][i].object \notin Module
                      /\ walks'[u][i].kind = "free" => i = Len(walks'[u])
    BY DEF WalksAreLive
  <2>1. i \in 1 .. Len(walks[u]) /\ walks'[u][i] = walks[u][i] /\ <<u, i>> # c
    BY <1>11
  <2>2. /\ walks[u][i].object \in live /\ <<u, i>> \in live
        /\ walks[u][i].kind = "event" <=> walks[u][i].object \notin Module
    BY <2>1 DEF HInv, WalksAreLive
  <2>3. walks[u] \in Seq(WalkRecord) /\ walks[u][i] \in WalkRecord /\ Len(walks[u]) \in 0 .. MaxWalks
    BY <2>1 DEF HInv, HookTypes
  <2>4. <<u, i>> \in H!Cursor /\ walks[u][i].object \in Object
    BY <2>1, <2>3 DEF H!Cursor, WalkRecord
  <2>5. walks[u][i].object \notin Module
    BY <1>12, <2>2, <2>3 DEF WalkRecord
  <2> QED
    BY <1>1, <1>3, <1>12, <2>1, <2>2, <2>4, <2>5, NodesDiffer
<1>15. RingsAreWhole'
  <2> SUFFICES ASSUME NEW m \in Object \cap live'
               PROVE  Whole(next', prev', Ring(m)')
    BY DEF RingsAreWhole
  <2>1. CASE m = o
    BY <1>3, <1>4, <1>9, <2>1
  <2>2. CASE m # o
    <3>1. Whole(next, prev, Ring(m)) /\ \A x \in Ring(m) : next'[x] = next[x] /\ prev'[x] = prev[x]
      BY <1>1, <1>3, <1>4, <1>10, <2>2
    <3>2. Whole(next', prev', Ring(m))
      BY <3>1, UntouchedIsWhole
    <3>3. Ring(m)' = Ring(m)
      <4>1. m \in Object /\ c \notin Ring(m) /\ Ring(m)' = Ring(m) \ {c}
        BY <1>8, <1>9, <2>2
      <4>2. Ring(m) \ {c} = Ring(m)
        BY <4>1
      <4> QED
        BY <4>1, <4>2
    <3> QED
      BY <3>2, <3>3
  <2> QED
    BY <2>1, <2>2
<1>16. HalfRemoved'
  BY <1>1, <1>3 DEF HalfRemoved
<1>17. ModulesAreKnown'
  <2> SUFFICES ASSUME NEW m \in Module
               PROVE  /\ m \in live' /\ ~H!Walked(m)' => destroyed'[m] = 0
                           /\ (~Leaving(m)' => \A k \in Attached(m)' :
                                 module'[k] = m /\ next'[m] = k /\ next'[k] = m)
                      /\ m \in live' /\ H!Walked(m)' => destroyed'[m] = 1
                      /\ m \notin live' => destroyed'[m] = 1 /\ \A k \in Attached(m)' : module'[k] = None
    BY DEF ModulesAreKnown
  <2>1. m \in Object /\ ~Leaving(m)
    BY <1>1 DEF Leaving
  <2>2. CASE m = o
    <3>1. H!Walked(m) /\ destroyed[m] = 1
      BY <1>1, <2>2, WalkedHasCursor DEF HInv, ModulesAreKnown
    <3>2. m \notin live'
      BY <1>3, <2>2
    <3>3. \A k \in Attached(m) : module[k] = None
      <4> SUFFICES ASSUME NEW k \in Attached(m)
                   PROVE  module[k] = None
        OBVIOUS
      <4>1. Freeing(t)
        BY <1>1, <1>2, <2>2
      <4>2. k # o
        BY <1>1, NodesDiffer DEF Attached
      <4> QED
        BY <1>2, <2>2, <4>1, <4>2 DEF HInv, FreeingIsTold
    <3> QED
      BY <1>3, <1>9, <2>1, <3>1, <3>2, <3>3
  <2>3. CASE m # o
    <3>1. H!Walked(m)' <=> H!Walked(m)
      <4>1. H!Walked(m)' <=> CursorsOf(m)' # {}
        BY <1>6, WalkedHasCursorAfter
      <4>2. CursorsOf(m)' = CursorsOf(m)
        <5>1. c \notin CursorsOf(m) /\ CursorsOf(m)' = CursorsOf(m) \ {c}
          BY <1>7, <1>8, <2>1, <2>3 DEF Ring
        <5>2. CursorsOf(m) \ {c} = CursorsOf(m)
          BY <5>1
        <5> QED
          BY <5>1, <5>2
      <4> QED
        BY <4>1, <4>2, WalkedHasCursor DEF HInv
    <3>2. m \in live => next'[m] = next[m] /\ \A k \in Attached(m) : next'[k] = next[k]
      BY <1>3, <1>4, <2>1, <2>3 DEF Ring
    <3> QED
      BY <1>3, <1>9, <1>10, <2>1, <2>3, <3>1, <3>2 DEF HInv, ModulesAreKnown
  <2> QED
    BY <2>2, <2>3
<1>18. FreeingIsTold'
  BY <1>13 DEF FreeingIsTold
<1> QED
  BY <1>3, <1>6, <1>14, <1>15, <1>16, <1>17, <1>18 DEF HInv

(* An object that is no module goes after its listeners.                   *)
LEMMA DropObjectKeeps ==
  ASSUME HInv, ListenersGoFirst', NEW t \in Thread, Alone(t), NEW o \in Object,
         H!DropObject(t, o)
  PROVE  HInv'
<1>1. /\ \A u \in Thread : removing[u] = None /\ ~Freeing(u)
      /\ \A m \in Object \cap live : Whole(next, prev, Ring(m))
  BY CallersFindRingsWhole DEF H!DropObject
<1>2. /\ live' = live \ {o} /\ o \notin Module /\ ~H!Walked(o)
      /\ destroyed' = [destroyed EXCEPT ![o] = @ + 1]
      /\ UNCHANGED <<next, prev, walks, removing, module, dangling>>
  BY DEF H!DropObject
<1>3. /\ \A m : CursorsOf(m)' = CursorsOf(m) /\ (H!Walked(m)' <=> H!Walked(m))
      /\ \A u \in Thread : Freeing(u)' <=> Freeing(u)
      /\ \A m : Leaving(m)' <=> Leaving(m)
  BY <1>2 DEF CursorsOf, H!Walked, Freeing, Leaving
<1>4. \A m : Attached(m)' = Attached(m) /\ Ring(m)' = Ring(m)
  BY <1>2, <1>3, NodesDiffer DEF Attached, Ring
<1>5. HookTypes'
  BY <1>2 DEF HInv, HookTypes
<1>6. WalksAreLive'
  <2> SUFFICES ASSUME NEW u \in Thread, NEW i \in 1 .. Len(walks[u])
               PROVE  walks[u][i].object # o /\ <<u, i>> # o
    BY <1>2 DEF HInv, WalksAreLive
  <2>1. walks[u] \in Seq(WalkRecord) /\ i \in DOMAIN walks[u] /\ Len(walks[u]) \in 0 .. MaxWalks
    BY DEF HInv, HookTypes
  <2>2. <<u, i>> \in H!Cursor
    BY <2>1 DEF H!Cursor
  <2> QED
    BY <1>2, <2>1, <2>2, NodesDiffer DEF H!Walked
<1>7. RingsAreWhole'
  BY <1>1, <1>2, <1>4 DEF RingsAreWhole
<1>8. HalfRemoved'
  BY <1>1, <1>2 DEF HalfRemoved
<1>9. ModulesAreKnown'
  <2> SUFFICES ASSUME NEW m \in Module
               PROVE  /\ m \in live' /\ ~H!Walked(m)' => destroyed'[m] = 0
                           /\ (~Leaving(m)' => \A k \in Attached(m)' :
                                 module'[k] = m /\ next'[m] = k /\ next'[k] = m)
                      /\ m \in live' /\ H!Walked(m)' => destroyed'[m] = 1
                      /\ m \notin live' => destroyed'[m] = 1 /\ \A k \in Attached(m)' : module'[k] = None
    BY DEF ModulesAreKnown
  <2>1. m \in Object /\ m # o /\ (m \in live' <=> m \in live) /\ destroyed'[m] = destroyed[m]
    BY <1>2 DEF HInv, HookTypes
  <2> QED
    BY <1>2, <1>3, <1>4, <2>1 DEF HInv, ModulesAreKnown
<1>10. FreeingIsTold'
  BY <1>1, <1>3 DEF FreeingIsTold
<1> QED
  BY <1>2, <1>5, <1>6, <1>7, <1>8, <1>9, <1>10 DEF HInv

LEMMA HookInitHolds == Init => HInv
<1> SUFFICES ASSUME Init
             PROVE  HInv
  OBVIOUS
<1> USE DEF Init, H!HookInit
<1>1. /\ next \in [H!Node -> H!Node \cup {None}] /\ prev = next /\ live = Object
      /\ \A o \in Object : next[o] = o
  BY NodesDiffer
<1>2. \A u \in Thread : removing[u] = None /\ walks[u] = <<>> /\ Len(walks[u]) = 0
  OBVIOUS
<1>3. HookTypes
  <2>1. walks \in [Thread -> Seq(WalkRecord)]
    OBVIOUS
  <2> QED
    BY <1>1, <1>2, <2>1, NodesDiffer DEF HookTypes
<1>4. WalksAreLive /\ HalfRemoved /\ FreeingIsTold
  BY <1>2 DEF WalksAreLive, HalfRemoved, FreeingIsTold, Freeing
<1>5. \A o \in Object : Attached(o) = {} /\ CursorsOf(o) = {}
  BY <1>1, <1>2, NodesDiffer DEF Attached, CursorsOf, H!Cursor
<1>6. RingsAreWhole
  BY <1>1, <1>5 DEF RingsAreWhole, Ring, Whole, OneCycle
<1>7. ModulesAreKnown
  <2>1. \A o \in Object : ~H!Walked(o)
    BY <1>3, <1>5, WalkedHasCursor
  <2> QED
    BY <1>1, <1>5, <2>1 DEF ModulesAreKnown
<1> QED
  BY <1>3, <1>4, <1>6, <1>7 DEF HInv

(* One thread in the rings keeps them whole. *)
LEMMA HookStepKeeps ==
  ASSUME HInv, ListenersGoFirst, ListenersGoFirst', NEW t \in Thread, Alone(t), H!HookStep(t)
  PROVE  HInv'
<1>1. CASE \E l \in Listener : H!Register(t, l) \/ H!DropListener(t, l) \/ H!DropModule(t, l)
  BY <1>1, RegisterKeeps, DropListenerKeeps, DropModuleKeeps
<1>2. CASE \E o \in Object : H!EmitEvent(t, o) \/ H!ModuleDestroysItself(t, o) \/ H!DropObject(t, o)
  BY <1>2, EmitEventKeeps, ModuleDestroysItselfKeeps, DropObjectKeeps
<1>3. CASE H!FinishRemove(t) \/ H!Call(t) \/ H!EndWalk(t)
  BY <1>3, FinishRemoveKeeps, CallKeeps, EndWalkKeeps
<1> QED
  BY <1>1, <1>2, <1>3 DEF H!HookStep

(* Nothing else touches them. *)
LEMMA Unmoved ==
  ASSUME HInv, UNCHANGED listVars
  PROVE  HInv'
<1> USE DEF listVars
<1>1. HookTypes' /\ WalksAreLive' /\ ~dangling'
  BY DEF HInv, HookTypes, WalksAreLive
<1>2. \A m : Ring(m)' = Ring(m) /\ Attached(m)' = Attached(m) /\ CursorsOf(m)' = CursorsOf(m)
  BY DEF Ring, Attached, CursorsOf
<1>3. \A m : (H!Walked(m)' <=> H!Walked(m)) /\ (Leaving(m)' <=> Leaving(m))
  BY DEF H!Walked, Leaving
<1>4. \A u \in Thread : Freeing(u)' <=> Freeing(u)
  BY DEF Freeing
<1>5. RingsAreWhole'
  BY <1>2, <1>3 DEF HInv, RingsAreWhole
<1>6. HalfRemoved'
  BY <1>2, <1>3, <1>4 DEF HInv, HalfRemoved
<1>7. ModulesAreKnown'
  BY <1>2, <1>3 DEF HInv, ModulesAreKnown
<1>8. FreeingIsTold'
  BY <1>2, <1>4 DEF HInv, FreeingIsTold
<1> QED
  BY <1>1, <1>5, <1>6, <1>7, <1>8 DEF HInv

-----------------------------------------------------------------------------
(* With the lock: a module that destroys itself does so in a thread that   *)
(* may call, from the first hook it tells to the last.                     *)

FreerMayCall == \A t \in Thread : Freeing(t) => MayCall(t)

ListsInv == IInv /\ HInv /\ FreerMayCall /\ ListenersGoFirst

LEMMA CallersAreAlone ==
  ASSUME ListsInv, NEW t \in Thread, MayCall(t)
  PROVE  Alone(t)
<1>1. OneCaller
  BY ThreadLoopAssumption
     DEF ListsInv, IInv, LockInv, LoopTypes, ProgramLock, LoopLock, OneCaller, MayCall, Locked, Thread
<1> QED
  BY <1>1 DEF ListsInv, IInv, RemoverMayCall, FreerMayCall, OneCaller, Alone, Busy

(* The lock is not let go of while a module tells its hooks.               *)
LEMMA LoopVarsStepKeepsFreers ==
  ASSUME ListsInv, LoopStep \/ \E t \in App : ProgramStep(t), UNCHANGED listVars
  PROVE  FreerMayCall'
<1> USE ThreadLoopAssumption DEF Thread, MayCall, Locked
<1>1. UNCHANGED walks
  BY DEF listVars
<1>2. SUFFICES ASSUME NEW u \in Thread, Freeing(u)
               PROVE  MayCall(u)'
  BY <1>1 DEF FreerMayCall, Freeing
<1>3. MayCall(u) /\ ~OutOfLists(u) /\ (u = Loop => ~InCallback(Loop))
  BY <1>2 DEF ListsInv, FreerMayCall, OutOfLists, InCallback, H!Calls, H!Walk, Freeing
<1>4. LockInv
  BY DEF ListsInv, IInv
<1>5. CASE LoopStep
  <2>1. CASE u = Loop
    BY <1>3, <1>5, <2>1 DEF LoopStep, Wakes, Accepted
  <2>2. CASE u \in App
    BY <1>3, <1>4, <1>5, <2>2 DEF LoopStep, Wakes, Answer, Woken, Accepted, Polls, LockInv, LoopTypes
  <2> QED
    BY <2>1, <2>2
<1>6. ASSUME NEW t \in App, ProgramStep(t)
      PROVE  MayCall(u)'
  <2>1. CASE u = Loop
    BY <1>3, <1>6, <2>1 DEF ProgramStep, Lock, Unlock, Ask, Wait, TimedWait, Sleep, WaitTimesOut,
       WaitReturns, Accept, Start, Stop, StopReturns
  <2>2. CASE u \in App
    BY <1>3, <1>4, <1>6, <2>2 DEF ProgramStep, Lock, Unlock, Ask, Wait, TimedWait, Sleep,
       WaitTimesOut, WaitReturns, Accept, Start, Stop, StopReturns, LockInv, LoopTypes
  <2> QED
    BY <2>1, <2>2
<1> QED
  BY <1>5, <1>6

LEMMA ListStepKeepsFreers ==
  ASSUME ListsInv, HookTypes', NEW t \in Thread, ListStep(t), UNCHANGED loopVars
  PROVE  FreerMayCall'
<1>1. MayCall(t) /\ \A u \in Thread : MayCall(u) => MayCall(u)'
  <2>1. UNCHANGED <<guards, pc, loopPc>>
    BY ONLY UNCHANGED loopVars DEF loopVars
  <2>2. MayCall(t)
    BY ONLY Zenon, ListStep(t) DEF ListStep
  <2> QED
    BY ONLY <2>1, <2>2 DEF MayCall, Locked
<1>2. \A u \in Thread \ {t} : ~Freeing(u)
  BY <1>1, CallersAreAlone DEF Alone, Busy
<1>3. ASSUME NEW l, H!StartRemove(t, l)
      PROVE  \A u \in Thread : Freeing(u)' <=> Freeing(u)
  BY <1>3, WalksStay, WalkedStays DEF H!StartRemove, ListsInv, HInv
<1>4. CASE \E l \in Listener : H!StartRemove(t, l)
  BY <1>1, <1>2, <1>3, <1>4 DEF FreerMayCall
<1>5. CASE ~\E l \in Listener : H!StartRemove(t, l)
  <2>1. \A u \in Thread \ {t} : walks'[u] = walks[u]
    BY <1>5 DEF ListStep, H!HookStep, H!Register, H!DropListener, H!DropModule,
         H!FinishRemove, H!EmitEvent, H!ModuleDestroysItself, H!DropObject, H!StartWalk,
         H!Call, H!EndWalk, ListsInv, HInv, HookTypes
  <2> QED
    BY <1>1, <1>2, <2>1 DEF FreerMayCall, Freeing
<1> QED
  BY <1>4, <1>5

LEMMA ListsInvKept ==
  ASSUME ListsInv, [OrderedNext]_vars
  PROVE  ListsInv'
<1>0. [Next]_vars /\ ListenersGoFirst'
  BY DEF OrderedNext, vars, listVars, ListsInv, ListenersGoFirst
<1>1. IInv'
  BY <1>0, NextKeeps DEF ListsInv
<1>2. CASE (LoopStep \/ \E t \in App : ProgramStep(t)) /\ UNCHANGED listVars
  <2>1. FreerMayCall'
    BY <1>2, LoopVarsStepKeepsFreers
  <2>2. HInv'
    BY <1>2, Unmoved DEF ListsInv
  <2> QED
    BY <1>0, <1>1, <2>1, <2>2 DEF ListsInv
<1>3. ASSUME NEW t \in Thread, ListStep(t), UNCHANGED loopVars
      PROVE  ListsInv'
  <2>1. Alone(t) /\ H!HookStep(t)
    BY <1>3, CallersAreAlone DEF ListStep
  <2>2. HInv'
    BY <1>0, <2>1, HookStepKeeps DEF ListsInv
  <2>3. FreerMayCall'
    BY <1>3, <2>2, ListStepKeepsFreers DEF HInv
  <2> QED
    BY <1>0, <1>1, <2>2, <2>3 DEF ListsInv
<1>4. CASE UNCHANGED vars
  <2>1. UNCHANGED <<loopVars, listVars>>
    BY <1>4 DEF vars
  <2>2. HInv'
    BY <2>1, Unmoved DEF ListsInv
  <2>3. FreerMayCall'
    BY <2>1 DEF ListsInv, FreerMayCall, Freeing, MayCall, Locked, loopVars, listVars
  <2> QED
    BY <1>0, <1>1, <2>2, <2>3 DEF ListsInv
<1> QED
  BY <1>0, <1>2, <1>3, <1>4 DEF Next

-----------------------------------------------------------------------------
(* Induction, over a set of numbers.                                       *)

LEMMA Least ==
  ASSUME NEW T, T \subseteq Nat, T # {}
  PROVE  \E m \in T : \A n \in T : m <= n
<1> DEFINE R == OpToRel(<, Nat)
<1>1. \A x, y \in Nat : <<x, y>> \in R <=> x < y
  BY DEF OpToRel
<1>2. IsWellFoundedOn(R, Nat)
  BY NatLessThanWellFounded
<1> HIDE DEF R
<1>3. PICK x \in T : \A y \in T : ~ (<<y, x>> \in R)
  BY <1>2, WFMin
<1>4. ASSUME NEW y \in T
      PROVE  x <= y
  <2>1. x \in Nat /\ y \in Nat
    OBVIOUS
  <2>2. ~ (y < x)
    BY <2>1, <1>1, <1>3, Zenon
  <2> QED
    BY <2>1, <2>2
<1> QED
  BY <1>4

LEMMA SetInduction ==
  ASSUME NEW T, 0 \in T, \A n \in T \cap Nat : n + 1 \in T
  PROVE  Nat \subseteq T
<1> DEFINE U == Nat \ T
<1> SUFFICES ASSUME U # {}
             PROVE  FALSE
  OBVIOUS
<1>1. PICK m \in U : \A n \in U : m <= n
  <2>1. U \subseteq Nat
    OBVIOUS
  <2> HIDE DEF U
  <2> QED
    BY <2>1, Least
<1>2. m \in Nat /\ m \notin T /\ m # 0 /\ m - 1 \in Nat
  OBVIOUS
<1>3. m - 1 \in T
  BY <1>1, <1>2
<1>4. (m - 1) + 1 = m
  BY <1>2
<1> QED
  BY <1>2, <1>3, <1>4

-----------------------------------------------------------------------------
(* What is reached in so many steps.                                       *)

Step(S) == S \cup ({next[n] : n \in S} \ {None})
Reach(f, N, o) == f = [i \in 0 .. N |-> IF i = 0 THEN {o} ELSE Step(f[i - 1])]

LEMMA ReachExists ==
  ASSUME NEW o, NEW N \in Nat
  PROVE  \E f : Reach(f, N, o)
<1> DEFINE T == {n \in Nat : \E f : Reach(f, n, o)}
<1>1. 0 \in T
  <2> PICK f : f = [i \in 0 .. 0 |-> {o}]
    OBVIOUS
  <2>1. f = [i \in 0 .. 0 |-> IF i = 0 THEN {o} ELSE Step(f[i - 1])]
    OBVIOUS
  <2> QED
    BY <2>1 DEF Reach
<1>2. ASSUME NEW n \in T
      PROVE  n + 1 \in T
  <2>1. n \in Nat
    OBVIOUS
  <2>2. PICK f : Reach(f, n, o)
    OBVIOUS
  <2> PICK g : g = [i \in 0 .. n + 1 |-> IF i = n + 1 THEN Step(f[n]) ELSE f[i]]
    OBVIOUS
  <2>3. ASSUME NEW i \in 0 .. n + 1
        PROVE  g[i] = IF i = 0 THEN {o} ELSE Step(g[i - 1])
    <3>1. CASE i = n + 1
      BY <2>1, <3>1
    <3>2. CASE i # n + 1
      <4>1. i \in 0 .. n /\ g[i] = f[i] /\ (i # 0 => g[i - 1] = f[i - 1])
        BY <2>1, <3>2
      <4> QED
        BY <2>2, <4>1 DEF Reach
    <3> QED
      BY <3>1, <3>2
  <2>4. g = [i \in 0 .. n + 1 |-> IF i = 0 THEN {o} ELSE Step(g[i - 1])]
    BY <2>1, <2>3
  <2>5. Reach(g, n + 1, o)
    BY <2>4 DEF Reach
  <2> QED
    BY <2>1, <2>5
<1> HIDE DEF T
<1>3. Nat \subseteq T
  BY <1>1, <1>2, SetInduction
<1> QED
  BY <1>3 DEF T

(* The count of HookList is that of the theorems on finite sets. *)
LEMMA CountedAlike == \A S : H!Cardinality(S) = Cardinality(S)
BY DEF H!Cardinality, Cardinality

LEMMA ReachableIs ==
  ASSUME NEW o, Cardinality(H!Node) \in Nat
  PROVE  \E f : Reach(f, Cardinality(H!Node), o) /\ H!Reachable(o) = f[Cardinality(H!Node)]
<1>1. H!Reachable(o) = (CHOOSE f : Reach(f, Cardinality(H!Node), o))[Cardinality(H!Node)]
  BY CountedAlike DEF H!Reachable, Reach, Step
<1>2. Reach(CHOOSE f : Reach(f, Cardinality(H!Node), o), Cardinality(H!Node), o)
  BY ReachExists
<1> QED
  BY <1>1, <1>2

LEMMA NodesAreFinite == IsFiniteSet(H!Node)
<1>1. IsFiniteSet(Thread)
  BY FinitelyMany, FS_AddElement DEF Thread
<1>2. IsFiniteSet(1 .. MaxWalks)
  <2>1. 1 \in Int /\ MaxWalks \in Int
    OBVIOUS
  <2> QED
    BY ONLY <2>1, FS_Interval
<1>3. IsFiniteSet(H!Cursor)
  BY <1>1, <1>2, FS_Product DEF H!Cursor
<1>4. IsFiniteSet(Object \cup Listener)
  BY FinitelyMany, FS_Union
<1>5. IsFiniteSet((Object \cup Listener) \cup H!Cursor)
  BY ONLY <1>3, <1>4, FS_Union
<1> QED
  BY <1>5 DEF H!Node

(* As many steps as there are nodes reach all of a ring, and nothing else. *)
LEMMA RingIsReached ==
  ASSUME NEW S \in SUBSET H!Node, NEW o \in S, Whole(next, prev, S)
  PROVE  H!Reachable(o) = S
<1> PICK N : N = Cardinality(H!Node)
  OBVIOUS
<1>1. N \in Nat /\ IsFiniteSet(S) /\ Cardinality(S) <= N
  BY NodesAreFinite, FS_CardinalityType, FS_Subset
<1>2. PICK f : Reach(f, N, o) /\ H!Reachable(o) = f[N]
  BY <1>1, ReachableIs
<1>3. f[0] = {o} /\ \A i \in 0 .. N : i # 0 => f[i] = Step(f[i - 1])
  <2>1. f = [i \in 0 .. N |-> IF i = 0 THEN {o} ELSE Step(f[i - 1])]
    BY <1>2 DEF Reach
  <2>2. 0 \in 0 .. N
    BY <1>1
  <2> QED
    BY <2>1, <2>2, Zenon
<1>4. ASSUME NEW C \in SUBSET S, o \in C
      PROVE  /\ Step(C) \in SUBSET S /\ C \subseteq Step(C)
             /\ C = S => Step(C) = S
             /\ C # S => Cardinality(Step(C)) > Cardinality(C)
  <2>1. Step(C) \in SUBSET S /\ C \subseteq Step(C)
    BY <1>4 DEF Step, Whole
  <2>2. ASSUME C # S
        PROVE  Step(C) # C
    <3>1. PICK n \in C : next[n] \notin C
      BY <1>4, <2>2 DEF Whole, OneCycle
    <3>2. next[n] \in H!Node /\ next[n] # None
      BY DEF Whole
    <3> QED
      BY <3>1, <3>2 DEF Step
  <2>3. IsFiniteSet(Step(C)) /\ IsFiniteSet(C)
    BY <1>1, <2>1, FS_Subset
  <2>4. /\ Cardinality(C) <= Cardinality(Step(C))
        /\ Cardinality(C) = Cardinality(Step(C)) => C = Step(C)
        /\ Cardinality(C) \in Nat /\ Cardinality(Step(C)) \in Nat
    BY <2>1, <2>3, FS_Subset, FS_CardinalityType
  <2> QED
    BY <2>1, <2>2, <2>4
<1> DEFINE Grows(i) == f[i] \in SUBSET S /\ o \in f[i] /\ (f[i] = S \/ Cardinality(f[i]) > i)
           T == {i \in Nat : i <= N => Grows(i)}
<1>5. 0 \in T
  <2>1. Cardinality({o}) = 1
    BY FS_Singleton
  <2>2. f[0] = {o} /\ {o} \in SUBSET S /\ o \in {o}
    BY <1>3
  <2> QED
    BY <2>1, <2>2
<1>6. ASSUME NEW i \in T, i + 1 <= N
      PROVE  Grows(i + 1)
  <2>1. i \in Nat /\ Grows(i)
    BY <1>1, <1>6
  <2>2. f[i + 1] = Step(f[i])
    BY <1>1, <1>3, <1>6, <2>1
  <2>3. Cardinality(f[i]) \in Nat /\ Cardinality(Step(f[i])) \in Nat
    BY <1>1, <1>4, <2>1, FS_Subset, FS_CardinalityType
  <2> QED
    BY <1>4, <2>1, <2>2, <2>3
<1>7. \A i \in T \cap Nat : i + 1 \in T
  BY <1>6
<1>8. Nat \subseteq T
  <2> HIDE DEF T
  <2> QED
    BY <1>5, <1>7, SetInduction
<1>9. Grows(N)
  BY <1>1, <1>8
<1>10. f[N] = S
  <2>1. Cardinality(f[N]) <= Cardinality(S) /\ Cardinality(f[N]) \in Nat /\ Cardinality(S) \in Nat
    BY <1>1, <1>9, FS_Subset, FS_CardinalityType
  <2> QED
    BY <1>1, <1>9, <2>1
<1> QED
  BY <1>2, <1>10

-----------------------------------------------------------------------------
(* While the program drops no object before its listeners, the rings of    *)
(* all objects are whole whenever a thread may begin something with them,  *)
(* modules and the pointers to them agree, and nothing freed is written to.*)
THEOREM ListsInvariant == OrderedSpec => []ListsInv
<1>1. Init => ListsInv
  <2>1. Init => live = Object
    BY DEF Init, H!HookInit
  <2>2. Init => ListenersGoFirst
    BY <2>1, NodesDiffer DEF ListenersGoFirst
  <2> QED
    BY <2>2, InitHolds, HookInitHolds DEF ListsInv, FreerMayCall, Freeing, Init, H!HookInit
<1>2. ListsInv /\ [OrderedNext]_vars => ListsInv'
  BY ListsInvKept
<1> QED
  BY <1>1, <1>2, PTL DEF OrderedSpec

(* The ring of every object that exists comes back to it, through exactly  *)
(* its listeners and the cursors of the walks over it (list::remove, the   *)
(* lock of ThreadLoop).                                                    *)
THEOREM ListsAreWhole == OrderedSpec => []ListsStayWhole
<1>1. ListsInv => ListsStayWhole
  <2> SUFFICES ASSUME HInv, \A t \in Thread : removing[t] = None, NEW o \in Object \cap live
               PROVE  /\ \A n \in H!Reachable(o) : n \in live /\ prev[next[n]] = n
                      /\ H!Reachable(o) = {o} \cup {l \in Listener \cap live : Of[l] = o}
                           \cup {c \in H!Cursor : c[2] \in DOMAIN walks[c[1]]
                                                  /\ walks[c[1]][c[2]].object = o}
    BY DEF ListsInv, ListsStayWhole
  <2>1. Whole(next, prev, Ring(o)) /\ Ring(o) \subseteq H!Node /\ Ring(o) \subseteq live /\ o \in Ring(o)
    BY RingsAreNodes DEF HInv, RingsAreWhole, Leaving, Ring
  <2>2. H!Reachable(o) = Ring(o)
    BY <2>1, RingIsReached
  <2>3. \A c \in H!Cursor : DOMAIN walks[c[1]] = 1 .. Len(walks[c[1]])
    BY DEF H!Cursor, HInv, HookTypes
  <2>4. CursorsOf(o) = {c \in H!Cursor : c[2] \in DOMAIN walks[c[1]]
                                         /\ walks[c[1]][c[2]].object = o}
    BY <2>3 DEF CursorsOf
  <2> QED
    BY <2>1, <2>2, <2>4 DEF Ring, Attached, Whole
<1> QED
  BY <1>1, ListsInvariant, PTL

(* hook::remove, the appending of hooks and the cursors of walks write to  *)
(* no node whose memory is gone, whatever callbacks and other threads add  *)
(* and remove: list::remove under the lock.                                *)
THEOREM NothingDangles == OrderedSpec => []NoDanglingWrite
<1>1. ListsInv => NoDanglingWrite
  BY DEF ListsInv, HInv, NoDanglingWrite
<1> QED
  BY <1>1, ListsInvariant, PTL

(* A module is destroyed once, by itself or by the drop of its LocalModule *)
(* (LocalModuleState.module, module_freed).                                *)
THEOREM ModulesGoOnce == OrderedSpec => []DestroyedOnce
<1>1. ListsInv => DestroyedOnce
  <2> SUFFICES ASSUME ListsInv, NEW o \in Module
               PROVE  destroyed[o] <= 1
    BY DEF DestroyedOnce
  <2>1. destroyed[o] \in {0, 1}
    BY DEF ListsInv, HInv, ModulesAreKnown
  <2> QED
    BY <2>1
<1> QED
  BY <1>1, ListsInvariant, PTL

-----------------------------------------------------------------------------
(* Whom a walk still comes to.  From its cursor c the pointers lead through *)
(* the nodes of A and then back to the object o.                           *)
Ahead(nx, A, c, o) ==
  /\ o \notin A /\ c \notin A
  /\ \A x \in A \cup {c} : nx[x] \in A \cup {o}

Uncalled(called, l) == \A k \in 1 .. Len(called) : called[k] # l
CalledOnce(called, l) ==
  \E k \in 1 .. Len(called) :
    called[k] = l /\ \A j \in 1 .. Len(called) : called[j] = l => j = k

(* Of the hooks that a walk is due to call, those ahead of its cursor are  *)
(* still to be called and the others have been called once.                *)
Tally(A, due, called) ==
  \A l \in due : IF l \in A THEN Uncalled(called, l) ELSE CalledOnce(called, l)

GoesOn(nx, S, c, o, due, called) ==
  /\ due \subseteq S
  /\ \E A \in SUBSET S : Ahead(nx, A, c, o) /\ Tally(A, due, called)

(* The nodes in the ring of o but the one whose removal has begun.         *)
InRing(o) ==
  {x \in Ring(o) : \A u \in Thread : removing[u] # None => removing[u].hook # x}

WalkGoesOn(t, i) ==
  GoesOn(next, InRing(walks[t][i].object), <<t, i>>, walks[t][i].object,
         walks[t][i].due, walks[t][i].called)

WalksGoOn == \A t \in Thread : \A i \in 1 .. Len(walks[t]) : WalkGoesOn(t, i)

(* Pointers elsewhere do not matter to a walk.                             *)
LEMMA ElsewhereGoesOn ==
  ASSUME NEW nx, NEW nx2, NEW S, NEW c \in S, NEW o, NEW due, NEW called,
         GoesOn(nx, S, c, o, due, called), \A x \in S : nx2[x] = nx[x]
  PROVE  GoesOn(nx2, S, c, o, due, called)
<1>1. PICK A \in SUBSET S : Ahead(nx, A, c, o) /\ Tally(A, due, called)
  BY DEF GoesOn
<1>2. Ahead(nx2, A, c, o)
  BY <1>1 DEF Ahead
<1> QED
  BY <1>1, <1>2 DEF GoesOn

(* A node linked anywhere into the ring is no hook the walk is due to call. *)
LEMMA LinkedGoesOn ==
  ASSUME NEW nx, NEW nx2, NEW S, NEW c \in S, NEW o \in S, NEW due, NEW called,
         GoesOn(nx, S, c, o, due, called),
         NEW at \in S, NEW n, n \notin S,
         nx2[at] = n, nx2[n] = nx[at], \A x \in S : x # at => nx2[x] = nx[x]
  PROVE  GoesOn(nx2, S \cup {n}, c, o, due, called)
<1>1. PICK A \in SUBSET S : Ahead(nx, A, c, o) /\ Tally(A, due, called)
  BY DEF GoesOn
<1>2. due \subseteq S
  BY DEF GoesOn
<1>3. CASE at \in A \cup {c}
  <2> PICK B : B = A \cup {n}
    OBVIOUS
  <2>1. Ahead(nx2, B, c, o)
    <3>1. o \notin B /\ c \notin B
      BY <1>1 DEF Ahead
    <3>2. \A x \in A \cup {c} : nx2[x] \in B \cup {o}
      BY <1>1 DEF Ahead
    <3>3. nx2[n] \in B \cup {o}
      BY <1>1, <1>3 DEF Ahead
    <3> QED
      BY <3>1, <3>2, <3>3 DEF Ahead
  <2>2. Tally(B, due, called)
    BY <1>1, <1>2 DEF Tally
  <2>3. B \in SUBSET (S \cup {n}) /\ due \subseteq S \cup {n}
    BY <1>2
  <2> QED
    BY <2>1, <2>2, <2>3 DEF GoesOn
<1>4. CASE at \notin A \cup {c}
  <2>1. Ahead(nx2, A, c, o)
    BY <1>1, <1>4 DEF Ahead
  <2>2. A \in SUBSET (S \cup {n}) /\ due \subseteq S \cup {n}
    BY <1>2
  <2> QED
    BY <1>1, <2>1, <2>2 DEF GoesOn
<1> QED
  BY <1>3, <1>4

(* A node taken out of the ring is no longer due.                          *)
LEMMA UnlinkedGoesOn ==
  ASSUME NEW nx, NEW nx2, NEW S, NEW c \in S, NEW o \in S, NEW due, NEW due2, NEW called,
         GoesOn(nx, S, c, o, due, called),
         NEW n \in S, n # c, n # o, NEW p \in S, nx[p] = n, \A x \in S : nx[x] = n => x = p,
         nx2[p] = nx[n], \A x \in S : x # p => nx2[x] = nx[x],
         due2 \subseteq due, n \notin due2
  PROVE  GoesOn(nx2, S \ {n}, c, o, due2, called)
<1>1. PICK A \in SUBSET S : Ahead(nx, A, c, o) /\ Tally(A, due, called)
  BY DEF GoesOn
<1>2. due \subseteq S
  BY DEF GoesOn
<1> PICK B : B = A \ {n}
  OBVIOUS
<1>3. o \notin B /\ c \notin B
  BY <1>1 DEF Ahead
<1>4. ASSUME NEW x \in B \cup {c}
      PROVE  nx2[x] \in B \cup {o}
  <2>1. x \in A \cup {c} /\ x \in S /\ x # n /\ nx[x] \in A \cup {o}
    BY <1>1 DEF Ahead
  <2>2. CASE x = p
    <3>1. n \in A
      BY <2>1, <2>2
    <3>2. nx[n] \in A \cup {o} /\ nx[n] # n
      BY <1>1, <2>1, <2>2, <3>1 DEF Ahead
    <3> QED
      BY <2>2, <3>2
  <2>3. CASE x # p
    BY <2>1, <2>3
  <2> QED
    BY <2>2, <2>3
<1>5. Ahead(nx2, B, c, o)
  BY <1>3, <1>4 DEF Ahead
<1>6. Tally(B, due2, called)
  BY <1>1 DEF Tally
<1>7. B \in SUBSET (S \ {n}) /\ due2 \subseteq S \ {n}
  BY <1>2
<1> QED
  BY <1>5, <1>6, <1>7 DEF GoesOn

(* Calling one hook counts for that hook and no other. *)
LEMMA CalledNow ==
  ASSUME NEW called \in Seq(H!Node), NEW l \in H!Node, Uncalled(called, l)
  PROVE  CalledOnce(Append(called, l), l)
<1> PICK s : s = Append(called, l)
  OBVIOUS
<1> PICK n : n = Len(called)
  OBVIOUS
<1>1. /\ n \in Nat /\ Len(s) = n + 1 /\ s[n + 1] = l
      /\ \A j \in 1 .. n : s[j] = called[j]
  BY AppendProperties
<1>2. n + 1 \in 1 .. Len(s)
  BY <1>1
<1>3. \A j \in 1 .. Len(s) : s[j] = l => j = n + 1
  BY <1>1 DEF Uncalled
<1>4. CalledOnce(s, l)
  BY <1>1, <1>2, <1>3 DEF CalledOnce
<1> QED
  BY <1>4

LEMMA CalledOther ==
  ASSUME NEW called \in Seq(H!Node), NEW pos \in H!Node, NEW l, l # pos
  PROVE  /\ Uncalled(called, l) => Uncalled(Append(called, pos), l)
         /\ CalledOnce(called, l) => CalledOnce(Append(called, pos), l)
<1> PICK s : s = Append(called, pos)
  OBVIOUS
<1> PICK n : n = Len(called)
  OBVIOUS
<1>1. /\ n \in Nat /\ Len(s) = n + 1 /\ s[n + 1] = pos
      /\ \A j \in 1 .. n : s[j] = called[j]
  BY AppendProperties
<1>2. \A j \in 1 .. Len(s) : s[j] = l => j \in 1 .. n /\ called[j] = l
  BY <1>1
<1>3. Uncalled(called, l) => Uncalled(s, l)
  BY <1>2 DEF Uncalled
<1>4. CalledOnce(called, l) => CalledOnce(s, l)
  <2> SUFFICES ASSUME NEW k \in 1 .. n, called[k] = l,
                      \A j \in 1 .. n : called[j] = l => j = k
               PROVE  CalledOnce(s, l)
    BY DEF CalledOnce
  <2>1. k \in 1 .. Len(s) /\ s[k] = l
    BY <1>1
  <2>2. \A j \in 1 .. Len(s) : s[j] = l => j = k
    BY <1>2
  <2> QED
    BY <2>1, <2>2 DEF CalledOnce
<1> QED
  BY <1>3, <1>4

(* The cursor of the walk itself steps over the node behind it, and the    *)
(* hook there is called.                                                   *)
LEMMA SteppedGoesOn ==
  ASSUME NEW nx, NEW nx2, NEW S, NEW c \in S, NEW o \in S, c # o,
         NEW due \in SUBSET Listener, NEW called \in Seq(H!Node), NEW called2,
         GoesOn(nx, S, c, o, due, called),
         NEW pos, pos = nx[c], pos # o,
         NEW p \in S, nx[p] = c, \A x \in S : nx[x] = pos => x = c,
         nx2[pos] = c, nx2[c] = nx[pos], \A x \in S : x \notin {p, pos, c} => nx2[x] = nx[x],
         called2 = IF pos \in Listener THEN Append(called, pos) ELSE called
  PROVE  GoesOn(nx2, S, c, o, due, called2)
<1>1. PICK A \in SUBSET S : Ahead(nx, A, c, o) /\ Tally(A, due, called)
  BY DEF GoesOn
<1>2. due \subseteq S
  BY DEF GoesOn
<1>3. pos \in A /\ pos # c /\ p \notin A
  BY <1>1 DEF Ahead
<1> PICK B : B = A \ {pos}
  OBVIOUS
<1>4. o \notin B /\ c \notin B
  BY <1>1 DEF Ahead
<1>5. ASSUME NEW x \in B
      PROVE  nx2[x] \in B \cup {o}
  <2>1. x \in S /\ x # c /\ x # pos /\ x # p /\ nx[x] \in A \cup {o}
    BY <1>1, <1>3, <1>4 DEF Ahead
  <2>2. nx[x] # pos /\ nx2[x] = nx[x]
    BY <2>1
  <2> QED
    BY <2>1, <2>2
<1>6. nx2[c] \in B \cup {o}
  <2>1. nx[pos] \in A \cup {o}
    BY <1>1, <1>3 DEF Ahead
  <2>2. nx[pos] # pos
    BY <1>3
  <2> QED
    BY <2>1, <2>2
<1>7. Ahead(nx2, B, c, o)
  BY <1>4, <1>5, <1>6 DEF Ahead
<1>8. Tally(B, due, called2)
  <2> SUFFICES ASSUME NEW l \in due
               PROVE  IF l \in B THEN Uncalled(called2, l) ELSE CalledOnce(called2, l)
    BY DEF Tally
  <2>1. IF l \in A THEN Uncalled(called, l) ELSE CalledOnce(called, l)
    BY <1>1 DEF Tally
  <2>2. CASE pos \notin Listener
    BY <2>1, <2>2
  <2>3. CASE pos \in Listener
    <3>1. called2 = Append(called, pos) /\ pos \in H!Node
      BY <2>3, NodesDiffer
    <3>2. CASE l = pos
      BY <1>3, <2>1, <3>1, <3>2, CalledNow
    <3>3. CASE l # pos
      BY <2>1, <3>1, <3>3, CalledOther
    <3> QED
      BY <3>2, <3>3
  <2> QED
    BY <2>2, <2>3
<1> QED
  BY <1>2, <1>7, <1>8 DEF GoesOn

(* A walk that has come back to the object has nothing ahead of it.        *)
LEMMA EndedGoesOn ==
  ASSUME NEW nx, NEW pv, NEW S, Whole(nx, pv, S), NEW c \in S, NEW o \in S,
         NEW due, NEW called, GoesOn(nx, S, c, o, due, called), nx[c] = o
  PROVE  \A l \in due : CalledOnce(called, l)
<1>1. PICK A \in SUBSET S : Ahead(nx, A, c, o) /\ Tally(A, due, called)
  BY DEF GoesOn
<1>2. \A x \in A : nx[x] \in A
  <2> SUFFICES ASSUME NEW x \in A, nx[x] = o
               PROVE  FALSE
    BY <1>1 DEF Ahead
  <2>1. x = c
    BY DEF Whole
  <2> QED
    BY <1>1, <2>1 DEF Ahead
<1>3. A = {}
  BY <1>1, <1>2 DEF Whole, OneCycle, Ahead
<1> QED
  BY <1>1, <1>3 DEF Tally

-----------------------------------------------------------------------------
(* Every step keeps the walks going on as they should.                     *)

LEMMA WalksAreInRings ==
  ASSUME HInv, NEW u \in Thread, NEW i \in 1 .. Len(walks[u])
  PROVE  /\ walks[u][i] \in WalkRecord
         /\ walks[u][i].object \in Object \cap live
         /\ walks[u][i].due \in SUBSET Listener /\ walks[u][i].called \in Seq(H!Node)
         /\ <<u, i>> \in H!Cursor /\ <<u, i>> \notin Object /\ <<u, i>> \notin Listener
         /\ <<u, i>> \in Ring(walks[u][i].object)
         /\ walks[u][i].object \in Ring(walks[u][i].object)
<1>1. walks[u] \in Seq(WalkRecord) /\ Len(walks[u]) \in 0 .. MaxWalks
  BY DEF HInv, HookTypes
<1>2. walks[u][i] \in WalkRecord
  BY <1>1
<1>3. <<u, i>> \in H!Cursor
  BY <1>1 DEF H!Cursor
<1>4. walks[u][i].object \in live
  BY DEF HInv, WalksAreLive
<1> QED
  BY <1>2, <1>3, <1>4, NodesDiffer DEF WalkRecord, Ring, CursorsOf

LEMMA QuietRings ==
  ASSUME \A u \in Thread : removing[u] = None
  PROVE  \A m : InRing(m) = Ring(m)
BY DEF InRing

LEMMA QuietRingsAfter ==
  ASSUME \A u \in Thread : removing'[u] = None
  PROVE  \A m : InRing(m)' = Ring(m)'
BY DEF InRing

LEMMA GoesOnAfter ==
  ASSUME NEW u, NEW i, NEW o, walks'[u][i].object = o,
         GoesOn(next', InRing(o)', <<u, i>>, o, walks'[u][i].due, walks'[u][i].called)
  PROVE  WalkGoesOn(u, i)'
<1>1. InRing(walks[u][i].object)' = InRing(o)'
  BY DEF InRing, Ring, Attached, CursorsOf
<1> QED
  BY <1>1 DEF WalkGoesOn

(* A walk over a ring that nothing is written to. *)
LEMMA StillGoesOn ==
  ASSUME NEW u, NEW i, NEW o, o = walks[u][i].object, WalkGoesOn(u, i),
         walks'[u][i] = walks[u][i], InRing(o)' = InRing(o),
         <<u, i>> \in InRing(o), \A x \in InRing(o) : next'[x] = next[x]
  PROVE  WalkGoesOn(u, i)'
<1>1. GoesOn(next, InRing(o), <<u, i>>, o, walks[u][i].due, walks[u][i].called)
  BY DEF WalkGoesOn
<1>2. GoesOn(next', InRing(o), <<u, i>>, o, walks[u][i].due, walks[u][i].called)
  BY <1>1, ElsewhereGoesOn
<1> QED
  BY <1>2, GoesOnAfter

(* A node is linked into one of the rings.                                 *)
LEMMA LinkedKeepsWalks ==
  ASSUME HInv, WalksGoOn, NEW o \in Object \cap live, NEW at \in Ring(o), NEW n \in H!Node,
         \A u \in Thread : removing[u] = None /\ removing'[u] = None,
         \A m \in Object \cap live : n \notin Ring(m),
         \A m \in Object \cap live : Ring(m)' = IF m = o THEN Ring(m) \cup {n} ELSE Ring(m),
         next' = NextLinked(at, n),
         NEW u \in Thread, NEW i \in 1 .. Len(walks[u]), walks'[u][i] = walks[u][i]
  PROVE  WalkGoesOn(u, i)'
<1> PICK w : w = walks[u][i]
  OBVIOUS
<1> PICK m : m = w.object
  OBVIOUS
<1> PICK c : c = <<u, i>>
  OBVIOUS
<1>1. m \in Object \cap live /\ c \in Ring(m) /\ m \in Ring(m)
  BY WalksAreInRings
<1>2. InRing(m) = Ring(m) /\ InRing(o) = Ring(o) /\ InRing(m)' = Ring(m)'
  BY QuietRings, QuietRingsAfter
<1>3. GoesOn(next, Ring(m), c, m, w.due, w.called)
  BY <1>2 DEF WalksGoOn, WalkGoesOn
<1>4. Ring(m) \subseteq H!Node /\ at \in H!Node /\ next \in [H!Node -> H!Node \cup {None}]
  BY <1>1, RingsAreNodes DEF HInv, HookTypes
<1>5. CASE m = o
  <2>1. n \notin Ring(m) /\ at \in Ring(m)
    BY <1>5
  <2>2. next'[at] = n /\ next'[n] = next[at] /\ \A x \in Ring(m) : x # at => next'[x] = next[x]
    BY <1>4, <2>1 DEF NextLinked
  <2> PICK S : S = Ring(m)
    OBVIOUS
  <2> PICK d : d = w.due
    OBVIOUS
  <2> PICK k : k = w.called
    OBVIOUS
  <2> PICK nx2 : nx2 = next'
    OBVIOUS
  <2>3. GoesOn(nx2, S \cup {n}, c, m, d, k)
    <3>1. c \in S /\ m \in S /\ at \in S /\ n \notin S /\ GoesOn(next, S, c, m, d, k)
      BY <1>1, <1>3, <2>1
    <3>2. nx2[at] = n /\ nx2[n] = next[at] /\ \A x \in S : x # at => nx2[x] = next[x]
      BY <2>2
    <3> QED
      BY ONLY <3>1, <3>2, LinkedGoesOn
  <2>4. InRing(m)' = S \cup {n}
    BY <1>1, <1>2, <1>5
  <2>5. GoesOn(next', InRing(m)', <<u, i>>, m, walks'[u][i].due, walks'[u][i].called)
    BY <2>3, <2>4
  <2> QED
    BY <2>5, GoesOnAfter
<1>6. CASE m # o
  <2>1. Ring(m) \cap Ring(o) = {} /\ n \notin Ring(m)
    BY <1>1, <1>6, RingsAreApart
  <2>2. \A x \in Ring(m) : next'[x] = next[x]
    BY <1>4, <2>1 DEF NextLinked
  <2>3. InRing(m)' = InRing(m) /\ WalkGoesOn(u, i)
    BY <1>1, <1>2, <1>6 DEF WalksGoOn
  <2> QED
    BY <1>1, <1>2, <2>2, <2>3, StillGoesOn
<1> QED
  BY <1>5, <1>6

(* A node is taken out of one of the rings, which was whole.               *)
LEMMA UnlinkedKeepsWalks ==
  ASSUME HInv, WalksGoOn, NEW o \in Object \cap live, NEW n \in Ring(o), n # o,
         Whole(next, prev, Ring(o)), \A u \in Thread : removing[u] = None,
         \A m \in Object \cap live : InRing(m)' = IF m = o THEN Ring(m) \ {n} ELSE Ring(m),
         next' = NextUnlinked(n),
         NEW u \in Thread, NEW i \in 1 .. Len(walks[u]), <<u, i>> # n,
         walks'[u][i].object = walks[u][i].object, walks'[u][i].called = walks[u][i].called,
         walks'[u][i].due = walks[u][i].due \ {n}
  PROVE  WalkGoesOn(u, i)'
<1> PICK w : w = walks[u][i]
  OBVIOUS
<1> PICK m : m = w.object
  OBVIOUS
<1> PICK c : c = <<u, i>>
  OBVIOUS
<1> PICK p : p = prev[n]
  OBVIOUS
<1>1. m \in Object \cap live /\ c \in Ring(m) /\ m \in Ring(m) /\ c # n
  BY WalksAreInRings
<1>2. InRing(m) = Ring(m)
  BY QuietRings
<1>3. GoesOn(next, Ring(m), c, m, w.due, w.called)
  BY <1>2 DEF WalksGoOn, WalkGoesOn
<1>4. Ring(m) \subseteq H!Node /\ next \in [H!Node -> H!Node \cup {None}]
  BY <1>1, RingsAreNodes DEF HInv, HookTypes
<1>5. p \in Ring(o) /\ p \in H!Node /\ next[p] = n /\ \A x \in Ring(o) : next[x] = n => x = p
  BY RingsAreNodes DEF Whole
<1>6. CASE m = o
  <2>1. next'[p] = next[n] /\ \A x \in Ring(m) : x # p => next'[x] = next[x]
    BY <1>4, <1>5 DEF NextUnlinked
  <2>2. /\ w.due \ {n} \subseteq w.due /\ n \notin w.due \ {n}
        /\ n \in Ring(m) /\ n # c /\ n # m
    BY <1>1, <1>6
  <2>3. p \in Ring(m) /\ \A x \in Ring(m) : next[x] = n => x = p
    BY <1>5, <1>6
  <2> PICK S : S = Ring(m)
    OBVIOUS
  <2> PICK d : d = w.due
    OBVIOUS
  <2> PICK d2 : d2 = d \ {n}
    OBVIOUS
  <2> PICK k : k = w.called
    OBVIOUS
  <2> PICK nx2 : nx2 = next'
    OBVIOUS
  <2>4. GoesOn(nx2, S \ {n}, c, m, d2, k)
    <3>1. /\ c \in S /\ m \in S /\ n \in S /\ n # c /\ n # m /\ p \in S
          /\ GoesOn(next, S, c, m, d, k) /\ d2 \subseteq d /\ n \notin d2
      BY <1>1, <1>3, <2>2, <2>3
    <3>2. next[p] = n /\ \A x \in S : next[x] = n => x = p
      BY <1>5, <2>3
    <3>3. nx2[p] = next[n] /\ \A x \in S : x # p => nx2[x] = next[x]
      BY <2>1
    <3> QED
      BY ONLY <3>1, <3>2, <3>3, UnlinkedGoesOn
  <2>5. InRing(m)' = S \ {n}
    BY <1>1, <1>6
  <2>6. GoesOn(next', InRing(m)', <<u, i>>, m, walks'[u][i].due, walks'[u][i].called)
    BY <2>4, <2>5
  <2> QED
    BY <2>6, GoesOnAfter
<1>7. CASE m # o
  <2>1. Ring(m) \cap Ring(o) = {}
    BY <1>1, <1>7, RingsAreApart
  <2>2. \A x \in Ring(m) : next'[x] = next[x]
    BY <1>4, <1>5, <2>1 DEF NextUnlinked
  <2>3. InRing(m)' = Ring(m)
    BY <1>1, <1>7
  <2>4. w.due \ {n} = w.due
    <3>1. w.due \subseteq Ring(m)
      BY <1>3 DEF GoesOn
    <3> QED
      BY <2>1, <3>1
  <2>5. GoesOn(next', Ring(m), c, m, w.due, w.called)
    BY <1>1, <1>3, <2>2, ElsewhereGoesOn
  <2>6. GoesOn(next', InRing(m)', <<u, i>>, m, walks'[u][i].due, walks'[u][i].called)
    BY <2>3, <2>4, <2>5
  <2> QED
    BY <2>6, GoesOnAfter
<1> QED
  BY <1>6, <1>7

(* What a call writes to the walks.                                        *)
LEMMA CallWrites ==
  ASSUME HInv, NEW t \in Thread, Alone(t), H!Call(t),
         NEW n, n = Len(walks[t]), NEW pos, pos = next[H!Here(t)]
  PROVE  /\ \A u \in Thread : Len(walks'[u]) = Len(walks[u])
         /\ \A u \in Thread : \A i \in 1 .. Len(walks[u]) :
              <<u, i>> # <<t, n>> => walks'[u][i] = walks[u][i]
         /\ walks'[t][n].object = walks[t][n].object
         /\ walks'[t][n].due = walks[t][n].due
         /\ walks'[t][n].called = IF pos \in Listener THEN Append(walks[t][n].called, pos)
                                  ELSE walks[t][n].called
<1> PICK w : w = walks[t]
  OBVIOUS
<1>1. w \in Seq(WalkRecord) /\ n = Len(w) /\ n \in 1 .. Len(w) /\ w[n] \in WalkRecord
  BY WalkersFindRingsWhole DEF H!Call, H!Walk
<1>2. CASE pos \in Listener
  <2> DEFINE r == [w[n] EXCEPT !.at = pos, !.called = Append(@, pos)]
  <2>1. r.object = w[n].object /\ r.due = w[n].due /\ r.called = Append(w[n].called, pos)
    BY <1>1 DEF WalkRecord
  <2>2. r \in WalkRecord
    BY <1>1, <1>2, AppendProperties, NodesDiffer DEF WalkRecord
  <2>3. walks' = [walks EXCEPT ![t] = [w EXCEPT ![n] = r]]
    <3>1. walks' = SteppedAt(walks, t, n, pos)
      BY <1>2 DEF H!Call, SteppedAt
    <3> QED
      BY <3>1, WalkWritten
  <2> HIDE DEF r
  <2>4. /\ Len([w EXCEPT ![n] = r]) = Len(w)
        /\ \A i \in 1 .. Len(w) : [w EXCEPT ![n] = r][i] = IF i = n THEN r ELSE w[i]
    BY <1>1, <2>2, ExceptSeq
  <2>5. walks'[t] = [w EXCEPT ![n] = r] /\ \A u \in Thread \ {t} : walks'[u] = walks[u]
    BY <2>3 DEF HInv, HookTypes
  <2>6. walks'[t][n] = r /\ Len(walks'[t]) = Len(w)
        /\ \A i \in 1 .. Len(w) : i # n => walks'[t][i] = w[i]
    BY <1>1, <2>4, <2>5
  <2> QED
    BY <1>2, <2>1, <2>5, <2>6
<1>3. CASE pos \notin Listener
  BY <1>3 DEF H!Call
<1> QED
  BY <1>2, <1>3

LEMMA CallKeepsWalks ==
  ASSUME HInv, WalksGoOn, NEW t \in Thread, Alone(t), H!Call(t)
  PROVE  WalksGoOn'
<1> PICK o : o = H!Walk(t).object
  OBVIOUS
<1> PICK n : n = Len(walks[t])
  OBVIOUS
<1> PICK c : c = H!Here(t)
  OBVIOUS
<1> PICK pos : pos = next[c]
  OBVIOUS
<1> PICK p : p = prev[c]
  OBVIOUS
<1> PICK S : S = Ring(o)
  OBVIOUS
<1>1. /\ \A u \in Thread : removing[u] = None
      /\ Whole(next, prev, S)
      /\ n \in 1 .. Len(walks[t])
      /\ o \in Object \cap live /\ c \in S /\ o \in S
      /\ c \in H!Node /\ c \notin Object /\ c \notin Listener
      /\ c = <<t, n>> /\ walks[t][n].object = o
  <2>1. H!Free(t) /\ walks[t] # <<>>
    BY DEF H!Call
  <2>2. /\ \A u \in Thread : removing[u] = None
        /\ \A m \in Object \cap live : Whole(next, prev, Ring(m))
        /\ Len(walks[t]) \in 1 .. MaxWalks
        /\ H!Walk(t).object \in Object \cap live
        /\ H!Here(t) \in Ring(H!Walk(t).object)
        /\ H!Here(t) \in H!Node /\ H!Here(t) \notin Object /\ H!Here(t) \notin Listener
    BY <2>1, WalkersFindRingsWhole
  <2>3. n \in 1 .. Len(walks[t]) /\ c = <<t, n>> /\ walks[t][n].object = o
    BY <2>2 DEF H!Here, H!Walk
  <2>4. o \in S
    BY DEF Ring
  <2> QED
    BY <2>2, <2>3, <2>4
<1>2. pos \in S /\ pos \in H!Node /\ pos # o /\ c # o
  BY <1>1, RingsAreNodes DEF H!Call, Whole
<1>3. pos # c
  <2> SUFFICES ASSUME pos = c
               PROVE  FALSE
    OBVIOUS
  <2> PICK C : C = {c}
    OBVIOUS
  <2>1. C \in SUBSET S /\ \A x \in C : next[x] \in C
    BY <1>1
  <2>2. C = {} \/ C = S
    BY <1>1, <2>1 DEF Whole, OneCycle
  <2> QED
    BY <1>1, <1>2, <2>2
<1>4. p \in S /\ next[p] = c /\ (\A x \in S : next[x] = c => x = p)
      /\ \A x \in S : next[x] = pos => x = c
  <2>1. \A x \in S : prev[next[x]] = x /\ prev[x] \in S /\ next[prev[x]] = x
    BY <1>1 DEF Whole
  <2>2. c \in S /\ p = prev[c] /\ pos = next[c]
    BY <1>1
  <2>3. p \in S /\ next[p] = c
    BY ONLY <2>1, <2>2
  <2>4. \A x \in S : next[x] = c => x = p
    BY ONLY <2>1, <2>2
  <2>5. \A x \in S : next[x] = pos => x = c
    BY ONLY <2>1, <2>2
  <2> QED
    BY ONLY <2>3, <2>4, <2>5
<1>5. /\ \A m \in (Object \cap live) \ {o} : \A x \in Ring(m) : next'[x] = next[x]
      /\ next' = [NextUnlinked(c) EXCEPT ![pos] = c, ![c] = NextUnlinked(c)[pos]]
  <2>1. H!SetLinks(H!Insert(H!Unlink(H!Links, c), next[c], c))
    BY DEF H!Call
  <2> QED
    BY <1>1, <1>2, <2>1, SteppedOver
<1>6. /\ \A u \in Thread : Len(walks'[u]) = Len(walks[u])
      /\ \A u \in Thread : \A i \in 1 .. Len(walks[u]) :
           <<u, i>> # c => walks'[u][i] = walks[u][i]
      /\ walks'[t][n].object = walks[t][n].object
      /\ walks'[t][n].due = walks[t][n].due
      /\ walks'[t][n].called = IF pos \in Listener THEN Append(walks[t][n].called, pos)
                               ELSE walks[t][n].called
  <2>1. n = Len(walks[t]) /\ pos = next[H!Here(t)]
    OBVIOUS
  <2>2. /\ \A u \in Thread : Len(walks'[u]) = Len(walks[u])
        /\ \A u \in Thread : \A i \in 1 .. Len(walks[u]) :
             <<u, i>> # <<t, n>> => walks'[u][i] = walks[u][i]
        /\ walks'[t][n].object = walks[t][n].object
        /\ walks'[t][n].due = walks[t][n].due
        /\ walks'[t][n].called = IF pos \in Listener THEN Append(walks[t][n].called, pos)
                                 ELSE walks[t][n].called
    BY <2>1, CallWrites
  <2> QED
    BY <1>1, <2>2
<1>7. \A m : InRing(m) = Ring(m) /\ InRing(m)' = Ring(m)
  <2>1. UNCHANGED <<live, removing>>
    BY DEF H!Call
  <2>2. \A u \in Thread : \A i \in 1 .. Len(walks[u]) : walks'[u][i].object = walks[u][i].object
    BY <1>1, <1>6
  <2>3. \A m : CursorsOf(m)' = CursorsOf(m)
    BY <1>6, <2>2 DEF CursorsOf, H!Cursor
  <2>4. \A m : Ring(m)' = Ring(m)
    BY <2>1, <2>3 DEF Ring, Attached
  <2> QED
    BY <1>1, <2>1, <2>4, QuietRings, QuietRingsAfter
<1>8. S \subseteq H!Node /\ next \in [H!Node -> H!Node \cup {None}] /\ NextUnlinked(c) \in [H!Node -> H!Node \cup {None}]
  BY <1>1, RingsAreNodes, Unlinked DEF HInv, HookTypes
<1> PICK nx1 : nx1 = NextUnlinked(c)
  OBVIOUS
<1> PICK nx2 : nx2 = next'
  OBVIOUS
<1>9. nx1[p] = pos /\ \A x \in S : x # p => nx1[x] = next[x]
  BY <1>4, <1>8 DEF NextUnlinked
<1>10. nx2[pos] = c /\ nx2[c] = nx1[pos] /\ \A x \in S : x \notin {pos, c} => nx2[x] = nx1[x]
  BY <1>1, <1>2, <1>3, <1>5, <1>8
<1>11. ASSUME NEW u \in Thread, NEW i \in 1 .. Len(walks[u]), <<u, i>> # c
       PROVE  WalkGoesOn(u, i)'
  <2> PICK m : m = walks[u][i].object
    OBVIOUS
  <2>1. /\ m \in Object \cap live /\ <<u, i>> \in Ring(m) /\ m \in Ring(m)
        /\ walks[u][i].due \in SUBSET Listener
    BY WalksAreInRings
  <2>2. WalkGoesOn(u, i) /\ walks'[u][i] = walks[u][i]
    BY <1>6, <1>11 DEF WalksGoOn
  <2>3. CASE m # o
    BY <1>5, <1>7, <2>1, <2>2, <2>3, StillGoesOn
  <2>4. CASE m = o
    <3> PICK d : d = walks[u][i].due
      OBVIOUS
    <3> PICK k : k = walks[u][i].called
      OBVIOUS
    <3> PICK b : b = <<u, i>>
      OBVIOUS
    <3>1. GoesOn(next, S, b, o, d, k)
      BY <1>7, <2>2, <2>4 DEF WalkGoesOn
    <3>2. b \in S /\ b # c /\ c \notin d /\ d \subseteq d /\ o \in S /\ c \in S /\ c # o
      BY <1>1, <1>2, <1>11, <2>1, <2>4
    <3>3. GoesOn(nx1, S \ {c}, b, o, d, k)
      <4>1. nx1[p] = next[c] /\ \A x \in S : x # p => nx1[x] = next[x]
        BY <1>9
      <4>2. p \in S /\ next[p] = c /\ (\A x \in S : next[x] = c => x = p)
        BY <1>4
      <4> QED
        BY ONLY <3>1, <3>2, <4>1, <4>2, UnlinkedGoesOn
    <3> PICK T : T = S \ {c}
      OBVIOUS
    <3>4. GoesOn(nx2, T \cup {c}, b, o, d, k)
      <4>1. GoesOn(nx1, T, b, o, d, k) /\ b \in T /\ o \in T /\ pos \in T /\ c \notin T
        BY <1>2, <1>3, <3>2, <3>3
      <4>2. nx2[pos] = c /\ nx2[c] = nx1[pos] /\ \A x \in T : x # pos => nx2[x] = nx1[x]
        BY <1>10
      <4> QED
        BY ONLY <4>1, <4>2, LinkedGoesOn
    <3>5. T \cup {c} = S
      BY <1>1
    <3>6. GoesOn(next', InRing(o)', <<u, i>>, o, walks'[u][i].due, walks'[u][i].called)
      BY <1>7, <2>2, <3>4, <3>5
    <3> QED
      BY <2>2, <2>4, <3>6, GoesOnAfter
  <2> QED
    BY <2>3, <2>4
<1>12. WalkGoesOn(t, n)'
  <2> PICK d : d = walks[t][n].due
    OBVIOUS
  <2> PICK k : k = walks[t][n].called
    OBVIOUS
  <2> PICK k2 : k2 = walks'[t][n].called
    OBVIOUS
  <2>1. d \in SUBSET Listener /\ k \in Seq(H!Node)
    BY <1>1, WalksAreInRings
  <2>2. GoesOn(next, S, c, o, d, k)
    BY <1>1, <1>7 DEF WalksGoOn, WalkGoesOn
  <2>3. k2 = IF pos \in Listener THEN Append(k, pos) ELSE k
    BY <1>6
  <2>4. nx2[pos] = c /\ nx2[c] = next[pos]
        /\ \A x \in S : x \notin {p, pos, c} => nx2[x] = next[x]
    <3>1. pos # p
      BY <1>2, <1>4, <2>2 DEF GoesOn, Ahead
    <3> QED
      BY <1>2, <1>9, <1>10, <3>1
  <2>5. GoesOn(nx2, S, c, o, d, k2)
    <3>1. /\ c \in S /\ o \in S /\ c # o /\ pos = next[c] /\ pos # o /\ p \in S
          /\ next[p] = c /\ \A x \in S : next[x] = pos => x = c
      BY <1>1, <1>2, <1>4
    <3> QED
      BY ONLY ZenonT(40), <2>1, <2>2, <2>3, <2>4, <3>1, SteppedGoesOn
  <2>6. GoesOn(next', InRing(o)', <<t, n>>, o, walks'[t][n].due, walks'[t][n].called)
    BY <1>1, <1>6, <1>7, <2>5
  <2> QED
    BY <1>1, <1>6, <2>6, GoesOnAfter
<1> QED
  BY <1>1, <1>6, <1>11, <1>12 DEF WalksGoOn

LEMMA RegisterKeepsWalks ==
  ASSUME HInv, WalksGoOn, NEW t \in Thread, Alone(t), NEW l \in Listener, H!Register(t, l)
  PROVE  WalksGoOn'
<1> PICK o : o = Of[l]
  OBVIOUS
<1>1. /\ \A u \in Thread : removing[u] = None
      /\ \A m \in Object \cap live : Whole(next, prev, Ring(m))
  BY CallersFindRingsWhole DEF H!Register
<1>2. o \in Object \cap live /\ next[l] = None /\ l \in H!Node
  BY NodesDiffer DEF H!Register
<1>3. l \notin live
  <2>1. ASSUME l \in live PROVE FALSE
    <3>1. l \in Ring(o)
      BY <2>1 DEF Ring, Attached
    <3> QED
      BY <1>1, <1>2, <3>1, RingsAreNodes DEF Whole
  <2> QED
    BY <2>1
<1>4. prev[o] \in Ring(o)
  BY <1>1, <1>2 DEF Whole, Ring
<1>5. \A m \in Object \cap live : l \notin Ring(m)
  BY <1>3, RingsAreNodes
<1>6. next' = NextLinked(prev[o], l)
  BY DEF H!Register, H!SetLinks, H!Links, H!Insert, NextLinked
<1>7. live' = live \cup {l} /\ UNCHANGED <<walks, removing>>
  BY DEF H!Register
<1>8. \A m \in Object \cap live : Ring(m)' = IF m = o THEN Ring(m) \cup {l} ELSE Ring(m)
  <2>1. \A m : CursorsOf(m)' = CursorsOf(m)
    BY <1>7 DEF CursorsOf
  <2>2. \A m \in Object : Attached(m)' = IF m = o THEN Attached(m) \cup {l} ELSE Attached(m)
    BY <1>7 DEF Attached
  <2> QED
    BY <2>1, <2>2 DEF Ring
<1>9. \A u \in Thread : removing[u] = None /\ removing'[u] = None
  BY <1>1, <1>7
<1>10. ASSUME NEW u \in Thread, NEW i \in 1 .. Len(walks[u])
       PROVE  WalkGoesOn(u, i)'
  <2>1. walks'[u][i] = walks[u][i]
    BY <1>7
  <2> PICK at : at = prev[o]
    OBVIOUS
  <2>2. at \in Ring(o) /\ next' = NextLinked(at, l)
    BY <1>4, <1>6
  <2> QED
    BY <1>2, <1>5, <1>8, <1>9, <2>1, <2>2, LinkedKeepsWalks
<1> QED
  BY <1>7, <1>10 DEF WalksGoOn

(* The listener leaves the walks it was due in with the first write of     *)
(* hook::remove.                                                           *)
LEMMA StartRemoveKeepsWalks ==
  ASSUME HInv, WalksGoOn, NEW t \in Thread, Alone(t), H!Calls(t), NEW l \in Listener, l \in live,
         Of[l] \in live, H!StartRemove(t, l), UNCHANGED live
  PROVE  WalksGoOn'
<1> PICK o : o = Of[l]
  OBVIOUS
<1> PICK e : e = [hook |-> l, next |-> next[l], prev |-> prev[l]]
  OBVIOUS
<1>1. /\ \A u \in Thread : removing[u] = None
      /\ \A m \in Object \cap live : Whole(next, prev, Ring(m))
  BY CallersFindRingsWhole
<1>2. o \in Object \cap live /\ l \in Ring(o) /\ l # o
  BY NodesDiffer DEF Ring, Attached
<1>3. next' = NextUnlinked(l)
  BY DEF H!StartRemove, H!SetLinks, H!Predecessor, H!Links, NextUnlinked
<1>4. removing'[t] = e /\ \A u \in Thread \ {t} : removing'[u] = None
  BY <1>1 DEF H!StartRemove, HInv, HookTypes
<1>5. e # None /\ e.hook = l
  <2>1. next[l] \in H!Node /\ prev[l] \in H!Node
    BY <1>1, <1>2, RingsAreNodes DEF Whole
  <2> QED
    BY <2>1
<1>6. walks' = [u \in Thread |-> [i \in DOMAIN walks[u] |-> [walks[u][i] EXCEPT !.due = @ \ {l}]]]
  BY DEF H!StartRemove
<1>7. \A u \in Thread : /\ Len(walks'[u]) = Len(walks[u])
                        /\ \A i \in 1 .. Len(walks[u]) :
                             /\ walks'[u][i].object = walks[u][i].object
                             /\ walks'[u][i].kind = walks[u][i].kind
  BY <1>6, WalksStay DEF HInv
<1>8. ASSUME NEW u \in Thread, NEW i \in 1 .. Len(walks[u])
      PROVE  /\ walks'[u][i].called = walks[u][i].called
             /\ walks'[u][i].due = walks[u][i].due \ {l}
  <2>1. walks[u][i] \in WalkRecord /\ i \in DOMAIN walks[u]
    BY WalksAreInRings DEF HInv, HookTypes
  <2>2. walks'[u][i] = [walks[u][i] EXCEPT !.due = @ \ {l}]
    BY <1>6, <2>1
  <2> QED
    BY <2>1, <2>2 DEF WalkRecord
<1>9. \A m \in Object \cap live : InRing(m)' = IF m = o THEN Ring(m) \ {l} ELSE Ring(m)
  <2>1. \A m : CursorsOf(m)' = CursorsOf(m)
    BY <1>7 DEF CursorsOf, H!Cursor
  <2>2. \A m : Ring(m)' = Ring(m)
    BY <2>1 DEF Ring, Attached
  <2>3. \A m : InRing(m)' = Ring(m) \ {l}
    BY <1>4, <1>5, <2>2 DEF InRing
  <2>4. \A m \in Object : m # o => l \notin Ring(m)
    BY <1>2, RingsAreApart
  <2> QED
    BY <2>3, <2>4
<1>10. ASSUME NEW u \in Thread, NEW i \in 1 .. Len(walks[u])
       PROVE  WalkGoesOn(u, i)'
  <2>1. <<u, i>> # l
    BY WalksAreInRings
  <2>2. Whole(next, prev, Ring(o))
    BY <1>1, <1>2
  <2> QED
    BY <1>1, <1>2, <1>3, <1>7, <1>8, <1>9, <2>1, <2>2, UnlinkedKeepsWalks
<1> QED
  BY <1>7, <1>10 DEF WalksGoOn

(* Steps that write to no pointer that a walk follows.                     *)
LEMMA QuietStepKeepsWalks ==
  ASSUME HInv, WalksGoOn, UNCHANGED <<next, walks>>,
         \A m \in Object \cap live : InRing(m)' = InRing(m)
  PROVE  WalksGoOn'
<1>1. ASSUME NEW u \in Thread, NEW i \in 1 .. Len(walks[u])
      PROVE  WalkGoesOn(u, i)'
  <2> PICK o : o = walks[u][i].object
    OBVIOUS
  <2>1. GoesOn(next, InRing(o), <<u, i>>, o, walks[u][i].due, walks[u][i].called)
    BY DEF WalksGoOn, WalkGoesOn
  <2>2. InRing(o)' = InRing(o)
    BY WalksAreInRings
  <2>3. GoesOn(next', InRing(o)', <<u, i>>, o, walks'[u][i].due, walks'[u][i].called)
    BY <2>1, <2>2
  <2> QED
    BY <2>3, GoesOnAfter
<1> QED
  BY <1>1 DEF WalksGoOn

LEMMA DropModuleKeepsWalks ==
  ASSUME HInv, WalksGoOn, NEW t \in Thread, Alone(t), NEW l \in Listener, H!DropModule(t, l)
  PROVE  WalksGoOn'
<1>1. /\ \A u \in Thread : removing[u] = None
      /\ \A m \in Module : ~H!Walked(m)
  BY CallersFindRingsWhole DEF H!DropModule
<1>2. H!Calls(t) /\ l \in live /\ Of[l] \in Module /\ Of[l] \in Object
  BY NodesDiffer DEF H!DropModule
<1>3. Of[l] \in live <=> module[l] # None
  <2>1. l \in Attached(Of[l]) /\ Of[l] # None
    BY <1>2, NodesDiffer DEF Attached
  <2>2. ~Leaving(Of[l])
    BY <1>1 DEF Leaving
  <2> QED
    BY <1>1, <1>2, <2>1, <2>2 DEF HInv, ModulesAreKnown
<1>4. CASE module[l] # None
  <2>1. H!StartRemove(t, l) /\ UNCHANGED live
    BY <1>4 DEF H!DropModule
  <2> QED
    BY <1>2, <1>3, <1>4, <2>1, StartRemoveKeepsWalks
<1>5. CASE module[l] = None
  <2>1. live' = live \ {l} /\ UNCHANGED <<next, walks, removing>>
    BY <1>5 DEF H!DropModule
  <2>2. \A m \in Object \cap live : Ring(m)' = Ring(m)
    <3>1. \A m \in Object \cap live : Attached(m)' = Attached(m)
      BY <1>3, <1>5, <2>1 DEF Attached
    <3>2. \A m : CursorsOf(m)' = CursorsOf(m)
      BY <2>1 DEF CursorsOf
    <3> QED
      BY <3>1, <3>2 DEF Ring
  <2>3. \A m \in Object \cap live : InRing(m)' = InRing(m)
    BY <2>1, <2>2 DEF InRing
  <2> QED
    BY <2>1, <2>3, QuietStepKeepsWalks
<1> QED
  BY <1>4, <1>5

(* The second write of hook::remove is to prev; the hook was out of the    *)
(* way of the walks with the first.                                        *)
LEMMA FinishRemoveKeepsWalks ==
  ASSUME HInv, WalksGoOn, NEW t \in Thread, Alone(t), H!FinishRemove(t)
  PROVE  WalksGoOn'
<1> PICK e : e = removing[t]
  OBVIOUS
<1> PICK l : l = e.hook
  OBVIOUS
<1> PICK o : o = Of[l]
  OBVIOUS
<1>1. /\ e # None /\ l \in Listener /\ o \in Object
      /\ \A u \in Thread \ {t} : removing[u] = None
  BY NodesDiffer DEF HInv, HalfRemoved, H!FinishRemove, H!Free, Alone, Busy
<1>2. /\ UNCHANGED <<next, walks>>
      /\ removing' = [removing EXCEPT ![t] = None]
      /\ live' = live \ (IF o \in Module THEN {l, o} ELSE {l})
  BY DEF H!FinishRemove, H!SetLinks, H!Successor, H!Links
<1>3. \A u \in Thread : removing'[u] = None
  BY <1>1, <1>2 DEF HInv, HookTypes
<1>4. \A m : CursorsOf(m)' = CursorsOf(m)
  BY <1>2 DEF CursorsOf
<1>5. \A m : Attached(m)' = Attached(m) \ {l}
  BY <1>1, <1>2, NodesDiffer DEF Attached
<1>6. \A m \in Object : InRing(m)' = InRing(m)
  <2>1. \A m \in Object : Ring(m)' = Ring(m) \ {l}
    BY <1>1, <1>4, <1>5, NodesDiffer DEF Ring, CursorsOf
  <2>2. \A m : InRing(m)' = Ring(m)'
    BY <1>3, QuietRingsAfter
  <2>3. \A m : InRing(m) = Ring(m) \ {l}
    BY <1>1 DEF InRing
  <2> QED
    BY <2>1, <2>2, <2>3
<1> QED
  BY <1>2, <1>6, QuietStepKeepsWalks

(* A walk begins with the whole ring ahead of it.                          *)
LEMMA StartWalkKeepsWalks ==
  ASSUME HInv, WalksGoOn, NEW t \in Thread, Alone(t), NEW o \in Object, NEW kind,
         kind \in {"event", "free"}, H!StartWalk(t, o, kind)
  PROVE  WalksGoOn'
<1> PICK n : n = Len(walks[t]) + 1
  OBVIOUS
<1> PICK c : c = <<t, n>>
  OBVIOUS
<1> PICK d : d = H!Registered(o)
  OBVIOUS
<1> PICK r : r = [object |-> o, kind |-> kind, at |-> o, called |-> <<>>, due |-> d]
  OBVIOUS
<1>1. /\ \A u \in Thread : removing[u] = None
      /\ \A m \in Object \cap live : Whole(next, prev, Ring(m))
  BY CallersFindRingsWhole DEF H!StartWalk
<1>2. o \in Object \cap live /\ o \in Ring(o) /\ Len(walks[t]) < MaxWalks
  BY DEF H!StartWalk, Ring
<1>3. walks[t] \in Seq(WalkRecord) /\ Len(walks[t]) \in Nat /\ n \in 1 .. MaxWalks
  BY <1>2 DEF HInv, HookTypes
<1>4. c \in H!Cursor /\ c \in H!Node /\ c \notin Listener /\ c \notin Object
      /\ c[1] = t /\ c[2] = n
  BY <1>3, NodesDiffer DEF H!Cursor
<1>5. next' = NextLinked(o, c) /\ live' = live \cup {c} /\ UNCHANGED removing
      /\ walks' = [walks EXCEPT ![t] = Append(@, r)]
  BY DEF H!StartWalk, H!SetLinks, H!Insert, H!Links, NextLinked
<1>6. d \in SUBSET Listener /\ d = Attached(o)
  BY <1>1 DEF H!Registered, Attached
<1>7. r \in WalkRecord /\ r.object = o /\ r.due = d /\ r.called = <<>>
  BY <1>6, NodesDiffer DEF WalkRecord
<1>8. /\ \A u \in Thread \ {t} : walks'[u] = walks[u]
      /\ Len(walks'[t]) = n /\ walks'[t][n] = r
      /\ \A i \in 1 .. Len(walks[t]) : walks'[t][i] = walks[t][i]
  <2>1. walks'[t] = Append(walks[t], r) /\ \A u \in Thread \ {t} : walks'[u] = walks[u]
    BY <1>5 DEF HInv, HookTypes
  <2> QED
    BY <1>3, <1>7, <2>1, AppendProperties
<1>9. \A m \in Object : CursorsOf(m)' = IF m = o THEN CursorsOf(m) \cup {c} ELSE CursorsOf(m)
  <2> SUFFICES ASSUME NEW m \in Object, NEW b \in H!Cursor
               PROVE  b \in CursorsOf(m)' <=> b \in CursorsOf(m) \/ (m = o /\ b = c)
    BY SMTT(40), <1>4 DEF CursorsOf
  <2>1. b[1] \in Thread /\ b[2] \in Nat \ {0} /\ (b = c <=> b[1] = t /\ b[2] = n)
    BY DEF H!Cursor
  <2>2. CASE b[1] # t
    BY <1>8, <2>1, <2>2 DEF CursorsOf
  <2>3. CASE b[1] = t /\ b[2] # n
    <3>1. b # c /\ (b[2] \in 1 .. Len(walks'[t]) <=> b[2] \in 1 .. Len(walks[t]))
      BY <1>3, <1>8, <2>1, <2>3, n = Len(walks[t]) + 1
    <3>2. b[2] \in 1 .. Len(walks[t]) => walks'[t][b[2]] = walks[t][b[2]]
      BY <1>8
    <3> QED
      BY <2>3, <3>1, <3>2 DEF CursorsOf
  <2>4. CASE b[1] = t /\ b[2] = n
    BY <1>3, <1>7, <1>8, <2>1, <2>4 DEF CursorsOf
  <2> QED
    BY <2>2, <2>3, <2>4
<1>10. \A m \in Object \cap live : c \notin Ring(m)
  <2> SUFFICES ASSUME NEW m \in Object \cap live
               PROVE  c \notin Ring(m)
    OBVIOUS
  <2>1. c \notin CursorsOf(m)
    <3>1. c[2] \notin 1 .. Len(walks[t])
      BY <1>3, <1>4, n = Len(walks[t]) + 1
    <3> QED
      BY <1>4, <3>1 DEF CursorsOf
  <2>2. c # m /\ c \notin Attached(m)
    BY <1>4 DEF Attached
  <2> QED
    BY <2>1, <2>2 DEF Ring
<1>11. \A m \in Object \cap live : Ring(m)' = IF m = o THEN Ring(m) \cup {c} ELSE Ring(m)
  <2>1. \A m : Attached(m)' = Attached(m)
    BY <1>4, <1>5 DEF Attached
  <2> QED
    BY <1>9, <2>1 DEF Ring
<1>12. \A u \in Thread : removing[u] = None /\ removing'[u] = None
  BY <1>1, <1>5
<1>13. ASSUME NEW u \in Thread, NEW i \in 1 .. Len(walks[u]), walks'[u][i] = walks[u][i]
       PROVE  WalkGoesOn(u, i)'
  BY <1>2, <1>4, <1>5, <1>10, <1>11, <1>12, <1>13, LinkedKeepsWalks
<1>14. WalkGoesOn(t, n)'
  <2> PICK S : S = Ring(o)
    OBVIOUS
  <2> PICK A : A = S \ {o}
    OBVIOUS
  <2> PICK nx2 : nx2 = next'
    OBVIOUS
  <2>1. InRing(o)' = S \cup {c}
    BY <1>2, <1>11, <1>12, QuietRingsAfter
  <2>2. S \subseteq H!Node /\ o \in S /\ c \notin S /\ next \in [H!Node -> H!Node \cup {None}]
        /\ \A x \in S : next[x] \in S
    BY <1>1, <1>2, <1>10, RingsAreNodes DEF HInv, HookTypes, Whole
  <2>3. nx2[c] = next[o] /\ \A x \in A : nx2[x] = next[x]
    BY <1>4, <1>5, <2>2 DEF NextLinked
  <2>4. Ahead(nx2, A, c, o)
    BY <2>2, <2>3 DEF Ahead
  <2>5. Tally(A, d, <<>>)
    <3>1. \A l \in d : l \in A
      BY <1>6, NodesDiffer DEF Ring, Attached
    <3>2. \A l : Uncalled(<<>>, l)
      BY DEF Uncalled
    <3> QED
      BY <3>1, <3>2 DEF Tally
  <2>6. A \in SUBSET (S \cup {c}) /\ d \subseteq S \cup {c}
    BY <1>6 DEF Ring
  <2>7. GoesOn(nx2, S \cup {c}, c, o, d, <<>>)
    BY <2>4, <2>5, <2>6 DEF GoesOn
  <2>8. GoesOn(next', InRing(o)', <<t, n>>, o, walks'[t][n].due, walks'[t][n].called)
    BY <1>7, <1>8, <2>1, <2>7
  <2> QED
    BY <1>7, <1>8, <2>8, GoesOnAfter
<1> SUFFICES ASSUME NEW u \in Thread, NEW i \in 1 .. Len(walks'[u])
             PROVE  WalkGoesOn(u, i)'
  BY DEF WalksGoOn
<1>15. CASE u = t /\ i = n
  BY <1>14, <1>15
<1>16. CASE u # t \/ i # n
  <2>1. i \in 1 .. Len(walks[u]) /\ walks'[u][i] = walks[u][i]
    BY <1>3, <1>8, <1>16, n = Len(walks[t]) + 1
  <2> QED
    BY <1>13, <2>1
<1> QED
  BY <1>15, <1>16

(* A walk ends: its cursor is on the way of other walks no more.           *)
LEMMA EndWalkKeepsWalks ==
  ASSUME HInv, WalksGoOn, NEW t \in Thread, Alone(t), H!EndWalk(t)
  PROVE  WalksGoOn'
<1> PICK o : o = H!Walk(t).object
  OBVIOUS
<1> PICK c : c = H!Here(t)
  OBVIOUS
<1> PICK n : n = Len(walks[t])
  OBVIOUS
<1>1. /\ \A u \in Thread : removing[u] = None
      /\ \A m \in Object \cap live : Whole(next, prev, Ring(m))
      /\ walks[t] \in Seq(WalkRecord) /\ n \in 1 .. MaxWalks
      /\ o \in Object \cap live /\ c \in CursorsOf(o) /\ c \in Ring(o)
      /\ c \in H!Node /\ c \notin Object /\ c \notin Listener
  BY WalkersFindRingsWhole DEF H!EndWalk
<1>2. c = <<t, n>> /\ c # o
  BY <1>1 DEF H!Here
<1>3. /\ next' = NextUnlinked(c)
      /\ live' = live \ (IF H!Walk(t).kind = "free" THEN {c, o} ELSE {c})
      /\ UNCHANGED removing
      /\ walks' = [walks EXCEPT ![t] = SubSeq(walks[t], 1, n - 1)]
  <2>1. H!SetLinks(H!Unlink(H!Links, c))
    BY DEF H!EndWalk
  <2>2. H!Unlink(H!Links, c) = [next |-> NextUnlinked(c), prev |-> PrevUnlinked(c)]
    BY UnlinkIs DEF NextUnlinked, PrevUnlinked
  <2>3. next' = NextUnlinked(c)
    BY <2>1, <2>2 DEF H!SetLinks
  <2> QED
    BY <2>3 DEF H!EndWalk
<1>4. /\ \A u \in Thread \ {t} : walks'[u] = walks[u]
      /\ Len(walks'[t]) = n - 1
      /\ \A i \in 1 .. n - 1 : walks'[t][i] = walks[t][i]
  <2>1. /\ Len(SubSeq(walks[t], 1, n - 1)) = n - 1
        /\ \A i \in 1 .. n - 1 : SubSeq(walks[t], 1, n - 1)[i] = walks[t][i]
    BY <1>1
  <2>2. walks'[t] = SubSeq(walks[t], 1, n - 1) /\ \A u \in Thread \ {t} : walks'[u] = walks[u]
    BY <1>3 DEF HInv, HookTypes
  <2> QED
    BY <2>1, <2>2
<1>5. \A m \in Object : CursorsOf(m)' = CursorsOf(m) \ {c}
  <2> SUFFICES ASSUME NEW m \in Object, NEW d \in H!Cursor
               PROVE  d \in CursorsOf(m)' <=> d \in CursorsOf(m) /\ d # c
    BY DEF CursorsOf
  <2>1. d[1] \in Thread /\ d[2] \in Nat \ {0} /\ (d = c <=> d[1] = t /\ d[2] = n)
    BY <1>2 DEF H!Cursor
  <2>2. CASE d[1] # t
    BY <1>4, <2>1, <2>2 DEF CursorsOf
  <2>3. CASE d[1] = t
    <3>1. d[2] \in 1 .. Len(walks'[t]) <=> d[2] \in 1 .. Len(walks[t]) /\ d # c
      BY <1>1, <1>4, <2>1, <2>3
    <3>2. d[2] \in 1 .. Len(walks'[t]) => walks'[t][d[2]] = walks[t][d[2]]
      BY <1>4
    <3> QED
      BY <2>3, <3>1, <3>2 DEF CursorsOf
  <2> QED
    BY <2>2, <2>3
<1>6. \A m \in Object \cap live : InRing(m)' = IF m = o THEN Ring(m) \ {c} ELSE Ring(m)
  <2>1. \A m \in Object : Attached(m)' = Attached(m) /\ c \notin Attached(m) /\ c # m
    BY <1>1, <1>3, NodesDiffer DEF Attached
  <2>2. \A m \in Object : Ring(m)' = Ring(m) \ {c}
    BY <1>5, <2>1 DEF Ring
  <2>3. \A m \in Object : m # o => c \notin Ring(m)
    BY <1>1, RingsAreApart
  <2>4. \A m : InRing(m)' = Ring(m)'
    BY <1>1, <1>3, QuietRingsAfter
  <2>5. \A m \in Object : m # o => Ring(m) \ {c} = Ring(m)
    BY <2>3
  <2>6. \A m \in Object : InRing(m)' = Ring(m) \ {c}
    BY <2>2, <2>4
  <2> QED
    BY <2>5, <2>6
<1> SUFFICES ASSUME NEW u \in Thread, NEW i \in 1 .. Len(walks'[u])
             PROVE  WalkGoesOn(u, i)'
  BY DEF WalksGoOn
<1>7. i \in 1 .. Len(walks[u]) /\ walks'[u][i] = walks[u][i] /\ <<u, i>> # c
  BY SMTT(40), <1>1, <1>2, <1>4
<1>8. walks'[u][i].due = walks[u][i].due \ {c}
  <2>1. walks[u][i].due \in SUBSET Listener
    BY <1>7, WalksAreInRings
  <2>2. c \notin walks[u][i].due
    BY <1>1, <2>1
  <2> QED
    BY <1>7, <2>2
<1> QED
  BY <1>1, <1>2, <1>3, <1>6, <1>7, <1>8, UnlinkedKeepsWalks

LEMMA DropObjectKeepsWalks ==
  ASSUME HInv, WalksGoOn, NEW t \in Thread, NEW o \in Object, H!DropObject(t, o)
  PROVE  WalksGoOn'
<1>1. live' = live \ {o} /\ UNCHANGED <<next, walks, removing>>
  BY DEF H!DropObject
<1>2. \A m : Ring(m)' = Ring(m)
  <2>1. \A m : CursorsOf(m)' = CursorsOf(m) /\ Attached(m)' = Attached(m)
    BY <1>1, NodesDiffer DEF CursorsOf, Attached
  <2> QED
    BY <2>1 DEF Ring
<1>3. \A m : InRing(m)' = InRing(m)
  BY <1>1, <1>2 DEF InRing
<1> QED
  BY <1>1, <1>3, QuietStepKeepsWalks

LEMMA HookStepKeepsWalks ==
  ASSUME HInv, ListenersGoFirst, WalksGoOn, NEW t \in Thread, Alone(t), H!HookStep(t)
  PROVE  WalksGoOn'
<1>1. ASSUME NEW l \in Listener, H!DropListener(t, l)
      PROVE  WalksGoOn'
  BY <1>1, StartRemoveKeepsWalks DEF H!DropListener, ListenersGoFirst
<1>2. CASE \E l \in Listener : H!Register(t, l) \/ H!DropListener(t, l) \/ H!DropModule(t, l)
  BY <1>1, <1>2, RegisterKeepsWalks, DropModuleKeepsWalks
<1>3. ASSUME NEW o \in Object, H!EmitEvent(t, o) \/ H!ModuleDestroysItself(t, o)
      PROVE  WalksGoOn'
  BY <1>3, StartWalkKeepsWalks DEF H!EmitEvent, H!ModuleDestroysItself
<1>4. CASE \E o \in Object : H!EmitEvent(t, o) \/ H!ModuleDestroysItself(t, o) \/ H!DropObject(t, o)
  BY <1>3, <1>4, DropObjectKeepsWalks
<1>5. CASE H!FinishRemove(t) \/ H!Call(t) \/ H!EndWalk(t)
  BY <1>5, FinishRemoveKeepsWalks, CallKeepsWalks, EndWalkKeepsWalks
<1> QED
  BY <1>2, <1>4, <1>5 DEF H!HookStep

LEMMA WalksGoOnKept ==
  ASSUME ListsInv, WalksGoOn, [Next]_vars
  PROVE  WalksGoOn'
<1>1. CASE UNCHANGED listVars
  <2>1. UNCHANGED <<next, walks, live, removing>>
    BY <1>1 DEF listVars
  <2>2. \A m : InRing(m)' = InRing(m)
    BY <2>1 DEF InRing, Ring, Attached, CursorsOf
  <2> QED
    BY <2>1, <2>2, QuietStepKeepsWalks DEF ListsInv
<1>2. ASSUME NEW t \in Thread, ListStep(t)
      PROVE  WalksGoOn'
  <2>1. Alone(t) /\ H!HookStep(t)
    BY <1>2, CallersAreAlone DEF ListStep
  <2> QED
    BY <2>1, HookStepKeepsWalks DEF ListsInv
<1>3. UNCHANGED vars => UNCHANGED listVars
  BY DEF vars
<1> QED
  BY <1>1, <1>2, <1>3 DEF Next

(* Only the thread that takes a step in the lists ends a walk with it.     *)
LEMMA EndersMayCall ==
  ASSUME ListsInv, NEW t \in Thread, H!EndWalk(t), [Next]_vars
  PROVE  MayCall(t)
<1> PICK n : n = Len(walks[t])
  OBVIOUS
<1>1. walks[t] \in Seq(WalkRecord) /\ n \in Nat /\ n # 0
  BY DEF ListsInv, HInv, HookTypes, H!EndWalk
<1>2. Len(walks'[t]) = n - 1
  <2>1. walks'[t] = SubSeq(walks[t], 1, n - 1)
    BY DEF ListsInv, HInv, HookTypes, H!EndWalk
  <2> QED
    BY <1>1, <2>1
<1>3. Len(walks'[t]) # Len(walks[t])
  BY <1>1, <1>2
<1>4. ~UNCHANGED walks
  BY <1>3
<1>5. PICK u \in Thread : ListStep(u)
  BY <1>4 DEF Next, vars, listVars
<1>6. CASE \E l \in Listener : H!StartRemove(u, l)
  BY <1>3, <1>6, WalksStay DEF H!StartRemove, ListsInv, HInv
<1>7. CASE ~\E l \in Listener : H!StartRemove(u, l)
  <2>1. \A v \in Thread \ {u} : walks'[v] = walks[v]
    BY <1>5, <1>7 DEF ListStep, H!HookStep, H!Register, H!DropListener, H!DropModule,
         H!FinishRemove, H!EmitEvent, H!ModuleDestroysItself, H!DropObject, H!StartWalk,
         H!Call, H!EndWalk, ListsInv, HInv, HookTypes
  <2>2. u = t
    BY <1>3, <2>1
  <2> QED
    BY <1>5, <2>2 DEF ListStep
<1> QED
  BY <1>6, <1>7

(* A walk that ends has called each listener that was there from its       *)
(* beginning to its end, and none of them twice, whatever the callbacks    *)
(* and other threads added and removed meanwhile (spa_hook_list_call as    *)
(* the loop and the methods of an object use it, list::remove).            *)
THEOREM WalksCallEachOnce == OrderedSpec => CallsAreComplete
<1>0. [OrderedNext]_vars => [Next]_vars
  BY DEF OrderedNext
<1>1. Init => WalksGoOn
  BY DEF Init, H!HookInit, WalksGoOn
<1>2. ListsInv /\ WalksGoOn /\ [Next]_vars => WalksGoOn'
  BY WalksGoOnKept
<1>3. ListsInv /\ WalksGoOn /\ [Next]_vars =>
        [\A t \in Thread : H!EndWalk(t) =>
           LET w == H!Walk(t)
               met(l) == {i \in DOMAIN w.called : w.called[i] = l}
           IN \A l \in w.due : \E i \in DOMAIN w.called : met(l) = {i}]_vars
  <2> SUFFICES ASSUME ListsInv, WalksGoOn, [Next]_vars, NEW t \in Thread, H!EndWalk(t),
                      NEW l \in H!Walk(t).due
               PROVE  \E i \in DOMAIN H!Walk(t).called :
                        {k \in DOMAIN H!Walk(t).called : H!Walk(t).called[k] = l} = {i}
    BY Zenon
  <2> PICK w : w = H!Walk(t)
    OBVIOUS
  <2> PICK n : n = Len(walks[t])
    OBVIOUS
  <2>1. Alone(t) /\ H!Free(t) /\ walks[t] # <<>> /\ HInv
    BY EndersMayCall, CallersAreAlone DEF H!EndWalk, ListsInv
  <2>2. /\ \A u \in Thread : removing[u] = None
        /\ w.object \in Object \cap live
        /\ n \in 1 .. Len(walks[t]) /\ w = walks[t][n] /\ H!Here(t) = <<t, n>>
    <3>1. /\ \A u \in Thread : removing[u] = None
          /\ H!Walk(t).object \in Object \cap live
          /\ Len(walks[t]) \in 1 .. MaxWalks
      BY <2>1, WalkersFindRingsWhole
    <3>2. w = walks[t][n] /\ H!Here(t) = <<t, n>>
      BY DEF H!Walk, H!Here
    <3> QED
      BY <3>1, <3>2
  <2>3. Whole(next, prev, Ring(w.object)) /\ next[<<t, n>>] = w.object
    BY <2>1, <2>2, WalkersFindRingsWhole DEF H!EndWalk
  <2>4. GoesOn(next, Ring(w.object), <<t, n>>, w.object, w.due, w.called)
    BY <2>2, QuietRings DEF WalksGoOn, WalkGoesOn
  <2>5. <<t, n>> \in Ring(w.object) /\ w.object \in Ring(w.object) /\ w.called \in Seq(H!Node)
    BY <2>1, <2>2, WalksAreInRings
  <2>6. CalledOnce(w.called, l)
    BY <2>3, <2>4, <2>5, EndedGoesOn
  <2>7. DOMAIN w.called = 1 .. Len(w.called)
    BY <2>5
  <2>8. PICK i \in DOMAIN w.called : {k \in DOMAIN w.called : w.called[k] = l} = {i}
    BY <2>6, <2>7 DEF CalledOnce
  <2> QED
    BY <2>8
<1> QED
  BY <1>0, <1>1, <1>2, <1>3, ListsInvariant, PTL DEF OrderedSpec, CallsAreComplete

=============================================================================
