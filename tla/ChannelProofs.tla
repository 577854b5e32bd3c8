--------------------------- MODULE ChannelProofs ---------------------------
(***************************************************************************)
(* Proofs about Channel: the inductive invariant IInv, the safety          *)
(* invariants it contains, the action property about delivery, and the     *)
(* step simulation that makes the channel an implementation of Mailbox.    *)
(***************************************************************************)
EXTENDS Channel, TLAPS

(* Removing the head of a queue and appending it to what precedes it does  *)
(* not change the whole.                                                   *)
LEMMA MoveHead ==
  ASSUME NEW S, NEW d \in Seq(S), NEW q \in Seq(S), q # <<>>
  PROVE  /\ Head(q) \in S
         /\ Tail(q) \in Seq(S)
         /\ Append(d, Head(q)) \in Seq(S)
         /\ d \o q = Append(d, Head(q)) \o Tail(q)
  OBVIOUS

(* The members of a sequence after an append. *)
LEMMA AppendMembers ==
  ASSUME NEW S, NEW s \in Seq(S), NEW m \in S, NEW x
  PROVE  (\E i \in 1..Len(Append(s, m)) : Append(s, m)[i] = x)
           <=> (x = m \/ \E i \in 1..Len(s) : s[i] = x)
  OBVIOUS

-----------------------------------------------------------------------------
(* Type correctness: every value of every variable, over any run. *)
LEMMA InitType == Init => TypeOK
  BY DEF Init, TypeOK

LEMMA NextType == TypeOK /\ [Next]_vars => TypeOK'
<1> SUFFICES ASSUME TypeOK, [Next]_vars PROVE TypeOK'
  OBVIOUS
<1> USE DEF TypeOK
<1>1. ASSUME NEW t \in Thread, NEW m \in Message, CallSend(t, m) PROVE TypeOK'
  BY <1>1 DEF CallSend
<1>2. ASSUME NEW t \in Thread, LockForSend(t) PROVE TypeOK'
  BY <1>2 DEF LockForSend
<1>3. ASSUME NEW t \in Thread, Signal(t) PROVE TypeOK'
  BY <1>3 DEF Signal
<1>4. ASSUME NEW t \in Thread, SignalFails(t) PROVE TypeOK'
  BY <1>4 DEF SignalFails
<1>5. ASSUME NEW t \in Thread, Push(t) PROVE TypeOK'
  BY <1>5 DEF Push
<1>6. CASE Attach \/ Deattach \/ DropReceiver
  BY <1>6 DEF Attach, Deattach, DropReceiver, sendVars
<1>7. CASE Poll \/ LockForDispatch \/ ReadFails \/ CallbackReturns \/ EndDispatch
  BY <1>7 DEF Poll, LockForDispatch, ReadFails, CallbackReturns, EndDispatch,
              sendVars, Thread
<1>8. CASE Read
  BY <1>8 DEF Read, sendVars
<1>9. CASE CallCallback
  <2>1. Head(queue) \in Message /\ Tail(queue) \in Seq(Message)
    BY <1>9, MoveHead DEF CallCallback
  <2> QED
    BY <2>1, <1>9 DEF CallCallback, sendVars
<1>10. CASE UNCHANGED vars
  BY <1>10 DEF vars
<1> QED
  BY <1>1, <1>2, <1>3, <1>4, <1>5, <1>6, <1>7, <1>8, <1>9, <1>10
     DEF Next, SendStep, Dispatch, DispatchGoesOn

(* All variables keep their types for every set of messages and threads. *)
THEOREM TypeCorrect == Spec => []TypeOK
  BY InitType, NextType, PTL DEF Spec

-----------------------------------------------------------------------------
(* The inductive invariant, one lemma per conjunct that a step can disturb. *)
LEMMA InitInvariant == Init => IInv
<1> SUFFICES ASSUME Init PROVE IInv
  OBVIOUS
<1>1. TypeOK
  BY InitType
<1>2. FirstInFirstOut
  BY DEF Init, FirstInFirstOut
<1> QED
  BY <1>1, <1>2, ChannelAssumption
     DEF Init, IInv, DispatchAttached, SendsFromUserCode, MutexHeldByOne, LoopThreadOnce, InFlight, Signalled, NoLostWakeup,
         ReadNeverBlocks, OutcomeIsHonest, Dispatching, Thread

(* The mutex: only its holder is past lock(). *)
LEMMA NextMutex ==
  IInv /\ [Next]_vars => MutexHeldByOne' /\ LoopThreadOnce'
<1> SUFFICES ASSUME IInv, [Next]_vars PROVE MutexHeldByOne' /\ LoopThreadOnce'
  OBVIOUS
<1> USE ChannelAssumption
        DEF IInv, TypeOK, MutexHeldByOne, LoopThreadOnce, Dispatching, Thread
<1>1. ASSUME NEW t \in Thread, NEW m \in Message, CallSend(t, m)
      PROVE  MutexHeldByOne' /\ LoopThreadOnce'
  BY <1>1 DEF CallSend
<1>2. ASSUME NEW t \in Thread, LockForSend(t)
      PROVE  MutexHeldByOne' /\ LoopThreadOnce'
  BY <1>2 DEF LockForSend
<1>3. ASSUME NEW t \in Thread, Signal(t)
      PROVE  MutexHeldByOne' /\ LoopThreadOnce'
  BY <1>3 DEF Signal
<1>4. ASSUME NEW t \in Thread, SignalFails(t) \/ Push(t)
      PROVE  MutexHeldByOne' /\ LoopThreadOnce'
  BY <1>4 DEF SignalFails, Push
<1>5. CASE Attach \/ Deattach \/ DropReceiver
  BY <1>5 DEF Attach, Deattach, DropReceiver, sendVars
<1>6. CASE Poll \/ LockForDispatch
  BY <1>6 DEF Poll, LockForDispatch, sendVars, LoopThreadIdle
<1>7. CASE Read \/ ReadFails \/ CallCallback \/ CallbackReturns
  BY <1>7 DEF Read, ReadFails, CallCallback, CallbackReturns, sendVars
<1>8. CASE EndDispatch
  BY <1>8 DEF EndDispatch, sendVars
<1>9. CASE UNCHANGED vars
  BY <1>9 DEF vars
<1> QED
  BY <1>1, <1>2, <1>3, <1>4, <1>5, <1>6, <1>7, <1>8, <1>9
     DEF Next, SendStep, Dispatch, DispatchGoesOn

(* The IO source exists while its closure runs. *)
LEMMA NextAttached == IInv /\ [Next]_vars => DispatchAttached'
<1> SUFFICES ASSUME IInv, [Next]_vars PROVE DispatchAttached'
  OBVIOUS
<1> USE DEF IInv, DispatchAttached
<1>1. CASE UNCHANGED <<loopPc, rx>>
  BY <1>1
<1>2. CASE Attach \/ Deattach \/ DropReceiver
  BY <1>2 DEF Attach, Deattach, DropReceiver, LoopThreadIdle
<1>3. CASE Dispatch
  BY <1>3 DEF Dispatch, DispatchGoesOn, Poll, LockForDispatch, Read, ReadFails, CallCallback,
              CallbackReturns, EndDispatch
<1> QED
  BY <1>1, <1>2, <1>3
     DEF Next, SendStep, CallSend, LockForSend, Signal, SignalFails, Push, vars

(* The loop thread sends from user code only. *)
LEMMA NextUserCode == IInv /\ [Next]_vars => SendsFromUserCode'
<1> SUFFICES ASSUME IInv, [Next]_vars PROVE SendsFromUserCode'
  OBVIOUS
<1> USE ChannelAssumption
        DEF IInv, TypeOK, MutexHeldByOne, Dispatching, SendsFromUserCode, Thread
<1>1. ASSUME NEW t \in Thread, NEW m \in Message, CallSend(t, m)
      PROVE  SendsFromUserCode'
  BY <1>1 DEF CallSend, MayCallSend
<1>2. ASSUME NEW t \in Thread, SendStep(t) PROVE SendsFromUserCode'
  BY <1>2 DEF SendStep, LockForSend, Signal, SignalFails, Push
<1>3. CASE Attach \/ Deattach \/ DropReceiver \/ Poll
  BY <1>3 DEF Attach, Deattach, DropReceiver, Poll, LoopThreadIdle, sendVars
<1>4. CASE LockForDispatch \/ Read \/ ReadFails \/ CallCallback \/ CallbackReturns
             \/ EndDispatch
  BY <1>4 DEF LockForDispatch, Read, ReadFails, CallCallback, CallbackReturns,
              EndDispatch, sendVars
<1>5. CASE UNCHANGED vars
  BY <1>5 DEF vars
<1> QED
  BY <1>1, <1>2, <1>3, <1>4, <1>5 DEF Next, Dispatch, DispatchGoesOn

(* Each message is the business of one call of send. *)
LEMMA NextInFlight == IInv /\ [Next]_vars => InFlight'
<1> SUFFICES ASSUME IInv, [Next]_vars PROVE InFlight'
  OBVIOUS
<1> USE DEF IInv, TypeOK, InFlight
<1>1. ASSUME NEW t \in Thread, NEW m \in Message, CallSend(t, m) PROVE InFlight'
  BY <1>1 DEF CallSend
<1>2. ASSUME NEW t \in Thread, LockForSend(t) \/ Signal(t) PROVE InFlight'
  BY ZenonT(30), <1>2 DEF LockForSend, Signal
<1>3. ASSUME NEW t \in Thread, SignalFails(t) PROVE InFlight'
  BY <1>3 DEF SignalFails
<1>4. ASSUME NEW t \in Thread, Push(t) PROVE InFlight'
  BY <1>4 DEF Push
<1>5. CASE Attach \/ Deattach \/ DropReceiver \/ Dispatch
  BY <1>5 DEF Attach, Deattach, DropReceiver, Dispatch, DispatchGoesOn, Poll, LockForDispatch, Read,
              ReadFails, CallCallback, CallbackReturns, EndDispatch, sendVars
<1>6. CASE UNCHANGED vars
  BY <1>6 DEF vars
<1> QED
  BY <1>1, <1>2, <1>3, <1>4, <1>5, <1>6 DEF Next, SendStep

(* The byte in the pipe stands for the messages in the queue. *)
LEMMA NextWakeup ==
  IInv /\ [Next]_vars => Signalled' /\ NoLostWakeup' /\ ReadNeverBlocks'
<1> DEFINE Goal == Signalled /\ NoLostWakeup /\ ReadNeverBlocks
<1> SUFFICES ASSUME IInv, [Next]_vars PROVE Goal'
  OBVIOUS
<1> USE ChannelAssumption
    DEF IInv, TypeOK, MutexHeldByOne, LoopThreadOnce, Dispatching, Signalled,
        NoLostWakeup, ReadNeverBlocks, Thread
<1>1. ASSUME NEW t \in Thread, NEW m \in Message, CallSend(t, m) PROVE Goal'
  BY <1>1 DEF CallSend
<1>2. ASSUME NEW t \in Thread, LockForSend(t) PROVE Goal'
  BY <1>2 DEF LockForSend
<1>3. ASSUME NEW t \in Thread, Signal(t) PROVE Goal'
  BY <1>3 DEF Signal
<1>4. ASSUME NEW t \in Thread, SignalFails(t) PROVE Goal'
  BY <1>4 DEF SignalFails
<1>5. ASSUME NEW t \in Thread, Push(t) PROVE Goal'
  BY <1>5 DEF Push
<1>6. CASE Attach \/ Deattach \/ DropReceiver
  BY <1>6 DEF Attach, Deattach, DropReceiver, sendVars
<1>7. CASE Poll \/ LockForDispatch
  BY <1>7 DEF Poll, LockForDispatch, sendVars, LoopThreadIdle
<1>8. CASE Read \/ ReadFails
  BY <1>8 DEF Read, ReadFails, sendVars
<1>9. CASE CallCallback \/ CallbackReturns \/ EndDispatch
  BY <1>9 DEF CallCallback, CallbackReturns, EndDispatch, sendVars
<1>10. CASE UNCHANGED vars
  BY <1>10 DEF vars
<1> QED
  BY <1>1, <1>2, <1>3, <1>4, <1>5, <1>6, <1>7, <1>8, <1>9, <1>10
     DEF Next, SendStep, Dispatch, DispatchGoesOn

(* What was pushed is what was delivered, then what waits. *)
LEMMA NextFirstOut == IInv /\ [Next]_vars => FirstInFirstOut'
<1> SUFFICES ASSUME IInv, [Next]_vars PROVE FirstInFirstOut'
  OBVIOUS
<1> USE DEF FirstInFirstOut
<1>1. ASSUME NEW t \in Thread, Push(t) PROVE FirstInFirstOut'
  <2>1. queue \in Seq(Message) /\ delivered \in Seq(Message)
    BY DEF IInv, TypeOK
  <2>2. ASSUME NEW m \in Message
        PROVE  Append(delivered \o queue, m) = delivered \o Append(queue, m)
    BY <2>1
  <2>3. msg[t] \in Message /\ accepted = delivered \o queue
    BY DEF IInv, TypeOK
  <2> QED
    BY <1>1, <2>2, <2>3 DEF Push
<1>2. CASE CallCallback
  BY <1>2, MoveHead DEF CallCallback, sendVars, IInv, TypeOK
<1>3. CASE UNCHANGED <<queue, accepted, delivered>>
  BY <1>3 DEF IInv
<1>4. ASSUME NEW t \in Thread, SendStep(t), ~Push(t) PROVE FirstInFirstOut'
  BY <1>3, <1>4 DEF SendStep, LockForSend, Signal, SignalFails
<1>5. CASE Dispatch /\ ~CallCallback
  BY <1>3, <1>5 DEF Dispatch, DispatchGoesOn, Poll, LockForDispatch, Read, ReadFails, CallbackReturns,
                    EndDispatch, sendVars
<1>6. ASSUME NEW t \in Thread, NEW m \in Message, CallSend(t, m)
      PROVE  FirstInFirstOut'
  BY <1>3, <1>6 DEF CallSend
<1>7. CASE Attach \/ Deattach \/ DropReceiver
  BY <1>3, <1>7 DEF Attach, Deattach, DropReceiver, sendVars
<1>8. CASE UNCHANGED vars
  BY <1>3, <1>8 DEF vars
<1> HIDE DEF FirstInFirstOut
<1> QED
  BY <1>1, <1>2, <1>4, <1>5, <1>6, <1>7, <1>8 DEF Next

(* Ok is said of the messages that were pushed and of no others. *)
LEMMA NextHonest == IInv /\ [Next]_vars => OutcomeIsHonest'
<1> SUFFICES ASSUME IInv, [Next]_vars PROVE OutcomeIsHonest'
  OBVIOUS
<1> USE DEF IInv, TypeOK, OutcomeIsHonest, InFlight
<1>1. ASSUME NEW t \in Thread, NEW m \in Message, CallSend(t, m)
      PROVE  OutcomeIsHonest'
  BY <1>1 DEF CallSend
<1>2. ASSUME NEW t \in Thread, SignalFails(t) PROVE OutcomeIsHonest'
  BY <1>2 DEF SignalFails
<1>3. ASSUME NEW t \in Thread, Push(t) PROVE OutcomeIsHonest'
  <2> SUFFICES ASSUME NEW m \in Message
               PROVE  (outcome'[m] = "ok")
                        <=> (\E i \in 1..Len(accepted') : accepted'[i] = m)
    OBVIOUS
  <2>1. outcome'[m] = "ok" <=> (m = msg[t] \/ outcome[m] = "ok")
    BY <1>3 DEF Push
  <2>2. (\E i \in 1..Len(accepted') : accepted'[i] = m)
          <=> (m = msg[t] \/ \E i \in 1..Len(accepted) : accepted[i] = m)
    BY <1>3, AppendMembers DEF Push
  <2> QED
    BY <2>1, <2>2
<1>4. CASE UNCHANGED <<outcome, accepted>>
  BY <1>4
<1> QED
  BY <1>1, <1>2, <1>3, <1>4
     DEF Next, SendStep, Dispatch, DispatchGoesOn, LockForSend, Signal, Attach, Deattach, DropReceiver,
         Poll, LockForDispatch, Read, ReadFails, CallCallback, CallbackReturns,
         EndDispatch, sendVars, vars

(* IInv holds in every reachable state. *)
THEOREM Invariant == Spec => []IInv
<1>1. IInv /\ [Next]_vars => IInv'
  BY NextType, NextMutex, NextAttached, NextUserCode, NextInFlight, NextWakeup,
     NextFirstOut, NextHonest DEF IInv
<1> QED
  BY InitInvariant, <1>1, PTL DEF Spec

(* Every batch of messages has its byte in the pipe, and the dispatch that *)
(* reads it under the mutex never blocks.                                  *)
THEOREM WakeupNeverLost == Spec => [](NoLostWakeup /\ ReadNeverBlocks)
<1>1. IInv => NoLostWakeup /\ ReadNeverBlocks
  BY DEF IInv
<1> QED
  BY Invariant, <1>1, PTL

(* The callback sees the accepted messages in order, none lost or twice. *)
THEOREM DeliveryInOrder == Spec => []FirstInFirstOut
<1>1. IInv => FirstInFirstOut
  BY DEF IInv
<1> QED
  BY Invariant, <1>1, PTL

(* A message given back by send is never delivered too. *)
THEOREM HonestOutcome == Spec => []OutcomeIsHonest
<1>1. IInv => OutcomeIsHonest
  BY DEF IInv
<1> QED
  BY Invariant, <1>1, PTL

(* Mutual exclusion between the senders and the dispatch. *)
THEOREM MutualExclusion == Spec => []MutexHeldByOne
<1>1. IInv => MutexHeldByOne
  BY DEF IInv
<1> QED
  BY Invariant, <1>1, PTL

-----------------------------------------------------------------------------
(* A callback runs only between attach and deattach (or drop). *)
THEOREM NoDeliveryDetached == Spec => DeliveryNeedsAttachment
<1>1. IInv /\ [Next]_vars => [delivered' # delivered => rx = "attached"]_vars
  <2> SUFFICES ASSUME IInv, Next, delivered' # delivered PROVE rx = "attached"
    OBVIOUS
  <2>1. CallCallback
    BY DEF Next, SendStep, Dispatch, DispatchGoesOn, CallSend, LockForSend, Signal, SignalFails, Push,
           Attach, Deattach, DropReceiver, Poll, LockForDispatch, Read, ReadFails,
           CallbackReturns, EndDispatch
  <2> QED
    BY <2>1 DEF IInv, DispatchAttached, CallCallback
<1> QED
  BY Invariant, <1>1, PTL DEF Spec, DeliveryNeedsAttachment

(* The channel implements the mailbox: under the mapping of Mail every     *)
(* step accepts, refuses, hands over, opens, closes or stutters.           *)
LEMMA InitRefines == Init => Mail!MailInit
  BY DEF Init, LockedOut, Mail!MailInit

(* The callback that sends on its own channel closes the mailbox; nothing  *)
(* else locks the loop thread out, and nothing ends it.                    *)
LEMMA LockOut ==
  ASSUME IInv, [Next]_vars
  PROVE  \/ UNCHANGED LockedOut
         \/ /\ loopPc = "callback" /\ ~LockedOut /\ LockedOut'
            /\ \E m \in Message : CallSend(LoopThread, m)
<1> USE ChannelAssumption
        DEF IInv, TypeOK, MutexHeldByOne, Dispatching, SendsFromUserCode, LockedOut, Thread
<1>1. ASSUME NEW t \in Thread, NEW m \in Message, CallSend(t, m), t # LoopThread
      PROVE  UNCHANGED LockedOut
  BY <1>1 DEF CallSend
<1>2. ASSUME NEW m \in Message, CallSend(LoopThread, m), loopPc # "callback"
      PROVE  UNCHANGED LockedOut
  BY <1>2 DEF CallSend
<1>3. ASSUME NEW m \in Message, CallSend(LoopThread, m), loopPc = "callback"
      PROVE  ~LockedOut /\ LockedOut'
  BY <1>3 DEF CallSend
<1>4. ASSUME NEW t \in Thread, SendStep(t) PROVE UNCHANGED LockedOut
  BY <1>4 DEF SendStep, LockForSend, Signal, SignalFails, Push
<1>5. CASE Attach \/ Deattach \/ DropReceiver \/ Poll
  BY <1>5 DEF Attach, Deattach, DropReceiver, Poll, LoopThreadIdle, sendVars
<1>6. CASE LockForDispatch \/ Read \/ ReadFails \/ CallCallback \/ CallbackReturns
             \/ EndDispatch
  BY <1>6 DEF LockForDispatch, Read, ReadFails, CallCallback, CallbackReturns,
              EndDispatch, sendVars
<1>7. CASE UNCHANGED vars
  BY <1>7 DEF vars
<1> HIDE DEF LockedOut
<1> QED
  BY <1>1, <1>2, <1>3, <1>4, <1>5, <1>6, <1>7 DEF Next, Dispatch, DispatchGoesOn

LEMMA NextRefines ==
  IInv /\ [Next]_vars => [Mail!MailNext]_(Mail!mailVars)
<1> SUFFICES ASSUME IInv, [Next]_vars PROVE [Mail!MailNext]_(Mail!mailVars)
  OBVIOUS
<1> DEFINE Refused == {m \in Message : outcome[m] = "err"}
<1> USE DEF IInv, TypeOK, InFlight
<1>1. ASSUME NEW t \in Thread, SignalFails(t), UNCHANGED LockedOut PROVE Mail!MailNext
  <2> PICK m \in Message : m = msg[t]
    OBVIOUS
  <2>1. m \notin Refused
    BY <1>1 DEF SignalFails
  <2>2. Refused' = Refused \cup {m}
    BY <1>1 DEF SignalFails
  <2>3. Mail!Refuse(m)
    BY <1>1, <2>1, <2>2 DEF SignalFails, Mail!Refuse
  <2> QED
    BY <2>3 DEF Mail!MailNext
<1>2. ASSUME NEW t \in Thread, Push(t), UNCHANGED LockedOut PROVE Mail!MailNext
  <2> PICK m \in Message : m = msg[t]
    OBVIOUS
  <2>1. Refused' = Refused
    BY <1>2 DEF Push
  <2>2. Mail!Accept(m)
    BY <1>2, <2>1 DEF Push, Mail!Accept
  <2> QED
    BY <2>2 DEF Mail!MailNext
<1>3. ASSUME NEW t \in Thread, NEW m \in Message, CallSend(t, m)
      PROVE  [Mail!MailNext]_(Mail!mailVars)
  <2>1. Refused' = Refused /\ UNCHANGED <<queue, delivered, rx>>
    BY <1>3 DEF CallSend
  <2>2. CASE UNCHANGED LockedOut
    BY <2>1, <2>2 DEF Mail!mailVars
  <2>3. CASE loopPc = "callback" /\ ~LockedOut /\ LockedOut'
    BY <2>1, <2>3 DEF DispatchAttached, Mail!OpenOrClose, Mail!MailNext
  <2> QED
    BY <2>2, <2>3, LockOut
<1>4. CASE CallCallback
  BY <1>4 DEF CallCallback, DispatchAttached, SendsFromUserCode, LockedOut, sendVars,
              Mail!HandOver, Mail!MailNext
<1>5. CASE Attach \/ Deattach \/ DropReceiver
  BY <1>5 DEF Attach, Deattach, DropReceiver, LoopThreadIdle, LockedOut, sendVars,
              Mail!OpenOrClose, Mail!MailNext, Mail!mailVars
<1>6. CASE UNCHANGED <<queue, delivered, outcome, rx, LockedOut>>
  BY <1>6 DEF Mail!mailVars
<1>7. CASE Dispatch /\ ~CallCallback
  <2>1. UNCHANGED <<queue, delivered, outcome, rx, pc>>
    BY <1>7 DEF Dispatch, DispatchGoesOn, Poll, LockForDispatch, Read, ReadFails,
                CallbackReturns, EndDispatch, sendVars
  <2>2. UNCHANGED LockedOut
    BY <2>1, LockOut DEF LockedOut, CallSend
  <2> QED
    BY <1>6, <2>1, <2>2
<1>8. ASSUME NEW t \in Thread, SendStep(t) PROVE [Mail!MailNext]_(Mail!mailVars)
  <2>1. UNCHANGED loopPc /\ pc[t] # "idle" /\ (pc'[t] # "lock" \/ UNCHANGED pc)
    BY <1>8 DEF SendStep, LockForSend, Signal, SignalFails, Push
  <2>2. UNCHANGED LockedOut
    BY <1>8, LockOut DEF SendStep, LockForSend, Signal, SignalFails, Push, CallSend
  <2>3. CASE LockForSend(t) \/ Signal(t)
    BY <1>6, <2>2, <2>3 DEF LockForSend, Signal
  <2> QED
    BY <1>1, <1>2, <1>8, <2>2, <2>3 DEF SendStep
<1>9. CASE UNCHANGED vars
  BY <1>6, <1>9 DEF vars, LockedOut
<1> QED
  BY <1>3, <1>4, <1>5, <1>7, <1>8, <1>9 DEF Next

THEOREM Refinement == Spec => ImplementsMailbox
  BY InitRefines, NextRefines, Invariant, PTL
     DEF Spec, ImplementsMailbox, Mail!MailSpec
=============================================================================
