------------------------------ MODULE Channel ------------------------------
(***************************************************************************)
(* The cross-thread channel of pipewire/src/channel.rs.                    *)
(*                                                                         *)
(* Any thread that owns a clone of the Sender pushes messages into a queue *)
(* behind a mutex; a pipe, registered as an IO source of an event loop,    *)
(* tells the loop thread that the queue is not empty.  One byte is written *)
(* only when the queue was empty, one byte is read per dispatch, and the   *)
(* whole queue is drained into the callback while the mutex is held.       *)
(*                                                                         *)
(* Every step another thread can observe is an action: taking the mutex,   *)
(* writing to the pipe (poll sees it before the message is pushed),        *)
(* pushing and unlocking, reading, and each call of the callback.          *)
(***************************************************************************)
EXTENDS Naturals, Sequences

CONSTANTS
  Message,             \* the values that can be sent; each is sent once
  Sender,              \* the threads other than the loop's that own a Sender
  LoopThread,          \* the thread that runs the loop
  Free                 \* the mutex is not held

Thread == Sender \cup {LoopThread}

ASSUME ChannelAssumption ==
  /\ LoopThread \notin Sender
  /\ Free \notin Thread

VARIABLES
  lock,                \* the holder of Mutex<Channel<T>>
  queue,               \* Channel.queue
  bytes,               \* the bytes in the pipe
  rx,                  \* the Receiver: detached, attached to a loop, dropped
  pc,                  \* where each thread is in Sender::send
  msg,                 \* the argument of the send each thread executes
  loopPc,              \* where the loop thread is in the IO callback
  outcome,             \* per message: not sent, being sent, Ok or Err(t)
  accepted,            \* history: the messages pushed, in order
  delivered            \* history: the messages the callback got, in order

sendVars == <<pc, msg, outcome, accepted>>
vars == <<lock, queue, bytes, rx, pc, msg, loopPc, outcome, accepted, delivered>>

-----------------------------------------------------------------------------
(* channel(): a fresh pipe, an empty queue, a receiver not yet attached.   *)
Init ==
  /\ lock = Free
  /\ queue = <<>>
  /\ bytes = 0
  /\ rx = "detached"
  /\ pc = [t \in Thread |-> "idle"]
  /\ msg \in [Thread -> Message]
  /\ loopPc = "idle"
  /\ outcome = [m \in Message |-> "unsent"]
  /\ accepted = <<>>
  /\ delivered = <<>>

-----------------------------------------------------------------------------
(* Sender::send                                                            *)

(* A thread other than the loop's may call send at any time; the loop      *)
(* thread whenever user code runs on it: outside the dispatch (another     *)
(* source's callback) and inside the channel's own callback.               *)
MayCallSend(t) == t = LoopThread => loopPc \in {"idle", "callback"}

(* send is called and has to wait for the mutex. *)
CallSend(t, m) ==
  /\ pc[t] = "idle"
  /\ MayCallSend(t)
  /\ outcome[m] = "unsent"
  /\ pc' = [pc EXCEPT ![t] = "lock"]
  /\ msg' = [msg EXCEPT ![t] = m]
  /\ outcome' = [outcome EXCEPT ![m] = "sending"]
  /\ UNCHANGED <<lock, queue, bytes, rx, loopPc, accepted, delivered>>

(* self.channel.lock() returns the guard. *)
LockForSend(t) ==
  /\ pc[t] = "lock"
  /\ lock = Free
  /\ lock' = t
  /\ pc' = [pc EXCEPT ![t] = "signal"]
  /\ UNCHANGED <<queue, bytes, rx, msg, loopPc, outcome, accepted, delivered>>

(* "If no messages are waiting already, signal the receiver to read some." *)
(* The write is visible to the loop's poll at once.                        *)
Signal(t) ==
  /\ pc[t] = "signal"
  /\ bytes' = IF queue = <<>> THEN bytes + 1 ELSE bytes
  /\ pc' = [pc EXCEPT ![t] = "push"]
  /\ UNCHANGED <<lock, queue, rx, msg, loopPc, outcome, accepted, delivered>>

(* Mutant: the result of write is ignored and the message is pushed. *)
SignalFailureIgnored(t) ==
  /\ pc[t] = "signal"
  /\ queue = <<>>
  /\ pc' = [pc EXCEPT ![t] = "push"]
  /\ UNCHANGED <<lock, queue, bytes, rx, msg, loopPc, outcome, accepted, delivered>>

(* Mutant: the message is queued first and returned with the error. *)
SignalFailsAfterPush(t) ==
  /\ pc[t] = "signal"
  /\ queue = <<>>
  /\ lock' = Free
  /\ queue' = <<msg[t]>>
  /\ accepted' = Append(accepted, msg[t])
  /\ pc' = [pc EXCEPT ![t] = "idle"]
  /\ outcome' = [outcome EXCEPT ![msg[t]] = "err"]
  /\ UNCHANGED <<bytes, rx, msg, loopPc, delivered>>

(* The write fails: the message goes back to the caller, nothing is pushed *)
(* and the guard is dropped on return.                                     *)
SignalFails(t) ==
  /\ pc[t] = "signal"
  /\ queue = <<>>
  /\ lock' = Free
  /\ pc' = [pc EXCEPT ![t] = "idle"]
  /\ outcome' = [outcome EXCEPT ![msg[t]] = "err"]
  /\ UNCHANGED <<queue, bytes, rx, msg, loopPc, accepted, delivered>>

(* queue.push_back(t), Ok(()), and the guard is dropped on return. *)
Push(t) ==
  /\ pc[t] = "push"
  /\ queue' = Append(queue, msg[t])
  /\ accepted' = Append(accepted, msg[t])
  /\ lock' = Free
  /\ pc' = [pc EXCEPT ![t] = "idle"]
  /\ outcome' = [outcome EXCEPT ![msg[t]] = "ok"]
  /\ UNCHANGED <<bytes, rx, msg, loopPc, delivered>>

-----------------------------------------------------------------------------
(* The receiver.  AttachedReceiver and Receiver stay on the loop's thread, *)
(* so they are attached, detached and dropped between its iterations.      *)

LoopThreadIdle == loopPc = "idle" /\ pc[LoopThread] = "idle"

(* Receiver::attach: the fd is read under the mutex, then registered. *)
Attach ==
  /\ LoopThreadIdle
  /\ rx = "detached"
  /\ lock = Free
  /\ rx' = "attached"
  /\ UNCHANGED <<lock, queue, bytes, loopPc, delivered, sendVars>>

(* AttachedReceiver::deattach: the IO source is destroyed, the channel is  *)
(* kept with whatever its queue and its pipe hold.                         *)
Deattach ==
  /\ LoopThreadIdle
  /\ rx = "attached"
  /\ rx' = "detached"
  /\ UNCHANGED <<lock, queue, bytes, loopPc, delivered, sendVars>>

(* The (attached) receiver is dropped.  The queue and both ends of the     *)
(* pipe live on as long as a Sender does.                                  *)
DropReceiver ==
  /\ LoopThreadIdle
  /\ rx # "dropped"
  /\ rx' = "dropped"
  /\ UNCHANGED <<lock, queue, bytes, loopPc, delivered, sendVars>>

(* Mutant: the closure runs on a readiness that is stale. *)
PollStale ==
  /\ LoopThreadIdle
  /\ rx = "attached"
  /\ loopPc' = "lock"
  /\ UNCHANGED <<lock, queue, bytes, rx, delivered, sendVars>>

(* The loop polls the fd readable and calls the source's closure. *)
Poll ==
  /\ LoopThreadIdle
  /\ rx = "attached"
  /\ bytes > 0
  /\ loopPc' = "lock"
  /\ UNCHANGED <<lock, queue, bytes, rx, delivered, sendVars>>

(* channel.lock() in the closure. *)
LockForDispatch ==
  /\ loopPc = "lock"
  /\ lock = Free
  /\ lock' = LoopThread
  /\ loopPc' = "read"
  /\ UNCHANGED <<queue, bytes, rx, delivered, sendVars>>

(* read(&readfd, &mut [0]): blocks while the pipe is empty. *)
Read ==
  /\ loopPc = "read"
  /\ bytes > 0
  /\ bytes' = bytes - 1
  /\ loopPc' = "drain"
  /\ UNCHANGED <<lock, queue, rx, delivered, sendVars>>

(* The result of read is discarded: an error leaves the byte in the pipe. *)
ReadFails ==
  /\ loopPc = "read"
  /\ loopPc' = "drain"
  /\ UNCHANGED <<lock, queue, bytes, rx, delivered, sendVars>>

(* queue.drain(..).for_each(&callback): the callback is called with the    *)
(* next message, the mutex still held.                                     *)
CallCallback ==
  /\ loopPc = "drain"
  /\ queue # <<>>
  /\ queue' = Tail(queue)
  /\ delivered' = Append(delivered, Head(queue))
  /\ loopPc' = "callback"
  /\ UNCHANGED <<lock, bytes, rx, sendVars>>

(* The callback returns to the drain. *)
CallbackReturns ==
  /\ loopPc = "callback"
  /\ pc[LoopThread] = "idle"
  /\ loopPc' = "drain"
  /\ UNCHANGED <<lock, queue, bytes, rx, delivered, sendVars>>

(* Mutant: a dispatch may stop before the queue is empty. *)
EndDispatchEarly ==
  /\ loopPc = "drain"
  /\ lock' = Free
  /\ loopPc' = "idle"
  /\ UNCHANGED <<queue, bytes, rx, delivered, sendVars>>

(* The drain is exhausted and the closure drops the guard. *)
EndDispatch ==
  /\ loopPc = "drain"
  /\ queue = <<>>
  /\ lock' = Free
  /\ loopPc' = "idle"
  /\ UNCHANGED <<queue, bytes, rx, delivered, sendVars>>

-----------------------------------------------------------------------------
SendStep(t) == LockForSend(t) \/ Signal(t) \/ SignalFails(t) \/ Push(t)

(* The closure's way through a dispatch when its read does not fail. *)
DispatchGoesOn ==
  Poll \/ LockForDispatch \/ Read \/ CallCallback \/ CallbackReturns \/ EndDispatch

Dispatch == DispatchGoesOn \/ ReadFails

Next ==
  \/ \E t \in Thread : SendStep(t) \/ \E m \in Message : CallSend(t, m)
  \/ Attach \/ Deattach \/ DropReceiver
  \/ Dispatch

Spec == Init /\ [][Next]_vars

(* A thread that is inside send keeps running, the loop keeps iterating,   *)
(* callbacks return unless they wait for the mutex, and a read of a        *)
(* readable pipe does not fail forever.  No read has to fail: one that     *)
(* finds the pipe empty may wait forever.  Nobody has to send, attach or   *)
(* detach.                                                                 *)
FairSpec ==
  /\ Spec
  /\ \A t \in Thread : WF_vars(SendStep(t))
  /\ WF_vars(DispatchGoesOn)
  /\ SF_vars(Read)

-----------------------------------------------------------------------------
(* Properties                                                              *)

TypeOK ==
  /\ lock \in Thread \cup {Free}
  /\ queue \in Seq(Message)
  /\ bytes \in Nat
  /\ rx \in {"detached", "attached", "dropped"}
  /\ pc \in [Thread -> {"idle", "lock", "signal", "push"}]
  /\ msg \in [Thread -> Message]
  /\ loopPc \in {"idle", "lock", "read", "drain", "callback"}
  /\ outcome \in [Message -> {"unsent", "sending", "ok", "err"}]
  /\ accepted \in Seq(Message)
  /\ delivered \in Seq(Message)

(* The dispatch of the IO source: the loop thread is between the lock and  *)
(* the drop of the guard in the closure of attach.                         *)
Dispatching == loopPc \in {"read", "drain", "callback"}

(* No wakeup is lost: whenever messages wait, the pipe holds a byte, so    *)
(* the loop's next poll returns.  Only the dispatch that has read the byte *)
(* and is draining the queue may see one without the other.  This is the   *)
(* comment "it is alright to do this before pushing the message".          *)
NoLostWakeup == queue # <<>> /\ ~Dispatching => bytes > 0

(* The blocking read of the closure, executed with the mutex held, always  *)
(* finds a byte: the loop and all senders would hang otherwise.            *)
ReadNeverBlocks == loopPc \in {"lock", "read"} => bytes > 0

(* Messages reach the callback in the order they were pushed, none lost,   *)
(* none twice, over any number of attach and deattach.                     *)
FirstInFirstOut == accepted = delivered \o queue

(* A message that send gave back to its caller is never handed to the      *)
(* callback as well, and one it reported Ok is in the channel.             *)
OutcomeIsHonest ==
  \A m \in Message :
    (outcome[m] = "ok") <=> (\E i \in 1..Len(accepted) : accepted[i] = m)

(* Exactly the thread between lock() and the drop of its guard has the     *)
(* mutex, and there is one at most.                                        *)
MutexHeldByOne ==
  \A t \in Thread :
    (lock = t) <=> \/ pc[t] \in {"signal", "push"}
                   \/ t = LoopThread /\ Dispatching

(* What the invariants above rest on.  A message in flight belongs to one  *)
(* call of send; a sender about to push has left a byte in the pipe; only  *)
(* an attached receiver is dispatched; the loop thread is never inside     *)
(* send and inside a dispatch with the mutex.                              *)
InFlight ==
  /\ \A t \in Thread : pc[t] # "idle" => outcome[msg[t]] = "sending"
  /\ \A t, u \in Thread :
       pc[t] # "idle" /\ pc[u] # "idle" /\ t # u => msg[t] # msg[u]

(* The loop thread calls send before it polls or from inside the callback, *)
(* at no other point of a dispatch.                                        *)
SendsFromUserCode ==
  loopPc \in {"lock", "read", "drain"} => pc[LoopThread] = "idle"

Signalled == \A t \in Thread : pc[t] = "push" => bytes > 0

DispatchAttached == loopPc # "idle" => rx = "attached"

LoopThreadOnce == ~(pc[LoopThread] \in {"signal", "push"} /\ Dispatching)

(* The inductive invariant. *)
IInv ==
  /\ TypeOK
  /\ MutexHeldByOne
  /\ LoopThreadOnce
  /\ SendsFromUserCode
  /\ InFlight
  /\ DispatchAttached
  /\ Signalled
  /\ NoLostWakeup
  /\ ReadNeverBlocks
  /\ FirstInFirstOut
  /\ OutcomeIsHonest

(* Nothing is delivered unless a receiver is attached: deattach and drop   *)
(* stop the callback at once.                                              *)
DeliveryNeedsAttachment == [][delivered' # delivered => rx = "attached"]_vars

(* The channel's own callback has called send.  It runs with the mutex     *)
(* held, so it waits for a guard that only its own return would drop, and  *)
(* from then on neither the loop nor any sender gets on.                   *)
LockedOut == loopPc = "callback" /\ pc[LoopThread] = "lock"

(* Every call of send returns to its caller, Ok or Err, unless the         *)
(* channel's own callback sends: whatever else the senders, the dispatch,  *)
(* the failing writes and reads and the receiver's owner do, nobody waits  *)
(* on the mutex or on the pipe for good.                                   *)
SendHangsOnlyIfCallbackSends ==
  \A t \in Thread : (pc[t] # "idle") ~> (pc[t] = "idle" \/ LockedOut)

(* The channel implements the mailbox: it is open while the receiver is    *)
(* attached, until the callback locks itself out.                          *)
Mail == INSTANCE Mailbox WITH
          inbox    <- queue,
          received <- delivered,
          refused  <- {m \in Message : outcome[m] = "err"},
          open     <- rx = "attached" /\ ~LockedOut

ImplementsMailbox == Mail!MailSpec
ImplementsFairMailbox == Mail!MailFairSpec
=============================================================================
