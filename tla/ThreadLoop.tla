------------------------------ MODULE ThreadLoop ------------------------------
(***************************************************************************)
(* A threaded loop: a thread that iterates a loop, holding a recursive     *)
(* lock except while it polls, and the program's threads that take the     *)
(* lock through guards, wait for the loop's answers with the lock          *)
(* released, accept what a callback signalled, and start and stop it.      *)
(* The mutex, the condition variables and the thread are the library's.    *)
(***************************************************************************)
EXTENDS Naturals

CONSTANTS
  App,                 \* the program's threads
  Loop,                \* the loop's thread
  Nobody,
  MaxGuards,           \* bound on nested guards of one thread
  MaxCalls,            \* bound on the calls, requests, timeouts and starts of
                       \* each program thread
  MaxArrivals          \* bound on the loop's wakeups of other origin

ASSUME ThreadLoopAssumption ==
  /\ Loop \notin App /\ Nobody \notin App \cup {Loop}
  /\ MaxGuards \in Nat \ {0} /\ MaxCalls \in Nat /\ MaxArrivals \in Nat

Thread == App \cup {Loop}

VARIABLES
  owner, depth,        \* the recursive mutex
  guards,              \* of each program thread, its ThreadLoopLockGuards
  calls,               \* of each program thread, how many it may still make
  arrivals,            \* how many wakeups are still to come
  pc,                  \* where each program thread is
  loopPc,              \* where the loop's thread is
  stopping,            \* the loop was told to leave
  request,             \* of each program thread: none, asked, answered
  wantsAccept,         \* of each program thread: its answer must be accepted
  unaccepted           \* the library's n_waiting_for_accept

loopVars == <<owner, depth, guards, calls, arrivals, pc, loopPc, stopping, request,
              wantsAccept, unaccepted>>

LoopInit ==
  /\ owner = Nobody /\ depth = 0
  /\ guards = [t \in App |-> 0]
  /\ calls = [t \in App |-> MaxCalls]
  /\ arrivals = MaxArrivals
  /\ pc = [t \in App |-> "runs"]
  /\ loopPc = "off"
  /\ stopping = FALSE
  /\ request = [t \in App |-> "none"]
  /\ wantsAccept = [t \in App |-> FALSE]
  /\ unaccepted = 0

Locked(t) == pc[t] = "runs" /\ guards[t] > 0

(* A program does not leave with an answer it holds a callback up with. *)
TookAnswer(t) == guards[t] = 1 => request[t] # "answered" /\ ~wantsAccept[t]

Spend(t) == calls[t] > 0 /\ calls' = [calls EXCEPT ![t] = @ - 1]

-----------------------------------------------------------------------------
(* Guards. *)

(* Mutant: the guard is made without taking the lock. *)
LockUntaken(t) ==
  /\ pc[t] = "runs" /\ guards[t] < MaxGuards
  /\ Spend(t)
  /\ guards' = [guards EXCEPT ![t] = @ + 1]
  /\ UNCHANGED <<owner, depth, pc, loopPc, stopping, request, wantsAccept, unaccepted, arrivals>>

(* ThreadLoopLockGuard::new. *)
Lock(t) ==
  /\ pc[t] = "runs" /\ guards[t] < MaxGuards
  /\ Spend(t)
  /\ owner \in {Nobody, t}
  /\ owner' = t
  /\ depth' = depth + 1
  /\ guards' = [guards EXCEPT ![t] = @ + 1]
  /\ UNCHANGED <<pc, loopPc, stopping, request, wantsAccept, unaccepted, arrivals>>

(* Mutant: only unlock() gives the lock back, a guard that goes out of     *)
(* scope does not.                                                         *)
UnlockForgotten(t) ==
  /\ Locked(t) /\ TookAnswer(t)
  /\ guards' = [guards EXCEPT ![t] = @ - 1]
  /\ UNCHANGED <<owner, depth, calls, pc, loopPc, stopping, request, wantsAccept, unaccepted, arrivals>>

(* Drop of a guard. *)
Unlock(t) ==
  /\ Locked(t) /\ TookAnswer(t)
  /\ guards' = [guards EXCEPT ![t] = @ - 1]
  /\ IF owner # t THEN UNCHANGED <<owner, depth>>
     ELSE /\ depth' = depth - 1
          /\ owner' = IF depth = 1 THEN Nobody ELSE owner
  /\ UNCHANGED <<calls, pc, loopPc, stopping, request, wantsAccept, unaccepted, arrivals>>

-----------------------------------------------------------------------------
(* A program thread asks for something a callback will answer, and waits.  *)

(* Some method call; with accept, the callback holds on until the thread   *)
(* has taken its answer.                                                   *)
Ask(t, accept) ==
  /\ Locked(t)
  /\ request[t] = "none" /\ loopPc # "off" /\ ~stopping
  /\ Spend(t)
  /\ request' = [request EXCEPT ![t] = "asked"]
  /\ wantsAccept' = [wantsAccept EXCEPT ![t] = accept]
  /\ UNCHANGED <<owner, depth, guards, pc, loopPc, stopping, unaccepted, arrivals>>

(* The lock is released once, so a thread that waits has one guard. *)
Sleep(t, how) ==
  /\ Locked(t) /\ guards[t] = 1
  /\ request[t] = "asked"
  /\ pc' = [pc EXCEPT ![t] = how]
  /\ owner' = Nobody /\ depth' = 0
  /\ UNCHANGED <<guards, calls, loopPc, stopping, request, wantsAccept, unaccepted, arrivals>>

Wait(t) == Sleep(t, "waits")

(* timed_wait and timed_wait_full; what the library returns is not told.  *)
TimedWait(t) == ~wantsAccept[t] /\ Sleep(t, "waits_timed")

WaitTimesOut(t) ==
  /\ pc[t] = "waits_timed"
  /\ Spend(t)
  /\ pc' = [pc EXCEPT ![t] = "woken"]
  /\ UNCHANGED <<owner, depth, guards, loopPc, stopping, request, wantsAccept, unaccepted, arrivals>>

WaitReturns(t) ==
  /\ pc[t] = "woken" /\ owner = Nobody
  /\ pc' = [pc EXCEPT ![t] = "runs"]
  /\ owner' = t /\ depth' = 1
  /\ UNCHANGED <<guards, calls, loopPc, stopping, request, wantsAccept, unaccepted, arrivals>>

(* The thread takes its answer and, if the callback holds on, lets it go:  *)
(* accept.                                                                 *)
Accept(t) ==
  /\ Locked(t) /\ request[t] = "answered"
  /\ request' = [request EXCEPT ![t] = "none"]
  /\ wantsAccept' = [wantsAccept EXCEPT ![t] = FALSE]
  /\ unaccepted' = IF wantsAccept[t] THEN unaccepted - 1 ELSE unaccepted
  /\ UNCHANGED <<owner, depth, guards, calls, pc, loopPc, stopping, arrivals>>

-----------------------------------------------------------------------------
(* start, stop and Drop of the owner. *)

Start(t) ==
  /\ pc[t] = "runs" /\ loopPc = "off"
  /\ \A u \in App : pc[u] # "joins"
  /\ loopPc' = "polls" /\ stopping' = FALSE
  /\ UNCHANGED <<owner, depth, guards, calls, pc, request, wantsAccept, unaccepted, arrivals>>

(* The program stops the loop when it waits for nothing; nothing keeps it  *)
(* from doing so with the lock held, which the documentation forbids.      *)
Stop(t) ==
  /\ pc[t] = "runs" /\ loopPc # "off" /\ ~stopping
  /\ \A u \in App : request[u] = "none"
  /\ stopping' = TRUE
  /\ pc' = [pc EXCEPT ![t] = "joins"]
  /\ UNCHANGED <<owner, depth, guards, calls, loopPc, request, wantsAccept, unaccepted, arrivals>>

StopReturns(t) ==
  /\ pc[t] = "joins" /\ loopPc = "left"
  /\ pc' = [pc EXCEPT ![t] = "runs"]
  /\ loopPc' = "off" /\ stopping' = FALSE
  /\ UNCHANGED <<owner, depth, guards, calls, request, wantsAccept, unaccepted, arrivals>>

-----------------------------------------------------------------------------
(* The loop's thread. *)

Pending == \E t \in App : request[t] = "asked"

Wakes ==
  /\ loopPc = "polls" /\ owner = Nobody
  /\ \/ /\ stopping \/ Pending
        /\ UNCHANGED arrivals
     \/ /\ arrivals > 0
        /\ arrivals' = arrivals - 1
  /\ owner' = Loop /\ depth' = 1
  /\ loopPc' = "dispatches"
  /\ UNCHANGED <<guards, calls, pc, stopping, request, wantsAccept, unaccepted>>

(* signal: every waiter wakes. *)
Woken == [t \in App |-> IF pc[t] \in {"waits", "waits_timed"} THEN "woken" ELSE pc[t]]

(* A callback answers thread t and signals; if t is to accept, it waits    *)
(* with the lock released.                                                 *)
Answer(t) ==
  /\ loopPc = "dispatches"
  /\ request[t] = "asked"
  /\ request' = [request EXCEPT ![t] = "answered"]
  /\ pc' = Woken
  /\ IF wantsAccept[t]
     THEN /\ unaccepted' = unaccepted + 1
          /\ loopPc' = "holds_on"
          /\ owner' = Nobody /\ depth' = 0
     ELSE UNCHANGED <<unaccepted, loopPc, owner, depth>>
  /\ UNCHANGED <<guards, calls, stopping, wantsAccept, arrivals>>

Accepted ==
  /\ loopPc = "holds_on" /\ unaccepted = 0 /\ owner = Nobody
  /\ loopPc' = "dispatches"
  /\ owner' = Loop /\ depth' = 1
  /\ UNCHANGED <<guards, calls, pc, stopping, request, wantsAccept, unaccepted, arrivals>>

(* Back to the poll, or out of the thread, with every answer given. *)
Polls ==
  /\ loopPc = "dispatches" /\ ~Pending
  /\ loopPc' = IF stopping THEN "left" ELSE "polls"
  /\ owner' = Nobody /\ depth' = 0
  /\ UNCHANGED <<guards, calls, pc, stopping, request, wantsAccept, unaccepted, arrivals>>

=============================================================================
