-------------------------- MODULE ThreadedListeners --------------------------
(***************************************************************************)
(* A threaded loop and the hook lists of the objects that belong to it:    *)
(* the loop's thread walks the lists while it dispatches, the program's    *)
(* threads register and drop listeners, load and drop modules and make     *)
(* calls that emit events, each with a guard in its hands.                 *)
(***************************************************************************)
EXTENDS ThreadLoop, FiniteSets

CONSTANTS Object, Listener, Of, Module, MaxWalks, MaxEvents, None

VARIABLES next, prev, live, walks, removing, module, destroyed, dangling, events

H == INSTANCE HookList WITH Caller <- Thread

ASSUME ThreadedListenersAssumption == H!HookListAssumption
ASSUME FinitelyMany == IsFiniteSet(App) /\ IsFiniteSet(Object) /\ IsFiniteSet(Listener)

listVars == <<next, prev, live, walks, removing, module, destroyed, dangling,
              events>>

vars == <<loopVars, listVars>>

Init == LoopInit /\ H!HookInit

-----------------------------------------------------------------------------
(* Between two calls a thread is in no list. *)
OutOfLists(t) == walks[t] = <<>> /\ removing[t] = None

InCallback(t) == walks[t] # <<>> /\ H!Calls(t)

ProgramStep(t) ==
  \/ Lock(t)
  \/ OutOfLists(t) /\ Unlock(t)
  \/ OutOfLists(t) /\ \E accept \in BOOLEAN : Ask(t, accept)
  \/ OutOfLists(t) /\ Wait(t)
  \/ OutOfLists(t) /\ TimedWait(t)
  \/ WaitTimesOut(t)
  \/ WaitReturns(t)
  \/ Accept(t)
  \/ OutOfLists(t) /\ Start(t)
  \/ OutOfLists(t) /\ Stop(t)
  \/ StopReturns(t)

(* The loop's thread answers from its dispatch or from within a callback   *)
(* of a listener; it leaves the dispatch when it is out of every list.     *)
LoopStep ==
  \/ Wakes
  \/ \E t \in App : (OutOfLists(Loop) \/ InCallback(Loop)) /\ Answer(t)
  \/ Accepted
  \/ OutOfLists(Loop) /\ Polls

(* A thread is in the lists only while it may use the loop's objects: with *)
(* a guard, or in a dispatch.                                              *)
MayCall(t) == IF t = Loop THEN loopPc = "dispatches" ELSE Locked(t)

ListStep(t) == MayCall(t) /\ H!HookStep(t)

Next ==
  \/ (LoopStep \/ \E t \in App : ProgramStep(t)) /\ UNCHANGED listVars
  \/ (\E t \in Thread : ListStep(t)) /\ UNCHANGED loopVars

Spec == Init /\ [][Next]_vars

(* A discipline of the program, which neither the types nor the            *)
(* documentation of the listeners ask of it: no object is dropped before   *)
(* the listeners registered with it.                                       *)
ListenersGoFirst ==
  \A l \in Listener \cap live : Of[l] \notin Module => Of[l] \in live

OrderedNext == Next /\ ListenersGoFirst'

OrderedSpec == Init /\ [][OrderedNext]_vars

(* A lock that is free is got by a thread that wants it back; walks and    *)
(* critical sections end, and a thread that asked for an answer to accept  *)
(* waits for it: nobody keeps the lock for ever, as the documentation of   *)
(* lock asks.  The other calls are the program's to make or not.           *)
Due(t) ==
  \/ WaitReturns(t) \/ StopReturns(t) \/ Accept(t)
  \/ OutOfLists(t) /\ (Unlock(t) \/ Wait(t))

LeavesLists(t) ==
  MayCall(t) /\ (H!FinishRemove(t) \/ H!Call(t) \/ H!EndWalk(t))

Fairness ==
  /\ \A t \in App : WF_vars(Due(t) /\ UNCHANGED listVars)
  /\ WF_vars(LoopStep /\ UNCHANGED listVars)
  /\ \A t \in Thread : WF_vars(LeavesLists(t) /\ UNCHANGED loopVars)

FairSpec == Spec /\ Fairness

-----------------------------------------------------------------------------
(* Properties. *)

TypeOK ==
  /\ owner \in Thread \cup {Nobody} /\ depth \in Nat
  /\ guards \in [App -> 0 .. MaxGuards]
  /\ pc \in [App -> {"runs", "waits", "waits_timed", "woken", "joins"}]
  /\ loopPc \in {"off", "polls", "dispatches", "holds_on", "left"}
  /\ live \subseteq H!Node

(* While no removal is half done, the ring of every object that exists is  *)
(* whole: next and prev are inverse along it, it comes back to the object, *)
(* and it links exactly the registered listeners and the cursors of the    *)
(* walks.  Two threads in one ring at a time, a write that goes to the     *)
(* wrong neighbour or one that is left out break it (list::remove, the     *)
(* lock of ThreadLoop).                                                    *)
ListsStayWhole ==
  (\A t \in Thread : removing[t] = None) =>
    \A o \in Object \cap live :
      LET ring == H!Reachable(o) IN
      /\ \A n \in ring : n \in live /\ prev[next[n]] = n
      /\ ring = {o} \cup {l \in Listener \cap live : Of[l] = o}
           \cup {c \in H!Cursor : c[2] \in DOMAIN walks[c[1]] /\ walks[c[1]][c[2]].object = o}

(* No pointer of a hook is written through after the memory behind it was  *)
(* freed, by a program that lets its listeners go first: not when a module *)
(* freed itself before its LocalModule is dropped, and not when neighbours *)
(* go one after the other.                                                 *)
NoDanglingWrite == ~dangling

(* A listener that is dropped after its object is the one that may do so:  *)
(* its neighbours, and the head of its ring, may be gone.  Nothing else    *)
(* does, in whatever order everything is dropped.                          *)
DanglesOnlyIfOutlived ==
  [][dangling' /\ ~dangling =>
       \E t \in Thread : \E l \in Listener :
         /\ Of[l] \notin live \cup Module
         /\ H!DropListener(t, l) \/ (removing[t] # None /\ removing[t].hook = l)]_vars

(* A module is destroyed once, by itself or by its LocalModule, whichever  *)
(* comes first (the cell of LocalModuleState).                             *)
DestroyedOnce == \A o \in Module : destroyed[o] <= 1

(* A walk that ends has called each listener that was there all the time,  *)
(* and none twice, whatever was added and removed by the callbacks and, if *)
(* one of them let go of the lock, by other threads.                       *)
CallsAreComplete ==
  [][\A t \in Thread : H!EndWalk(t) =>
       LET w == H!Walk(t)
           met(l) == {i \in DOMAIN w.called : w.called[i] = l}
       IN \A l \in w.due : \E i \in DOMAIN w.called : met(l) = {i}]_vars

(* The misuse that the documentation of stop names.                        *)
StopsLocked(t) == pc[t] = "joins" /\ guards[t] > 0

(* A wait that is not cut short is answered, a signal that waits for       *)
(* acceptance is accepted, and stop returns: no circle of lock, condition  *)
(* and join among the threads but the one through a stop that was called   *)
(* with the lock held.                                                     *)
EveryCallReturns ==
  LET misused == \E u \in App : StopsLocked(u) IN
  /\ \A t \in App : pc[t] \in {"waits", "woken", "joins"} ~> pc[t] = "runs" \/ misused
  /\ loopPc = "holds_on" ~> loopPc # "holds_on" \/ misused

(* That misuse is as bad as the documentation says: such a stop never      *)
(* returns, whatever the loop's thread was doing when it was called, since *)
(* a thread that iterates the loop needs the lock to leave it.             *)
LockedStopHangs ==
  [][\A t \in App : StopsLocked(t) => StopsLocked(t)']_vars

=============================================================================
