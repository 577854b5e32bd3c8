---------------------------- MODULE LoopSources ----------------------------
(***************************************************************************)
(* The sources of a loop and the closures they call.  The control thread   *)
(* iterates its own loop: callbacks run inside iterate, and run program    *)
(* code, which may add, update and drop sources, the running one included, *)
(* and iterate again.  Timers made by add_timer_from_thread belong to a    *)
(* loop that another thread dispatches: the control thread reaches them    *)
(* through blocking invocations, which that loop serves between callbacks. *)
(***************************************************************************)
EXTENDS Integers, Sequences, FiniteSets

CONSTANTS
  Source,              \* source values the program makes
  Kind,                \* io, idle, signal, event, timer; remote for a timer
                       \* of the other thread's loop
  NoSource,
  MaxExpirations,      \* bound on the expirations a timer accumulates
  MaxDepth             \* bound on the control thread's nested calls

ASSUME LoopAssumption ==
  /\ Kind \in [Source -> {"io", "idle", "signal", "event", "timer", "remote"}]
  /\ NoSource \notin Source
  /\ MaxExpirations \in Nat \ {0}
  /\ MaxDepth \in Nat

VARIABLES
  native,              \* of each source: none, registered, destroyed
  closure,             \* its Box: none, boxed, freed, leaked
  armed,               \* timers: off, once, every; an enabled idle source: every
  ready,               \* pending expirations, or 1 for another pending event
  owed,                \* events signalled since their callback last began
  lent,                \* events of which another thread has an EventSignal
  quiet,               \* remote timers disarmed by an update that returned Ok
  calls,               \* the control thread's nested calls, innermost first
  entered,             \* calls of enter without leave
  running,             \* the source whose callback the other loop runs
  request              \* the blocking invocation under way

vars == <<native, closure, armed, ready, owed, lent, quiet, calls, entered, running, request>>

Remote == {s \in Source : Kind[s] = "remote"}
Local == Source \ Remote
Event == {s \in Source : Kind[s] = "event"}
NoRequest == [op |-> "none", src |-> NoSource, arg |-> "off", state |-> "none"]
Frame(k, s) == [kind |-> k, src |-> s]
Frames == [kind : {"call", "drop", "convert", "iterate"}, src : Source \cup {NoSource}]

(* Program code runs: at top level, in a callback, or in the Drop of what  *)
(* a closure captured; and it is not waiting for an invocation.            *)
UserCode ==
  /\ request = NoRequest
  /\ calls # <<>> => Head(calls).kind \in {"call", "drop"}

MayCall == UserCode /\ Len(calls) < MaxDepth
InsideIterate == calls # <<>> /\ Head(calls).kind = "iterate"

-----------------------------------------------------------------------------
Init ==
  /\ native = [s \in Source |-> "none"]
  /\ closure = [s \in Source |-> "none"]
  /\ armed = [s \in Source |-> "off"]
  /\ ready = [s \in Source |-> 0]
  /\ owed = {} /\ lent = {} /\ quiet = {}
  /\ calls = <<>>
  /\ entered = 0
  /\ running = NoSource
  /\ request = NoRequest

(* add_io, add_idle, add_signal_local, add_event, add_timer: the closure   *)
(* is boxed, the source registered.  Only an idle source starts enabled.   *)
Add(s, a) ==
  /\ UserCode
  /\ s \in Local /\ native[s] = "none"
  /\ a # "off" => Kind[s] = "idle" /\ a = "every"
  /\ native' = [native EXCEPT ![s] = "registered"]
  /\ closure' = [closure EXCEPT ![s] = "boxed"]
  /\ armed' = [armed EXCEPT ![s] = a]
  /\ UNCHANGED <<ready, owed, lent, quiet, calls, entered, running, request>>

(* IdleSource::enable, and TimerSource::update_timer on the own loop,      *)
(* which also forgets expirations that were not delivered.                 *)
Update(s, a) ==
  /\ UserCode
  /\ s \in Local /\ closure[s] = "boxed" /\ native[s] = "registered"
  /\ Kind[s] = "timer" \/ (Kind[s] = "idle" /\ a # "once")
  /\ armed' = [armed EXCEPT ![s] = a]
  /\ ready' = [ready EXCEPT ![s] = 0]
  /\ UNCHANGED <<native, closure, owed, lent, quiet, calls, entered, running, request>>

(* Mutant: an event whose callback runs is not signalled again. *)
SignalUnlessRunning(s) ==
  /\ s \in Event
  /\ s \in lent \/ (UserCode /\ native[s] = "registered")
  /\ ready' = IF \E i \in DOMAIN calls : calls[i] = Frame("call", s)
              THEN ready ELSE [ready EXCEPT ![s] = 1]
  /\ owed' = owed \cup {s}
  /\ UNCHANGED <<native, closure, armed, lent, quiet, calls, entered, running, request>>

(* EventSource::signal, or EventSignal::signal from any thread at any      *)
(* time; signals not yet delivered are combined.                           *)
Signal(s) ==
  /\ s \in Event
  /\ s \in lent \/ (UserCode /\ native[s] = "registered")
  /\ ready' = [ready EXCEPT ![s] = 1]
  /\ owed' = owed \cup {s}
  /\ UNCHANGED <<native, closure, armed, lent, quiet, calls, entered, running, request>>

(* Another thread borrows an EventSignal, which its lifetime ends before   *)
(* the source can be dropped.                                              *)
Lend(s) ==
  /\ UserCode
  /\ s \in Event \ lent /\ native[s] = "registered"
  /\ lent' = lent \cup {s}
  /\ UNCHANGED <<native, closure, armed, ready, owed, quiet, calls, entered, running, request>>

GiveBack(s) ==
  /\ s \in lent
  /\ lent' = lent \ {s}
  /\ UNCHANGED <<native, closure, armed, ready, owed, quiet, calls, entered, running, request>>

(* The Drop of IoSource, IdleSource, SignalSource, EventSource and of a    *)
(* TimerSource of the own loop destroys the source, then its box is freed. *)
DropSource(s) ==
  /\ MayCall
  /\ s \in Local \ lent /\ native[s] = "registered" /\ closure[s] = "boxed"
  /\ native' = [native EXCEPT ![s] = "destroyed"]
  /\ armed' = [armed EXCEPT ![s] = "off"]
  /\ ready' = [ready EXCEPT ![s] = 0]
  /\ owed' = owed \ {s}
  /\ calls' = <<Frame("drop", s)>> \o calls
  /\ UNCHANGED <<closure, lent, quiet, entered, running, request>>

FreeClosure ==
  /\ UserCode /\ calls # <<>> /\ Head(calls).kind = "drop"
  /\ closure' = [closure EXCEPT ![Head(calls).src] = "freed"]
  /\ calls' = Tail(calls)
  /\ UNCHANGED <<native, armed, ready, owed, lent, quiet, entered, running, request>>

-----------------------------------------------------------------------------
(* Iterating the own loop.                                                 *)

(* Loop::iterate enters the loop and takes the guard that leaves it. *)
Iterate ==
  /\ MayCall
  /\ entered' = entered + 1
  /\ calls' = <<Frame("convert", NoSource)>> \o calls
  /\ UNCHANGED <<native, closure, armed, ready, owed, lent, quiet, running, request>>

(* iterate_unguarded: the timeout fits in a c_int. *)
TimeoutFits ==
  /\ calls # <<>> /\ Head(calls).kind = "convert"
  /\ calls' = <<Frame("iterate", NoSource)>> \o Tail(calls)
  /\ UNCHANGED <<native, closure, armed, ready, owed, lent, quiet, entered, running, request>>

(* Mutant: iterate has no guard. *)
TimeoutOverflowsEntered ==
  /\ Len(calls) = 1 /\ Head(calls).kind = "convert"
  /\ calls' = Tail(calls)
  /\ UNCHANGED <<native, closure, armed, ready, owed, lent, quiet, entered, running, request>>

(* It does not, and expect panics: the guard leaves the loop.  (A panic    *)
(* inside a callback would abort the process.)                             *)
TimeoutOverflows ==
  /\ Len(calls) = 1 /\ Head(calls).kind = "convert"
  /\ entered' = entered - 1
  /\ calls' = Tail(calls)
  /\ UNCHANGED <<native, closure, armed, ready, owed, lent, quiet, running, request>>

(* The loop takes what is pending of a source and calls its closure.  An   *)
(* io source stays ready until its callback has read everything.           *)
Dispatch(s) ==
  /\ InsideIterate /\ Len(calls) < MaxDepth
  /\ s \in Local /\ native[s] = "registered"
  /\ ready[s] > 0 \/ (Kind[s] = "idle" /\ armed[s] = "every")
  /\ \E left \in {0} \cup {n \in {ready[s]} : Kind[s] = "io"} :
       ready' = [ready EXCEPT ![s] = left]
  /\ owed' = owed \ {s}
  /\ calls' = <<Frame("call", s)>> \o calls
  /\ UNCHANGED <<native, closure, armed, lent, quiet, entered, running, request>>

(* Mutant: the pending count is cleared after the callback. *)
CallbackReturnsClearing ==
  /\ UserCode /\ calls # <<>> /\ Head(calls).kind = "call"
  /\ ready' = [ready EXCEPT ![Head(calls).src] = 0]
  /\ calls' = Tail(calls)
  /\ UNCHANGED <<native, closure, armed, owed, lent, quiet, entered, running, request>>

CallbackReturns ==
  /\ UserCode /\ calls # <<>> /\ Head(calls).kind = "call"
  /\ calls' = Tail(calls)
  /\ UNCHANGED <<native, closure, armed, ready, owed, lent, quiet, entered, running, request>>

(* iterate returns; the guard leaves the loop. *)
IterateReturns ==
  /\ InsideIterate
  /\ entered' = entered - 1
  /\ calls' = Tail(calls)
  /\ UNCHANGED <<native, closure, armed, ready, owed, lent, quiet, running, request>>

(* Time passes, a descriptor becomes ready, or a signal arrives. *)
Happens(s) ==
  /\ native[s] = "registered"
  /\ \/ Kind[s] \in {"io", "signal"} /\ ready[s] = 0
     \/ Kind[s] \in {"timer", "remote"} /\ armed[s] # "off" /\ ready[s] < MaxExpirations
  /\ ready' = [ready EXCEPT ![s] = @ + 1]
  /\ armed' = [armed EXCEPT ![s] = IF @ = "once" THEN "off" ELSE @]
  /\ UNCHANGED <<native, closure, owed, lent, quiet, calls, entered, running, request>>

-----------------------------------------------------------------------------
(* Timers on a loop that another thread dispatches.                        *)

Ask(op, s, a) == request' = [op |-> op, src |-> s, arg |-> a, state |-> "sent"]

(* add_timer_from_thread: the closure is boxed, registration invoked. *)
AddTimerFromThread(s) ==
  /\ UserCode
  /\ s \in Remote /\ closure[s] = "none"
  /\ closure' = [closure EXCEPT ![s] = "boxed"]
  /\ Ask("add", s, "off")
  /\ UNCHANGED <<native, armed, ready, owed, lent, quiet, calls, entered, running>>

(* Mutant: the timer is updated on the calling thread. *)
UpdateRemoteHere(s, a) ==
  /\ UserCode
  /\ s \in Remote /\ closure[s] = "boxed"
  /\ armed' = [armed EXCEPT ![s] = a]
  /\ ready' = [ready EXCEPT ![s] = 0]
  /\ quiet' = IF a = "off" THEN quiet \cup {s} ELSE quiet \ {s}
  /\ UNCHANGED <<native, closure, owed, lent, calls, entered, running, request>>

(* TimerSource::update_timer of a thread-invoked timer. *)
UpdateRemote(s, a) ==
  /\ UserCode
  /\ s \in Remote /\ closure[s] = "boxed"
  /\ quiet' = IF a = "off" THEN quiet ELSE quiet \ {s}
  /\ Ask("update", s, a)
  /\ UNCHANGED <<native, closure, armed, ready, owed, lent, calls, entered, running>>

(* Mutant: every timer is destroyed and freed on the dropping thread. *)
DropRemoteHere(s) ==
  /\ UserCode
  /\ s \in Remote /\ closure[s] = "boxed"
  /\ native' = [native EXCEPT ![s] = "destroyed"]
  /\ closure' = [closure EXCEPT ![s] = "freed"]
  /\ armed' = [armed EXCEPT ![s] = "off"]
  /\ ready' = [ready EXCEPT ![s] = 0]
  /\ UNCHANGED <<owed, lent, quiet, calls, entered, running, request>>

(* TimerSource::drop of a thread-invoked timer. *)
DropRemote(s) ==
  /\ UserCode
  /\ s \in Remote /\ closure[s] = "boxed"
  /\ Ask("destroy", s, "off")
  /\ UNCHANGED <<native, closure, armed, ready, owed, lent, quiet, calls, entered, running>>

(* The other loop calls add_timer, update_timer_in_loop or                 *)
(* destroy_timer_in_loop, when none of its callbacks runs.                 *)
Serve ==
  LET s == request.src IN
  /\ request.state = "sent"
  /\ running = NoSource
  /\ request' = [request EXCEPT !.state = "done"]
  /\ native' = [native EXCEPT ![s] =
       CASE request.op = "add" -> "registered" [] request.op = "destroy" -> "destroyed" [] OTHER -> @]
  /\ armed' = [armed EXCEPT ![s] = request.arg]
  /\ ready' = [ready EXCEPT ![s] = 0]
  /\ UNCHANGED <<closure, owed, lent, quiet, calls, entered, running>>

(* The invocation fails without running, or add_timer returns NULL. *)
InvokeFails ==
  /\ request.state = "sent"
  /\ request' = [request EXCEPT !.state = "failed"]
  /\ UNCHANGED <<native, closure, armed, ready, owed, lent, quiet, calls, entered, running>>

(* Mutant: a failed drop frees the box all the same. *)
ReplyFreeing ==
  LET s == request.src IN
  /\ request.state \in {"done", "failed"}
  /\ closure' = [closure EXCEPT ![s] =
       IF request.op = "destroy" \/ (request.op = "add" /\ request.state = "failed") THEN "freed" ELSE @]
  /\ quiet' = IF request.op = "update" /\ request.arg = "off" /\ request.state = "done"
              THEN quiet \cup {s} ELSE quiet
  /\ request' = NoRequest
  /\ UNCHANGED <<native, armed, ready, owed, lent, calls, entered, running>>

(* Mutant: the callback is not freed when its registration fails. *)
ReplyKeeping ==
  LET s == request.src IN
  /\ request.state \in {"done", "failed"}
  /\ closure' = [closure EXCEPT ![s] =
       CASE request.op = "destroy" /\ request.state = "done" -> "freed"
         [] request.op = "destroy" /\ request.state = "failed" -> "leaked"
         [] OTHER -> @]
  /\ quiet' = IF request.op = "update" /\ request.arg = "off" /\ request.state = "done"
              THEN quiet \cup {s} ELSE quiet
  /\ request' = NoRequest
  /\ UNCHANGED <<native, armed, ready, owed, lent, calls, entered, running>>

(* invoke_blocking returns.  A failed registration frees the callback; a   *)
(* drop frees it if the source was destroyed and leaks it otherwise.       *)
Reply ==
  LET s == request.src IN
  /\ request.state \in {"done", "failed"}
  /\ closure' = [closure EXCEPT ![s] =
       CASE request.op = "add" /\ request.state = "failed" -> "freed"
         [] request.op = "destroy" /\ request.state = "done" -> "freed"
         [] request.op = "destroy" /\ request.state = "failed" -> "leaked"
         [] OTHER -> @]
  /\ quiet' = IF request.op = "update" /\ request.arg = "off" /\ request.state = "done"
              THEN quiet \cup {s} ELSE quiet
  /\ request' = NoRequest
  /\ UNCHANGED <<native, armed, ready, owed, lent, calls, entered, running>>

RemoteCall(s) ==
  /\ running = NoSource
  /\ s \in Remote /\ native[s] = "registered" /\ ready[s] > 0
  /\ running' = s
  /\ ready' = [ready EXCEPT ![s] = 0]
  /\ UNCHANGED <<native, closure, armed, owed, lent, quiet, calls, entered, request>>

RemoteReturn ==
  /\ running # NoSource
  /\ running' = NoSource
  /\ UNCHANGED <<native, closure, armed, ready, owed, lent, quiet, calls, entered, request>>

-----------------------------------------------------------------------------
Program(s) ==
  \/ \E a \in {"off", "every"} : Add(s, a)
  \/ \E a \in {"off", "once", "every"} : Update(s, a) \/ UpdateRemote(s, a)
  \/ Signal(s) \/ Lend(s) \/ GiveBack(s) \/ DropSource(s)
  \/ AddTimerFromThread(s) \/ DropRemote(s)

Unwind ==
  \/ FreeClosure \/ TimeoutFits \/ TimeoutOverflows \/ CallbackReturns \/ IterateReturns
  \/ Reply

Next ==
  \/ \E s \in Source : Program(s) \/ Dispatch(s) \/ Happens(s) \/ RemoteCall(s)
  \/ Iterate \/ Unwind \/ Serve \/ InvokeFails \/ RemoteReturn

Spec == Init /\ [][Next]_vars

(* The program keeps iterating its loop, its callbacks return, every       *)
(* iteration gets to every ready descriptor, and the other loop flushes    *)
(* its queue of invocations each time round.                               *)
FairSpec ==
  /\ Spec
  /\ SF_vars(calls = <<>> /\ Iterate)
  /\ SF_vars(TimeoutFits) /\ SF_vars(CallbackReturns) /\ SF_vars(FreeClosure)
  /\ SF_vars(IterateReturns) /\ WF_vars(Reply)
  /\ \A s \in Source : SF_vars(Dispatch(s))
  /\ SF_vars(Serve) /\ WF_vars(RemoteReturn)

-----------------------------------------------------------------------------
(* Properties                                                              *)

TypeOK ==
  /\ native \in [Source -> {"none", "registered", "destroyed"}]
  /\ closure \in [Source -> {"none", "boxed", "freed", "leaked"}]
  /\ armed \in [Source -> {"off", "once", "every"}]
  /\ ready \in [Source -> 0..MaxExpirations]
  /\ owed \subseteq Event /\ lent \subseteq Event /\ quiet \subseteq Remote
  /\ calls \in Seq(Frames)
  /\ entered \in Int
  /\ running \in Remote \cup {NoSource}
  /\ request \in [op : {"none", "add", "update", "destroy"}, src : Source \cup {NoSource},
                  arg : {"off", "once", "every"}, state : {"none", "sent", "done", "failed"}]

(* Whatever a loop can still call has its closure in memory: it is freed   *)
(* only after its source is destroyed, or leaked when that failed.         *)
RegisteredHasClosure ==
  \A s \in Source : native[s] = "registered" => closure[s] \in {"boxed", "leaked"}

InMemory(s) == closure[s] \in {"boxed", "leaked"}
Runs(s) == \E i \in DOMAIN calls : calls[i] = Frame("call", s)

(* A closure is not freed while it runs: never while the other thread runs *)
(* it, and on the own loop only by a callback that drops its own source,   *)
(* itself or through what it calls: the box is a field of the source       *)
(* value, and nothing keeps a callback from owning that value.             *)
RunningClosureAlive ==
  /\ running # NoSource => InMemory(running)
  /\ \A s \in Local : Runs(s) => InMemory(s) \/ native[s] = "destroyed"

(* Once update_timer(None) has returned Ok on the control thread the       *)
(* callback neither runs on the other thread nor will, until rearmed.      *)
DisarmedIsQuiet == running \notin quiet /\ \A s \in quiet : ready[s] = 0

(* A signal not yet followed by its callback is still pending: signals are *)
(* combined, never lost, also when sent while the callback runs.           *)
NoSignalLost == \A s \in owed : ready[s] > 0

InLoop(f) == f.kind \in {"convert", "iterate"}

(* Each call of enter is paired with a call of leave, also when iterate    *)
(* panics and when callbacks iterate.                                      *)
Balanced == entered = Cardinality({i \in DOMAIN calls : InLoop(calls[i])})

(* No box is forgotten: a registration that failed is freed, and what is   *)
(* boxed has a source value, is being registered, or is being dropped.     *)
NoLostClosure ==
  \A s \in Source : closure[s] = "boxed" =>
    native[s] = "registered" \/ request.src = s \/ \E i \in DOMAIN calls : calls[i] = Frame("drop", s)

(* What these rest on.  An invocation holds the control thread, and its    *)
(* outcome says what the other loop did; a program owns a remote timer     *)
(* exactly while it is registered.                                         *)
RequestIsHonest ==
  /\ request.op = "none" <=> request.state = "none"
  /\ request.op # "none" => request.src \in Remote /\ closure[request.src] = "boxed"
  /\ request.op = "add" =>
       /\ request.arg = "off"
       /\ native[request.src] = IF request.state = "done" THEN "registered" ELSE "none"
  /\ request.op = "update" => native[request.src] = "registered"
  /\ request.op = "destroy" =>
       native[request.src] = IF request.state = "done" THEN "destroyed" ELSE "registered"
  /\ request.op = "destroy" => request.arg = "off"

OwnedIsRegistered ==
  \A s \in Remote : closure[s] = "boxed" /\ request.src # s => native[s] = "registered"

NeverBoxedIsNone == \A s \in Source : closure[s] = "none" => native[s] = "none"

RunningIsRegistered == running # NoSource => native[running] = "registered"

(* What a loop that is asked to disarm a timer has done when it answers. *)
QuietIsDisarmed ==
  /\ \A s \in quiet : armed[s] = "off" /\ ready[s] = 0 /\ running # s
  /\ request.op = "update" /\ request.arg # "off" => request.src \notin quiet
  /\ request.op = "update" /\ request.arg = "off" /\ request.state = "done" =>
       armed[request.src] = "off" /\ ready[request.src] = 0 /\ running # request.src

(* A drop under way has destroyed its source; a callback under way is that *)
(* of a source which was registered.                                       *)
Honest ==
  {f \in Frames :
     /\ f.kind = "drop" => f.src \in Local /\ native[f.src] = "destroyed"
     /\ f.kind = "call" => f.src \in Local /\ native[f.src] # "none"}
CallsAreHonest == calls \in Seq(Honest)

LentIsRegistered == \A s \in lent : native[s] = "registered"

(* The inductive invariant. *)
IInv ==
  /\ TypeOK
  /\ RequestIsHonest
  /\ OwnedIsRegistered
  /\ RunningIsRegistered
  /\ RegisteredHasClosure
  /\ NeverBoxedIsNone
  /\ QuietIsDisarmed
  /\ CallsAreHonest
  /\ LentIsRegistered
  /\ NoSignalLost

(* Every signalled event is eventually called, unless its source goes: the *)
(* control thread does not wait for ever for another loop to serve an      *)
(* invocation, whether that fails or not, nor in a nested iteration.       *)
SignalledIsCalled == \A s \in Event : s \in owed ~> s \notin owed
=============================================================================
