-------------------------- MODULE ListenerCallbacks --------------------------
(***************************************************************************)
(* One listener of a stream, a filter or a proxy: the boxed record of      *)
(* closures and user data, the event table and hook handed to the library, *)
(* and the trampolines the library calls back on the main-loop thread and, *)
(* for process events, on the data thread.                                 *)
(*                                                                         *)
(* A trampoline turns the data pointer into references that live while the *)
(* closure runs.  The closure may make calls that emit further events on   *)
(* its thread before it returns, so trampolines nest.                      *)
(***************************************************************************)
EXTENDS Naturals, Sequences

CONSTANTS
  Event,               \* the events of the table that the instance uses
  CallbackThread,      \* {Main, Data}
  Main, Data,
  EmittedOn,           \* of each thread, the events the library emits there
  Nests,               \* pairs <<e, f>>: a call made by e's closure emits f
  Kind,                \* whose listener: "stream", "filter" or "proxy"
  MaxDepth             \* bound on nested trampolines

ASSUME ListenerAssumption ==
  /\ CallbackThread = {Main, Data} /\ Main # Data
  /\ EmittedOn \in [CallbackThread -> SUBSET Event]
  /\ Nests \subseteq Event \X Event
  /\ Kind \in {"stream", "filter", "proxy"}
  /\ MaxDepth \in Nat

VARIABLES
  closures,            \* events whose closure is set in the record
  table,               \* non-null slots of the event table
  hook,                \* none, linked, unlinked (from the list), detached
  record,              \* the boxes: none, building, leaked
  stack,               \* of each thread, the running trampolines
  selfDropped          \* history: was the listener last dropped inside one
                       \* of its own main-loop callbacks?

callbackVars == <<closures, table, hook, record, stack, selfDropped>>

-----------------------------------------------------------------------------
(* What a running trampoline of event e refers to.  A place is the box of  *)
(* one closure or the user data.                                           *)

UserData == "user_data"

(* stream: as_mut() on the whole record; while the closure runs, &mut to   *)
(* that closure and &mut to the user data are in use.                      *)
StreamUnique(e) == {<<"closure", e>>, <<UserData>>}

(* Mutant: the filter's trampolines borrow the record like the stream's. *)
FilterUniqueAll(e) == {<<"closure", e>>, <<UserData>>}

(* filter: &mut to the one UnsafeCell of the event. *)
FilterUnique(e) == {<<"closure", e>>}

(* filter: &D to the user data, which is Sync. *)
FilterShared(e) == {<<UserData>>}

(* proxies, core, registry: as_ref() on the record, closures are Fn. *)
ProxyUnique(e) == {}
ProxyShared(e) == {<<"closure", f>> : f \in Event}

UniqueOf(e) ==
  CASE Kind = "stream" -> StreamUnique(e)
    [] Kind = "filter" -> FilterUnique(e)
    [] Kind = "proxy"  -> ProxyUnique(e)

SharedOf(e) ==
  CASE Kind = "stream" -> {}
    [] Kind = "filter" -> FilterShared(e)
    [] Kind = "proxy"  -> ProxyShared(e)

-----------------------------------------------------------------------------
CallbackInit ==
  /\ closures = {}
  /\ table = {}
  /\ hook = "none"
  /\ record = "none"
  /\ stack = [t \in CallbackThread |-> <<>>]
  /\ selfDropped = FALSE

(* add_local_listener_with_user_data: a builder with an empty record.  One *)
(* listener at a time, and no call of the last one's is left (a bound).    *)
NewBuilder ==
  /\ record = "none"
  /\ stack[Main] = <<>>
  /\ record' = "building"
  /\ closures' = {}
  /\ selfDropped' = FALSE
  /\ UNCHANGED <<table, hook, stack>>

(* A setter of the builder stores (or replaces) the closure of e. *)
SetCallback(e) ==
  /\ record = "building"
  /\ closures' = closures \cup {e}
  /\ UNCHANGED <<table, hook, record, stack, selfDropped>>

(* register: the table gets a trampoline per closure that is set, the      *)
(* boxes are leaked to raw pointers, the hook is added to the emitter.     *)
Register ==
  /\ record = "building"
  /\ table' = closures
  /\ record' = "leaked"
  /\ hook' = "linked"
  /\ UNCHANGED <<closures, stack, selfDropped>>

(* Does the library still call this table on thread t?  The data thread    *)
(* uses its own copy of the callbacks until the hook's removed function.   *)
Calls(t) == IF t = Main THEN hook = "linked" ELSE hook \in {"linked", "unlinked"}

(* May e be emitted on t now: by the library itself, or because the        *)
(* closure running on top of t's stack called into it.                     *)
MayEmit(t, e) ==
  IF stack[t] = <<>> THEN e \in EmittedOn[t]
                     ELSE <<Head(stack[t]), e>> \in Nests

(* The library calls slot e: the trampoline takes its references and runs  *)
(* the closure, if there is one.                                           *)
Emit(t, e) ==
  /\ Calls(t)
  /\ e \in table
  /\ MayEmit(t, e)
  /\ Len(stack[t]) < MaxDepth
  /\ stack' = [stack EXCEPT ![t] = <<e>> \o @]
  /\ UNCHANGED <<closures, table, hook, record, selfDropped>>

Dropping == hook \in {"unlinked", "detached"}

(* The closure on top of t's stack returns: not before a drop that it is   *)
(* executing, on the main loop's thread, has come to its end.              *)
Return(t) ==
  /\ stack[t] # <<>>
  /\ t = Main => ~Dropping
  /\ stack' = [stack EXCEPT ![t] = Tail(@)]
  /\ UNCHANGED <<closures, table, hook, record, selfDropped>>

(* Drop of the listener on the main-loop thread, wherever that is: outside *)
(* its callbacks or inside one of them, which has taken the listener out   *)
(* of an Rc<RefCell<Option<..>>>, say.  hook::remove unlinks the hook from *)
(* the emitter's list,                                                     *)
Unlink ==
  /\ hook = "linked"
  /\ hook' = "unlinked"
  /\ selfDropped' = (stack[Main] # <<>>)
  /\ UNCHANGED <<closures, table, record, stack>>

(* Mutant: the hook's removed function is not called. *)
DetachAtOnce ==
  /\ hook = "unlinked"
  /\ hook' = "detached"
  /\ UNCHANGED <<closures, table, record, stack, selfDropped>>

(* then calls the hook's removed function, which the library invokes in    *)
(* the data loop, waiting for a running process callback;                  *)
Detach ==
  /\ hook = "unlinked"
  /\ stack[Data] = <<>>
  /\ hook' = "detached"
  /\ UNCHANGED <<closures, table, record, stack, selfDropped>>

(* then the fields are dropped: hook, table, record. *)
FreeBoxes ==
  /\ hook = "detached"
  /\ hook' = "none"
  /\ record' = "none"
  /\ closures' = {}
  /\ table' = {}
  /\ UNCHANGED <<stack, selfDropped>>

(* The builder is dropped without register. *)
DropBuilder ==
  /\ record = "building"
  /\ record' = "none"
  /\ closures' = {}
  /\ UNCHANGED <<table, hook, stack, selfDropped>>

CallbackNext ==
  \/ NewBuilder \/ Register \/ DropBuilder
  \/ Unlink \/ Detach \/ FreeBoxes
  \/ \E e \in Event : SetCallback(e)
  \/ \E t \in CallbackThread : Return(t) \/ \E e \in Event : Emit(t, e)

CallbackSpec == CallbackInit /\ [][CallbackNext]_callbackVars

-----------------------------------------------------------------------------
(* Properties                                                              *)

Types ==
  /\ closures \subseteq Event
  /\ table \subseteq Event
  /\ hook \in {"none", "linked", "unlinked", "detached"}
  /\ record \in {"none", "building", "leaked"}
  /\ stack \in [CallbackThread -> Seq(Event)]
  /\ selfDropped \in BOOLEAN

(* The types, and: the record is lent to the library exactly while the     *)
(* listener has a hook, from register to the end of the drop.              *)
CallbackTypes == Types /\ (record = "leaked" <=> hook # "none")

(* The trampolines that have not returned. *)
Frames == {f \in CallbackThread \X (1 .. MaxDepth) : f[2] <= Len(stack[f[1]])}
EventOf(f) == stack[f[1]][f[2]]

(* One closure is entered by two trampolines of one thread: a call that it *)
(* made has led back to its event.                                         *)
Reenters(f, g) == f[1] = g[1] /\ EventOf(f) = EventOf(g)

(* Rust's aliasing rule: what one running trampoline holds &mut to, no     *)
(* other one refers to, on its thread or another.  A trampoline does not   *)
(* look whether its closure is running: state_changed that disconnects is  *)
(* entered again, which is the one way for a filter to break the rule.     *)
ReferencesAreExclusive ==
  \A f, g \in Frames :
    f # g /\ ~Reenters(f, g)
      => UniqueOf(EventOf(f))
           \cap (UniqueOf(EventOf(g)) \cup SharedOf(EventOf(g))) = {}

FindsItsClosure(f) == record = "leaked" /\ EventOf(f) \in closures

(* A running trampoline finds its record, and a closure for its event,     *)
(* which is never replaced or freed while it runs: by a drop on the main   *)
(* loop while the data thread is inside process, by a new listener, by     *)
(* nested events.  The one way to free it is to drop the listener inside   *)
(* its own callback, and that frees the callbacks it is inside of only.    *)
RunningClosureIsLive ==
  \A f \in Frames : FindsItsClosure(f) \/ (selfDropped /\ f[1] = Main)
=============================================================================
