# A verification project for PipeWireAO-rs

TLA+ models of the Rust bindings of PipeWire (`pipewire/`, `libspa/`), TLC
configurations that check them on small instances, and TLAPS proofs that hold for
every instance. The code says what a definition means: each definition names the
lines it translates in `PROJECT.json` under `map`; what lies in the C library is
modelled only as far as the bindings rely on it, and is marked external there.

Paths below are relative to the repository. A module `X` is `X.tla`; its proofs are
`XProofs.tla`; `MCX.tla` holds instance constants for TLC.

## 1. The system

The crate `pipewire` wraps the C client library: a *loop* dispatches *sources*; a
*context* on a loop connects a *core*; the core yields a *registry* and *proxies*;
*streams* and *filters* process buffers on a real-time data thread. Events reach Rust
through *listeners*: a record of closures, an event table and a hook lent to C. The
crate `libspa` holds the data that travels: *pods*, *dictionaries*, *buffers* with
*metadata*, *formats* and results.

| Component | Files | State | Operations | What is hard | What makes it correct |
|---|---|---|---|---|---|
| Cross-thread channel | `pipewire/src/channel.rs` | queue behind a mutex, a pipe, attached or not | send, attach, deattach, drop, dispatch | wakeup before push, read under the mutex, failures between two steps | no lost wakeup, order, honest errors |
| Object ownership | `*/rc.rs`, `buffer.rs` | native objects, counted pointers, handles, data in callbacks | make, upgrade, drop, connect, retain a buffer | drop order, weak upgrades inside drops, data thread using what the control thread drops | children die first, callbacks see live data, counts stay on one thread |
| Loop and sources | `pipewire/src/loop_/` | sources, boxed closures, pending expirations, nested calls | add, update, signal, drop, iterate, invoke in another loop | callbacks that drop and iterate, failing invocations, signals from other threads | a closure lives as long as it can be called, no signal is lost |
| Listeners | `stream/mod.rs`, `filter/mod.rs`, `libspa/src/utils/hook.rs` | closures, event table, rings of hooks | build, register, emit, drop | two threads in one record, re-entry, unlinking while a walk is under way | no aliasing, whole rings, each listener called once |
| Local modules | `local_module.rs` | a shared cell: module or none | load, free callback, drop | a module that destroys itself, at any time | destroyed once, no write through a freed hook |
| Threaded loop | `thread_loop/` | a recursive lock, waiters, start/stop | lock, wait, signal, accept, start, stop | lost signals, stop against waits, callbacks that release the lock | every call returns |
| Core and session | `core/`, `registry/` | proxies, sequence numbers, what the program knows | sync, bind, create, destroy, events | order of methods and events, ids that are used again, numbers that wrap | done is a barrier, a stale bind is told |
| Interface proxies | `proxy.rs`, `node.rs`, `port.rs`, `device.rs`, `client.rs`, `link.rs`, `module.rs`, `factory.rs`, `metadata.rs` | event tables, cached infos | methods, trampolines, accessors | change masks, raw strings, tables of another interface | arguments arrive as they are, infos add up to the object |
| SPA results | `libspa/src/utils/result.rs` | an `i32` | conversions | sign and bit boundaries | an asynchronous result keeps its number |
| Pod serialization | `libspa/src/pod/serialize.rs` | writer position, open containers with counts | one call per pod, one per begin/element/field/end | sizes counted not measured, padding, seeking | the bytes are the encoding |
| Pod deserialization | `libspa/src/pod/deserialize.rs` | input position, open containers with remaining bytes | one per type, next, end | sizes read from the input | whole values or an error |
| Pod builder and parser | `libspa/src/pod/{builder,parser}.rs` | native builder/parser with frames | push, add, pop; enter, get, pop | frames left open on the error path, a Vec that moves | no dangling frame, the bytes are the encoding |
| Formats and parameters | `libspa/src/param/` | formats, choices, profiles | build, parse, offer alternatives | widths, duplicate or missing keys, choices | what both sides settle was offered |
| Buffers, metadata, arrays | `libspa/src/buffer/`, `pipewire/src/buffer*` | chunks, mapped data, records in shared memory | typed output and input, chunk accessors | bounds, strides and offsets that a peer writes | what is published is what is read |
| Run and reset control | `run_control.rs`, `reset_control.rs` | requests and status by token, in one parameter | build request, parse status | two controls and other users in one parameter | read by its own reader only |
| Main loop, initialisation | `main_loop/`, `lib.rs` | - | run, quit, init | - | - |
| Dictionaries and properties | `libspa/src/utils/dict.rs`, `properties/` | key/value items in C | set, get, iterate, clear | borrowed keys, non-UTF-8 values | - |
| Small utilities, FFI crates, examples, build | `libspa/src/utils/`, `*-sys/`, `*/build.rs`, `pipewire/examples/`, `ci/` | none of their own | - | generated code | - |

How they interact: the control thread owns every Rust handle; it calls C methods
directly and gets events as callbacks inside `Loop::iterate` (sources), inside a
method (a method may emit an event before it returns), or on the data thread
(`process`). The only calls from other threads are `Sender::send`,
`EventSignal::signal`, the closures marked `Send`, and what a thread-loop lock allows.
`core.sync` is the barrier of the asynchronous protocol. Pods and dictionaries are
values that go with methods and events.

## 2. Modules

| Module | What | Proved in |
|---|---|---|
| `Mailbox` | abstract: accepted messages, delivered in order, gates | - |
| `Channel` | the channel; implements `Mailbox` | `ChannelProofs` |
| `ResourceTree` | abstract: native objects made from and destroyed before their parents | - |
| `Ownership` | smart pointers, drops, data thread; implements `ResourceTree` | `OwnershipProofs` |
| `LoopSources` | sources on the own loop and on another thread's | `LoopSourcesProofs` |
| `ListenerCallbacks` | one listener: trampolines on both threads, drop | `ListenersProofs` |
| `HookList` | rings of hooks, walks with cursors, removal, modules that destroy themselves | `ListenersProofs` |
| `ThreadLoop` | lock, waits, signal and accept, start and stop | - |
| `ThreadedListeners` | composes `ThreadLoop` and `HookList` | `ListenersProofs` |
| `SpaResults` | operators: results and sequence numbers | - |
| `Interfaces` | operators: event tables and trampolines of core, registry and the eight interfaces | - |
| `Session` | program, connection and server; uses the two above | `SessionProofs` |
| `PodLayout` | operators: the raw pod format | (used by the pod proofs) |
| `PodSerializer` | the streaming serializer | `PodSerializerProofs` |
| `PodSlices` | the slices a deserializer is given | - |
| `PodDeserializer` | the deserializer and its visitors | `PodRoundTripProofs` |
| `PodBuilder` | the native builder and the macros over it | `PodRoundTripProofs` |
| `PodParser` | the native parser and its frames | `PodRoundTripProofs` |
| `PodRoundTrip` | composes the four coders: one writes, one reads | `PodRoundTripProofs` |
| `PodEncoding` | the encoding of a whole value, recursive; only for TLC | - |
| `NdArrays` | array formats, their negotiation, typed buffers | `ProcessingProofs` |
| `Controls` | requests and completions of run and reset control | `ProcessingProofs` |

### Channel
A send is four steps another thread can see: called, mutex taken, pipe written
(`Signal`, only when the queue is empty), pushed and unlocked. `SignalFails` is the
error path that hands the message back. The IO closure is: polled, mutex taken, one
byte read (or the read fails, its result is discarded), the queue drained into the
callback one message at a time, unlocked. The callback runs with the mutex held, and is
user code as any other: it may call `send` on its own channel, which then waits for a
guard that only the callback's return would drop (`LockedOut`). The receiver can be
attached, detached and dropped whenever the loop thread is idle. `accepted` and
`delivered` are histories.
`Mailbox` is what a user is promised: a message accepted while the mailbox is open is
delivered, in order, once. The mapping is `queue`, `delivered`, and as the gate that the
receiver is attached and its callback not locked out. Mutex poisoning is unreachable: a panic in the callback aborts at
the `extern "C"` boundary.

### Ownership
A node is one Rust value that owns one native object; `Holds` is its last field, the
counted pointer to what it was made from. A drop is two steps, as in the code:
`Destroy` (the `Drop` implementation with the native call), then `Release` (the field).
Any operation may come in between because native destroy calls emit events. The
listener of a filter has three steps: its hook is removed (waiting for a running
`process`), its callback data is dropped piece by piece, its box is freed. The data
thread runs `process` and the timer, retains, returns and hands over buffers.
`program` is which nodes the application creates and whether its `process` closure drops
the trigger it owns; it is chosen from `Program` and never changes.
`offThread` records whether an `Rc` count was changed there.
`ResourceTree` says only: an object is created under a live parent and destroyed
before it.

### LoopSources
`calls` is the control thread's stack: callbacks, drops under way (user code runs in
the `Drop` of what a closure captured), and iterations in two phases, before and after
the timeout conversion that may panic. `Add`/`Update`/`DropSource` may come in any user
code, the drop of a source in its own callback too: nothing keeps a closure from owning
the source it belongs to. `request` is the blocking invocation of a timer on another loop; `Serve` is that
loop doing it, `Reply` the code after `invoke_blocking` with its failure paths (a
failed registration frees the closure, a failed destruction leaks it).

### ListenerCallbacks
`closures` and `table` are the builder's result; `record` says whether the boxes are
still Rust's or lent to C; `stack` holds the running trampolines of the two threads.
`UniqueOf`/`SharedOf` are the references a trampoline makes, per kind of listener:
the stream takes `&mut` to the record, the filter one cell per event and `&` to the
user data, a proxy `&` everywhere. The drop unlinks the hook, waits for the data
thread to let go of its copy of the callbacks, frees the boxes. It may begin anywhere on
the main loop's thread, also inside callbacks of the listener itself; those go on when it
has ended, and `selfDropped` remembers it.

### PodSerializer
`out` and `pos` are the writer, `open` the nested container serializers (struct,
object, array) with the counters the code keeps, `items` a history of what was written
into each. One action per call. Structs and objects are begun with size 0 and `End`
seeks back to the header, rewrites it and seeks to the *end of the writer*. An array
announces its length; the guard in `serialize_element` is a bitwise not and is modelled
as such (`TooMany`). A failing write leaves the serializer without a writer: whoever
goes on panics (`GoOnAfterError`). `PodLayout` holds the bytes of pods written by one
call.

### PodDeserializer
`input` is the slice, `pos` how much of it is consumed, `open` the nested container
deserializers with what the code keeps for them (`remaining` for a struct or object,
`length` and `deserialized` for the elements of an array or choice), and two numbers the
code does not keep, which the properties need: where the header said the container ends
and where its current field began. The `*At` operators are the parsers: what is found at
an offset, or how the parse fails. An action is one call on the innermost deserializer;
a field that is complete is counted off in the same step (`Completes`). The visitor is
either `ValueVisitor`, which follows what it reads, or one of the application, which asks
for types of its choosing, returns early, fails, or goes on after an error.
`checks` tells a build with overflow checks, where `u32` subtractions panic, from one
where they wrap. The element guard is again a bitwise not, so that reading by hand
behind an array's end is not refused until `end`, where the assertion panics
(`MaxExtra` bounds it).

### HookList, ThreadLoop and ThreadedListeners
A node of `HookList` is the list head of an object, the hook of a listener or the cursor
of a walk: the library puts a cursor behind the hook it calls, so that callbacks may add
and remove hooks. `next` and `prev` are the pointers, `live` the memory that is not
freed. A removal is two steps (`StartRemove`, `FinishRemove`), because `list::remove`
writes to two neighbours one after the other; a listener's `Drop` is the removal and the
freeing of its box, wherever it is called, from the listener's own callback too. `module` is the cell that a `LocalModule` shares with its listener:
the free callback empties it (`ModuleFreed`), `DropModule` destroys only what is still in
it. `dangling` records a write through a pointer to freed memory.

`ThreadLoop` has the recursive lock (`owner`, `depth`), the guards of each program thread
and where it is. `Sleep` gives the lock back *once*, as the condition variable does;
`Answer` is a callback that signals, with or without waiting for acceptance
(`n_waiting_for_accept` is `unaccepted`). `ThreadedListeners` lets a thread into the
rings only with a guard, or in a dispatch, and lets a callback that waits for acceptance
release the lock in the middle of a walk: then the program's thread changes the very
list the loop's thread is in. Two misuses are in the model because the types allow them:
`stop` with the lock held, of which the documentation warns (`StopsLocked`), and an object
dropped before a listener registered with it, of which no documentation speaks.
`OrderedSpec` is the specification of the programs that do not do the second
(`ListenersGoFirst` holds after each of their steps); the proofs about the rings are of
it, the run is of `Spec`, which has both kinds of program.

### SpaResults, Interfaces and Session
`Session` is a program with one core, one registry and proxies, two queues (`requests`
to the server, `events` back) and a server whose objects appear, vanish and change; an
object's `gen` tells two objects with one id apart. `Program` is the Rust API; `Server` is
external and answers as the crate's documentation expects, in order; `Loop` delivers one
event through the trampolines of `Interfaces`, which convert raw arguments as the code
does: a change mask, absent strings, ids, and `Crash` where it would panic. `CoreSync`
gets its number from `SpaResults`, where `AsyncBit` is the width left for sequence
numbers, so that they wrap. The program keeps of each info what its mask names
(`Kept`).

### PodBuilder, PodParser and PodRoundTrip
`PodBuilder` is the native builder with its stack of frames over a `Vec` that grows through
the overflow callback; the macros leave by `break` when an addition fails, with a frame in
a local that the native builder still links (`alive` in `native.frames`); a `?`, a `return`
or a panic in one of their arguments leaves the same way, and the model does not ask for a
reason (`LeaveEarly`). The builder is only lent, so it may be called again: what the call
writes through a dead frame is undefined, and the model ends there (`CallAfterLeaving`).
`sound` is the assertion in the overflow callback. `PodParser` enters
structs and objects, gets values, and pops early or late; after a refusal, which may leave
a struct early, the same parser may be asked again (`AskAgain`, `AskAfterLeaving`).
`PodRoundTrip` runs a writer to its end and hands what it wrote to a reader; the
deserializer also reads slices from elsewhere.

### NdArrays and Controls
The producer offers a format (`Offer`) with alternatives (`WithElements`, `WithLayouts`,
`WithRateChoice`); the filter between the two sides settles each choice (`Settle`), or a
peer spoils the result (`Spoil`: a property lost, repeated, of another type); each side
reads it (`ReadFormat`, with the profile it expects) through the checks of `NewFormat`,
which works on narrow integers so that dimension, element count and byte count can
overflow. Then a buffer is mapped at some address and size and goes between them:
`Output` checks and publishes a chunk, `ForeignOutput` is a peer that writes whatever it
likes, `Input` checks all of it.
`Controls` builds a request or completion as a list of fields inside a parameter that has
other users too, alters it, and asks both readers of both controls.

## 3. Runs

| Run | Instance | Shows |
|---|---|---|
| `channel` | 2 senders + loop, 3 messages, fairness | no lost wakeup, honest `Err`, every send returns unless the channel's own callback sends, implements `Mailbox` with its liveness |
| `ownership` | three programs: core, filter, listener, trigger, timer, 1 port, 1 buffer; all other shared kinds, with a closure that may drop its trigger; a module; weak upgrades, fairness | callbacks see live objects; handles stay valid for upgrades between any two drop steps; counts stay on the control thread but for a dropped trigger's; nothing leaks once the handles are dropped; implements `ResourceTree` |
| `ownership_trigger` | closures may drop their trigger | *violation*: the filter's `Rc` is decremented on the data thread |
| `listener_filter` | 4 events, both threads, closures whose calls may lead back to their own event, stack of 3, a drop anywhere | no aliasing but by re-entry on one thread, no dangling closure but of the callbacks a drop is made in |
| `listener_stream_rt` | RT process | *violation*: two `&mut` to one user data |
| `serializer_slice` | a slice of 64 bytes | *violation*: `end()` does not seek back |
| `round_trip` | serializer: three levels, two items each, room for 80 bytes; builder: the same on an old `Vec` of 20 bytes, no addition behind 40; 56 bytes handed to both readers; besides, slices cut at every byte, continued, or with any word changed; both builds | the bytes are the encoding, whoever writes them, and are read back by both readers; exact counters; what is cut is an error; a container is left only at its end; a builder links the frames of what is under construction, or only frames that are gone |
| `frames_left_early` | the same | *violation*: a builder that is called after a container was left early finds a dead frame linked (and so does a parser) |
| `loop` | event and idle source of the own loop, timer of another; stack of 3, fairness | no closure is forgotten, or freed while a source has it or while it runs, unless its callback drops its own source; a disarmed timer is quiet; signals are not lost and are answered, whatever the control thread waits for; enter and leave balance |
| `thread_loop` | 1 program thread and the loop; a stream with 2 listeners, dropped in any order, and a module that destroys itself; `stop` with and without the lock; fairness | whole rings, one destruction, complete walks; a dangling write is only made by a listener dropped after its object; every call returns unless a stop was called with the lock held, and that one never does |
| `session` | ids 1 and 2, one proxy, all eight interfaces, 4 calls, 1 change, numbers of 3 bits | done is a barrier; a stale bind is told; events fit their proxy; infos add up; calls are answered |
| `processing` | integers of 6 bits for 32 and 11 for 64; formats of 3 profiles, buffers at 2 addresses | what both sides agree on was offered; what was written is read; a control message is read by its own reader only |

Bounds and why they are enough. *Channel*: a lost wakeup or a misorder needs two
senders and a batch of two with a third message after it. *Ownership*: one port with
one buffer is the least in which a buffer is and is not the port's last owner, as the
port's handle and the callback data may own it too; the proofs are for any number, and
`ownership_trigger` has two buffers. Every shared kind occurs in `ownership`. *LoopSources*: `MaxExpirations` caps what a timer
accumulates (two tells "some left" from "one"); `MaxDepth` of three holds a callback, the
drop it does and the user code that runs in that drop, or an iteration nested in a
callback. *Listeners*: stack of three, so a
trampoline nests and returns to its own event if anything does. *Pods*: `MaxDepth` of 3
and `MaxItems` of 2 give every pair of containers inside one another with
something before and after; `Capacity` and `MaxLength` let a write fail in each of them;
what is longer than `MaxHandedOver` is written and compared but not read, which still
gives the readers three levels. `Modulus` is 1024 instead of 2^32 (2^16 in
`serializer_slice`) because TLC's integers
are 32 bits wide and a wrapped element count is counted out one by one; every slice is
shorter than it, as the code's `as u32` assumes. The slices hold each
type of pod, each kind of choice, empty and padded bodies, and containers in one another
three deep; the words a header or a count is changed to (0, 4, 8, 12, 40) are below,
at and above what the pod holds. *ThreadedListeners*: `MaxCalls`, `MaxGuards`, `MaxWalks`,
`MaxEvents` and `MaxArrivals` cap what threads do; three calls are a lock, a request and
one more while the answer is under way, a ring of two hooks and a cursor has the
neighbours that go one after the other, and one walk whose callback releases the lock is
enough for the other thread to change the list under it. *Session*: two ids, one of which
is used again, and one proxy that is bound again; a bind, a sync, a destruction and one
more call; three bits of number make the second sync's number meet an older one. A
variant with two proxies and two interfaces (3.8 million states) was checked by hand and
shows nothing new. *Processing*: `IntMax` 31 and `UsizeMax` 2047 put dimensions, counts
and sizes on both sides of every limit; controls are exercised only while no format is
offered, as the two share no state; a format is spoiled only when it was offered without alternatives, as its keys
are the same.
`CHECK_DEADLOCK FALSE` is set where the system may really
stop: everything sent, everything dropped, the pod returned, the loop stopped, the calls
made. Every passing run's
properties have a mutant in `PROJECT.json`, a plausible bug under which TLC finds the
property violated.

## 4. Fairness

*Channel* (`FairSpec`): a thread inside `send` keeps running, the loop keeps
iterating and a callback that does not wait for the mutex returns (weak fairness, of
`DispatchGoesOn`), a read of a readable pipe does not fail forever (strong fairness of
`Read`). No read has to fail, so one that found the pipe empty would wait for ever. Nobody
must send, attach or detach. *Ownership*: a drop that has
begun runs to its end and callbacks return (weak); the two steps that wait for the
data thread, removing a hook and destroying a timer, are strongly fair because they
are invocations that the data loop serves between callbacks. *LoopSources*: the
program iterates its loop, callbacks return, each iteration reaches every ready
source, and the other loop flushes its invocation queue every time round (strong, as
callbacks come in between). *ThreadedListeners*: the
loop's thread goes on (weak fairness of its steps together), a thread inside a ring
leaves it (weak), and a program thread does what is due: it comes back from a wait or a
join, accepts what it was answered, waits for what it asked, and drops its guard, since
the documentation asks that nobody keep the lock. Nobody must call anything new. A thread
that called `stop` with the lock held has nothing due: the exception is in
`EveryCallReturns`, not in the specification. `FairSpec` is `Spec` with this
fairness. *Session*,
*processing*, the pods and *ListenerCallbacks* state safety only: whether a server answers
is the server's.

## 5. Proofs

All theorems hold for every value of the constants that satisfies the named
assumptions of the modules.

* `ChannelProofs`: `IInv` adds to the checked invariants that a message in flight
  belongs to one send, that a sender about to push has left a byte in the pipe
  (`Signalled`), and that the loop thread calls `send` from user code only, outside of a
  dispatch or in its callback (`SendsFromUserCode`), so that it is never past the lock in
  both at once (`LoopThreadOnce`).
  Without `Signalled` the wakeup invariant is not inductive: the push makes the queue
  non-empty. From it: types, `NoLostWakeup`, order, honest outcomes, mutual exclusion,
  no delivery when detached, and the refinement of `Mailbox` (safety part).
* `OwnershipProofs`: the induction rests on `TargetsAreLive` (who has not released its
  pointer has a live target), `OneOwner`, `HookIsLive` and that a stored buffer's port is
  stored with it. From it: `ChildrenDieFirst`, `HandlesAreLive`,
  `CallbackSeesLiveData`, the refinement of `ResourceTree`; and of programs whose
  closure keeps its trigger, `DataOutlivesHook` (which no run repeats) and that counts stay
  on the control thread (`OnlyTheTriggerCountsElsewhere`).
* `LoopSourcesProofs`: the invariant relates what the control thread owns, what a loop
  has registered, and what an invocation under way will answer (`RequestIsHonest`).
  From it: `RegisteredHasClosure`, `RunningClosureAlive` (of the callbacks of both loops,
  with the exception of one that drops its own source: that a source which has a callback running was registered is
  `CallsAreHonest`), `DisarmedIsQuiet`, `NoSignalLost`. `NoLostClosure` (a drop under way stays on the stack of calls until it
  has freed its box) and `Balanced` (by counting the entries of the loop on that stack)
  are inductive relative to it.
* `ListenersProofs`, on one listener: `RunningClosureIsLive` for every kind of listener,
  dropped anywhere: the only trampolines that may lose their closure are those on the main
  loop's stack when the drop was made on top of them (`selfDropped`);
  `ReferencesAreExclusive` for a filter none of whose events is emitted on both threads
  (`listener_stream_rt` shows that no such condition helps a stream): two trampolines
  alias only where a closure is entered again from its own calls (`Reenters`); and
  `NoClosureIsReentered`, that this does not happen when calls never lead back to the same
  event.
* `PodSerializerProofs`: for a writer handed over at its end (`Start = Existing`), the
  counters of all open containers agree with the position (`CountersAreExact`), which
  needs that arrays are innermost, that pods are multiples of 8, and that overwriting a
  header moves no end. From it: alignment of every field and `EndSeeksBack`, the very
  property the run `serializer_slice` refutes for other writers.
* `PodRoundTripProofs`, on the deserializer (`D!`): for any slices shorter than 2^32, any
  visitor and either build. `TypeOK` bounds `pos` by the slice, whatever the headers say; it
  needs that a string's `len - 1` wraps to a size no slice has. `RemainingIsExact` says that
  `remaining` is, modulo 2^32, the way from where the current field began to the
  container's end: a field that takes too much wraps the count, and from a wrapped count
  zero is never reached by accident because all positions are below 2^32 (`MinusZero`).
  With `BetweenFields` it gives `LeftAtItsEnd`, the action property that makes the next
  pod begin where it should.
* `PodRoundTripProofs`, on builder and parser (`B!`, `P!`) and on the composition. Of the
  builder: each frame's size is what was written behind its header (`FrameCounts`), the
  Vec's length is the builder's size, and the frames it links are in step with the
  containers under construction (`FramesAreThoseOpen`) until one of them is left early; from
  then on all that is linked is gone and nothing is under construction
  (`FramesAreAllGone`), so no call changes the books any more. Of the parser: an open frame
  ends within the slice, so that every size read lies in it and the next frame ends in it
  too (`ParserReadsInside`). That no call finds a dead frame linked is a theorem only of
  programs that leave no container early, with a builder or a parser (`NothingLeftEarly`,
  the hypothesis of `LinkedFramesLive`): the run `frames_left_early` refutes it of the
  others. Of all four: bytes handed over are those of the
  serializer's sound writer (`Start = Existing`, `IInv`) or of the builder's sound Vec, so
  they are a slice as the readers' invariants want it (`ReadersAreUsedSoundly`), from which
  `LeftAtItsEnd` follows for the composition, as the run checks it.

* `ListenersProofs`, on the lock: for any number of threads, guards and rings. The invariant says
  who owns the lock and how often (a program thread while it has guards and does not
  sleep, the loop while it dispatches), and that a removal that is half done belongs to a
  thread that may call. Without the first part the second does not last: a callback
  releases the lock in the middle of a walk, and only because it is then in no removal is
  the ring whole. From it: `OneCaller`, and `RemovalsAreAlone`, which makes the two
  writes of `hook::remove` one step for every other thread; and `LockedStopHangs`: while a
  thread joins with a guard of its own the loop's thread, which takes the lock to leave,
  has not left (`StopNeedsTheLockFree`).
* `ListenersProofs`, on the rings: for programs that drop no listener after its object
  (`OrderedSpec`; it is needed, as a listener dropped later writes to the freed list
  head), any number of objects, listeners, modules, threads and nested
  walks. The inductive part is `HInv`: `next` and `prev` are inverse on the ring of every
  live object, which is its listeners and the cursors of the walks over it, and it has no
  part that `next` does not lead out of (`RingsAreWhole`, `OneCycle`); in the middle of a removal, what the second write will leave is such a
  ring (`HalfRemoved`); a live module's one listener is its neighbour and holds its
  pointer (`ModulesAreKnown`); a module that goes has told it, or has it straight ahead of
  its cursor (`FreeingIsTold`). The last two are needed together: a `LocalModule` that is
  dropped later looks at the pointer only, so a walk that ended without meeting the
  listener would make it destroy the module twice. Each list step keeps this when no other
  thread is in the middle of something (`Alone`), which is what the lock gives
  (`CallersAreAlone`). From it: `NoDanglingWrite`,
  `DestroyedOnce` and `ListsStayWhole`; for the last, that following `next` as often as there
  are nodes comes to all of the ring is an induction over a set of numbers
  (`SetInduction`), which the well-founded order of the numbers gives.
* `ListenersProofs`, on the walks over those rings, under the same hypothesis:
  `CallsAreComplete`, an action property of the step that ends a walk. `WalksGoOn` says of
  every walk under way, also of the outer ones of nested walks over one ring, which nodes
  are ahead of its cursor: a set that `next` leads through and then back to the object
  (`Ahead`). A hook the walk is due to call is ahead and not yet called, or behind and
  called once (`Tally`). Each way of writing to a ring is a lemma about pointers alone: a
  hook or a foreign cursor linked in anywhere (`LinkedGoesOn`), one taken out
  (`UnlinkedGoesOn`), the cursor's own step (`SteppedGoesOn`), which with `HInv` cover
  the steps of all threads; another walk's step is the second and then the first. A hook
  leaves the ring, for walks, with the first write of `hook::remove` (`InRing`): the second
  is to `prev`, which no walk follows. When the cursor is back at the object, `OneCycle`
  leaves nothing ahead of it, so everybody due was called (`EndedGoesOn`). That the thread
  which ends the walk holds the lock, and so finds the ring whole, is `EndersMayCall`.
  TLC checked `WalksGoOn` as an invariant, with two nested walks, before it was proved.

* `SessionProofs`: for any ids, proxies, types and calls. `WireInv` orders what is in
  flight (requests carry the numbers after the last handled one, an event caused by a
  request is younger than the last sync seen done, at most one sync is waited for) and gives
  `BarrierHolds`; that a done is matched by its number needs that calls in flight are fewer
  than there are numbers, which is what `Request` waits for. `ServerInv` and `ProxyInv` are
  the types on both sides and in between: what a proxy stands for has the type the program
  believes (`TypesAgree`), and a proxy not yet used is in no request or event
  (`UnusedIsFresh`). From it: `EventsFitTheProxy`. `StaleBindIsTold` needs where the news of
  an object's end is (`StaleInv`): an announced object still is, or its `global_remove` is on
  its way *before* every event of an object that has its id later, or the program was told.
  `CallsAreAnswered` needs who will answer (`AskedInv`): the request, a `param` or an error on
  its way. `MirrorsAgree` needs what it becomes while events are under way (`MirrorInv`): the
  last event on its way that tells a proxy of a field says what the object has now, and only
  where there is none is it what the program kept (`UpToDate`). For that, every step of the
  server that changes an object tells each proxy bound to it of that field in the same step
  (`ServerInforms`), a new one is told of every field, and nothing is told of it before its
  request is handled, so that nothing old is kept (`IsPending`). What the listeners make of
  an info is proved for each of the seven layouts: the masked field as the object has it
  (`InfoIsGiven`).

* `ProcessingProofs`, on formats and buffers: for any widths, shapes, rates, choices and
  addresses (dimensions and rates are u32, a range has its two ends). What the operators
  compute is proved first: a product over a shape is a number and not zero when no dimension
  is (an induction over the product's prefixes); what `properties()` writes, settled in any of
  the ways the filter may, is read as the chosen format (`SettledIsRead`), also behind
  properties of others, and not at all once one property is lost, doubled, open or negative
  (`SpoiledIsRefused`); a rate between a range's ends is one of the offered, as the order of
  fractions is transitive when none is zero. `ArraysAreSound` then says that an offer is
  valid, what is settled is chosen from it or cannot be read, each side has read what is
  settled now, and a written buffer is whole and described. From it: `AgreedIsOffered`,
  `WrittenIsRead`.
* `ProcessingProofs`, on controls: a message sent conforms to the fields of one control and
  one kind (`ControlsAreSound`), the keys of the four kinds differ, and one alteration of a
  pair leaves nothing that conforms. From it: `ControlsReadByOne`. It is stated of
  `ControlSpec`, the part of the run's specification that concerns controls.

Only model-checked: everything under fairness (`SendHangsOnlyIfCallbackSends`,
`NothingLeaks`, `SignalledIsCalled`,
`EveryCallReturns`, `ImplementsFairMailbox`), because liveness and `ENABLED` are outside
the prover; `OutputIsEncoding`, `BuiltIsEncoding`, `SlicesAreReadWhole` and
`ParsedIsWritten`, whose reference encoder is recursive on values; `DanglesOnlyIfOutlived`, as the proofs
about rings are of `OrderedSpec`. A
listener on a proxy (`Kind = "proxy"`) is covered by the proofs, which hold for every kind, and by no
run.

## 6. Where code and documentation disagree

`PROJECT.json` quotes each under `findings`, with the lines:

* `ownership_trigger`, `listener_stream_rt`, `serializer_slice`: the safety comment, the
  documentation of `RT_PROCESS` and the comment on seeking back do not hold.
* `frames_left_early`: the macros do not keep the contract of the unsafe methods they
  call, since their frames go before they are popped.

Beside each of the last three a passing run has a property that states the condition under
which all is well; `OnlyTheTriggerCountsElsewhere` does so for the first.

Safe code can do all of the following, and but for the last no document forbids it. The
models do it too; what comes of it is the exception that the named property makes:

* A callback sends on the channel it is the callback of: the send never returns, and
  whatever else is sent waits with it (`SendHangsOnlyIfCallbackSends`).
* A source is dropped in its own callback: the closure is freed while it runs
  (`RunningClosureAlive`). The same of a listener dropped inside one of its closures
  (`RunningClosureIsLive`).
* A closure's call emits the closure's own event: the `FnMut` that is running is entered
  again (`ReferencesAreExclusive`, `Reenters`).
* A listener is dropped after the object it listens to: its hook is removed from a list that
  is freed (`DanglesOnlyIfOutlived`).
* A thread stops its loop with the lock held, of which the documentation warns: it never
  returns (`LockedStopHangs`).

## 7. What is not modelled

The components listed `not_modelled` in `PROJECT.json`, with reasons: code that only
passes values to C, generated FFI, examples. Of the others:

* *Ownership*: the `Box` variants of the smart pointers (their lifetimes are the
  compiler's) and the proxies as counted pointers. A retained buffer that is still out when
  its filter disconnects is a hazard without a property: what becomes of the buffer is
  decided in C.
* *Loop and sources*: two loops that invoke into each other at once, each of which would
  wait for the other to serve it; a callback of the other loop that drops its own timer
  (the timer's value belongs to the control thread).
* *Listeners*: what a closure does after it was freed under its own feet; there is one
  listener at a time, and a new one is made only when no callback of the last one runs.
* *Pods*: arrays of `None` elements, which are written with a count and read back as empty;
  what a builder or a parser does once it has used a frame that is gone; `PodSerializer` on a 32-bit target (4-byte pointers are read, not written),
  `deserialize_ptr` (it trusts the size behind a raw pointer), what `Vec::with_capacity`
  reserves for an announced array, and UTF-8 beyond ASCII (a string is ASCII or holds a byte
  that starts no character).
* *Session*: the C server and the wire, which are external and in order; the contents of
  dictionaries.
* *Formats, buffers*: the media types, the audio and video infos and the other format
  keys, which are enumerations and accessors; the metadata records of `meta.rs`, views of
  fixed structs in shared memory.

Oddities met on the way and in the models without a property of their own:

* `deserialize_none` unwraps, so that a pod of another type is a panic where every other
  method returns an error; `deserialize_element`, documented to panic when no element
  is left, reads on and leaves the panic to `end`.
* A thread that waits on a threaded loop with two guards releases one level of the lock
  and keeps the loop out; a callback that signals and waits for acceptance waits for a
  waiter that has timed out.
* `Device`, `Client`, `Module` and `Factory` panic on an info whose mask has bits they do
  not know, where `Node`, `Port` and `Link` keep them; a proxy's error trampoline panics on
  a message that is not UTF-8, where the core's is lossy.
* `Port::enum_params` goes through the node's method table, which works because the
  layouts agree; `Module::filename` returns the name; `destroy_object` consumes a proxy
  that its drop destroys again.
* An enumerated array format checks the size of its default only: an alternative with a
  wider element type may overflow the byte count, and is then refused by the reader.

## 8. Plan

Modelled and checked so far: all of the above. What is left:

1. Proofs: every safety property that is not about the recursive reference encoder has its
   theorem; section 5 says why the others stay with the model checker.
2. Metadata records and dictionaries as pure operators, if they come to hold more than
   views of C data.

## 9. Running

`tlc -config Channel.cfg Channel` and so on: `PROJECT.json` pairs configurations with
modules. `tlapm ChannelProofs.tla` and so on checks the proofs.
