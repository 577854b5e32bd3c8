------------------------------- MODULE HookList -------------------------------
(***************************************************************************)
(* The hook lists through which the library calls listeners.  An object    *)
(* (a stream, a proxy, a loaded module) keeps a ring of hooks; a listener  *)
(* is a boxed hook linked into the ring of its object.  Listeners are      *)
(* removed by this crate, which writes to the two neighbours; the library  *)
(* appends hooks and walks the ring with a cursor of its own, so that      *)
(* callbacks may add and remove hooks while the walk goes on.              *)
(*                                                                         *)
(* The two writes of list::remove are two steps: what lies between them is *)
(* what the lock of a threaded loop is for.                                *)
(***************************************************************************)
EXTENDS Naturals, Sequences, FiniteSets

CONSTANTS
  Object,              \* owners of a ring
  Listener,            \* boxed hooks
  Of,                  \* the object of each listener
  Module,              \* the objects that are local modules
  Caller,              \* the threads that make calls
  MaxWalks,            \* bound on the nesting of walks in one thread
  MaxEvents,           \* bound on the events emitted in a behaviour
  None

Cursor == Caller \X (1 .. MaxWalks)
Node == Object \cup Listener \cup Cursor

(* What is asked of the constants; assumed where the module is used.  A    *)
(* module has the one listener that LocalModule::load registered.          *)
HookListAssumption ==
  /\ Of \in [Listener -> Object]
  /\ Module \subseteq Object
  /\ \A l, k \in Listener : Of[l] = Of[k] /\ Of[l] \in Module => l = k
  /\ MaxWalks \in Nat \ {0} /\ MaxEvents \in Nat
  /\ None \notin Node \cup [hook : Listener, next : Node, prev : Node]
  /\ Object \cap Listener = {} /\ (Object \cup Listener) \cap Cursor = {}

VARIABLES
  next, prev,          \* of each node, the pointers of its spa_list
  live,                \* the nodes whose memory is allocated
  walks,               \* of each thread, the walks it is in, innermost last:
                       \* .due has the hooks linked since before it began
  removing,            \* of each thread, the removal it is in the middle of
  module,              \* LocalModuleState.module of each module's listener
  destroyed,           \* of each object, how often it was told to go
  dangling,            \* a write has hit memory that was not allocated
  events               \* how many more events are emitted

hookVars == <<next, prev, live, walks, removing, module, destroyed,
              dangling, events>>

-----------------------------------------------------------------------------
(* Pointers. *)

Links == [next |-> next, prev |-> prev]

(* list::remove, its first write: (elem.prev).next = elem.next. *)
Predecessor(links, elem) == [links EXCEPT !.next[elem.prev] = elem.next]

(* Mutant: the second write is left out. *)
SuccessorKept(links, elem) == links

(* list::remove, its second write: (elem.next).prev = elem.prev. *)
Successor(links, elem) == [links EXCEPT !.prev[elem.next] = elem.prev]

Unlink(links, n) ==
  LET elem == [next |-> links.next[n], prev |-> links.prev[n]] IN
  Successor(Predecessor(links, elem), elem)

(* spa_list_insert: node n behind node at. *)
Insert(links, at, n) ==
  LET behind == links.next[at] IN
  [next |-> [links.next EXCEPT ![at] = n, ![n] = behind],
   prev |-> [links.prev EXCEPT ![n] = at, ![behind] = n]]

SetLinks(links) == /\ next' = links.next
                   /\ prev' = links.prev

Walked(o) == \E t \in Caller : \E i \in DOMAIN walks[t] : walks[t][i].object = o
Here(t) == <<t, Len(walks[t])>>
Walk(t) == walks[t][Len(walks[t])]

(* The nodes of the ring that starts at o, in any number of steps. *)
Reachable(o) ==
  LET reach[i \in 0 .. Cardinality(Node)] ==
        IF i = 0 THEN {o}
        ELSE LET r == reach[i - 1] IN r \cup ({next[n] : n \in r} \ {None})
  IN reach[Cardinality(Node)]

(* The listeners of o whose removal has not begun. *)
Registered(o) ==
  {l \in Listener \cap live : Of[l] = o /\ \A t \in Caller :
     removing[t] # None => removing[t].hook # l}

-----------------------------------------------------------------------------
HookInit ==
  /\ next = [n \in Node |-> IF n \in Object THEN n ELSE None]
  /\ prev = next
  /\ live = Object
  /\ walks = [t \in Caller |-> <<>>]
  /\ removing = [t \in Caller |-> None]
  /\ module = [l \in Listener |-> None]
  /\ destroyed = [o \in Object |-> 0]
  /\ dangling = FALSE
  /\ events = MaxEvents

Free(t) == removing[t] = None

(* A thread makes calls when it is in no walk, or from a closure that one  *)
(* calls; module_freed makes none.                                         *)
Calls(t) ==
  /\ Free(t)
  /\ walks[t] # <<>> => Walk(t).at \in Listener /\ Walk(t).kind = "event"

(* register of a listener builder, or LocalModule::load: a box whose hook  *)
(* the library appends to the ring of the object.  Each box is made once.  *)
Register(t, l) ==
  LET o == Of[l] IN
  /\ Calls(t)
  /\ next[l] = None /\ o \in live
  /\ o \in Module => destroyed[o] = 0
  /\ live' = live \cup {l}
  /\ SetLinks(Insert(Links, prev[o], l))
  /\ module' = [module EXCEPT ![l] = IF o \in Module THEN o ELSE None]
  /\ UNCHANGED <<walks, removing, destroyed, dangling, events>>

-----------------------------------------------------------------------------
(* Dropping a listener. *)

(* hook::remove is given a copy of the hook: the pointers of this moment. *)
StartRemove(t, l) ==
  LET elem == [hook |-> l, next |-> next[l], prev |-> prev[l]] IN
  /\ SetLinks(Predecessor(Links, elem))
  /\ removing' = [removing EXCEPT ![t] = elem]
  /\ walks' = [u \in Caller |-> [i \in DOMAIN walks[u] |->
                  [walks[u][i] EXCEPT !.due = @ \ {l}]]]
  /\ dangling' = (dangling \/ elem.prev \notin live)

(* Drop of a stream's, filter's, proxy's, core's or registry's listener,   *)
(* outside the walks or inside one, which may be calling this listener.    *)
(* Nothing ties the listener to its object: the drop may come after the    *)
(* object's, and then writes to the ring's head all the same.              *)
DropListener(t, l) ==
  /\ Calls(t)
  /\ l \in live /\ Of[l] \notin Module
  /\ \A u \in Caller : removing[u] # None => removing[u].hook # l
  /\ StartRemove(t, l)
  /\ UNCHANGED <<live, module, destroyed, events>>

(* Mutant: the owner does not ask whether the module is still there. *)
DropModuleUnasked(t, l) ==
  /\ Calls(t)
  /\ l \in live /\ Of[l] \in Module
  /\ \A u \in Caller : removing[u] # None => removing[u].hook # l
  /\ StartRemove(t, l)
  /\ module' = [module EXCEPT ![l] = None]
  /\ UNCHANGED <<live, destroyed, events>>

(* Drop of a LocalModule: takes the pointer; without one the module has    *)
(* destroyed itself and there is nothing to remove.                        *)
DropModule(t, l) ==
  /\ Calls(t)
  /\ l \in live /\ Of[l] \in Module
  /\ \A u \in Caller : removing[u] # None => removing[u].hook # l
  /\ module' = [module EXCEPT ![l] = None]
  /\ \/ /\ module[l] = None
        /\ live' = live \ {l}
        /\ UNCHANGED <<next, prev, walks, removing, dangling>>
     \/ /\ module[l] # None
        /\ StartRemove(t, l)
        /\ UNCHANGED live
  /\ UNCHANGED <<destroyed, events>>

(* The second write; then the box is freed, and a LocalModule destroys its *)
(* module, whose ring is walked once more before it goes.                  *)
FinishRemove(t) ==
  LET elem == removing[t]
      o == Of[elem.hook]
  IN
  /\ ~Free(t)
  /\ removing' = [removing EXCEPT ![t] = None]
  /\ dangling' = (dangling \/ elem.next \notin live)
  /\ SetLinks(Successor(Links, elem))
  /\ destroyed' = IF o \in Module THEN [destroyed EXCEPT ![o] = @ + 1] ELSE destroyed
  /\ live' = live \ (IF o \in Module THEN {elem.hook, o} ELSE {elem.hook})
  /\ UNCHANGED <<walks, module, events>>

-----------------------------------------------------------------------------
(* The library walks a ring. *)

StartWalk(t, o, kind) ==
  LET c == <<t, Len(walks[t]) + 1>> IN
  /\ Calls(t)
  /\ o \in live
  /\ Len(walks[t]) < MaxWalks
  /\ walks' = [walks EXCEPT ![t] =
       Append(@, [object |-> o, kind |-> kind, at |-> o, called |-> <<>>,
                  due |-> Registered(o)])]
  /\ live' = live \cup {c}
  /\ SetLinks(Insert(Links, o, c))
  /\ UNCHANGED <<removing, module, dangling>>

(* An event of an object, from the loop or from within a method call; the  *)
(* listener of a LocalModule has a callback for free only.                 *)
EmitEvent(t, o) == /\ o \notin Module
                   /\ StartWalk(t, o, "event")
                   /\ events > 0 /\ events' = events - 1
                   /\ UNCHANGED destroyed

(* A module schedules its own destruction: it tells its hooks and goes. *)
ModuleDestroysItself(t, o) ==
  /\ o \in Module /\ destroyed[o] = 0 /\ ~Walked(o)
  /\ \A u \in Caller : ~Free(u) => Of[removing[u].hook] # o
  /\ StartWalk(t, o, "free")
  /\ destroyed' = [destroyed EXCEPT ![o] = @ + 1]
  /\ UNCHANGED events

(* Mutant: the callback of a module that goes leaves the pointer. *)
ModuleFreedKept(l) == module

(* module_freed: the saved pointer is no longer available. *)
ModuleFreed(l) == [module EXCEPT ![l] = None]

(* The cursor steps over the next hook, whose callback is called; a walk   *)
(* over a cursor of another walk calls nothing.                            *)
Call(t) ==
  LET w == Walk(t)
      pos == next[Here(t)]
  IN
  /\ Free(t)
  /\ walks[t] # <<>> /\ pos # w.object
  /\ SetLinks(Insert(Unlink(Links, Here(t)), pos, Here(t)))
  /\ dangling' = (dangling \/ pos \notin live)
  /\ IF pos \in Listener
     THEN /\ walks' = [walks EXCEPT ![t][Len(walks[t])].at = pos,
                                    ![t][Len(walks[t])].called = Append(@, pos)]
          /\ module' = IF w.kind = "free" THEN ModuleFreed(pos) ELSE module
     ELSE UNCHANGED <<walks, module>>
  /\ UNCHANGED <<live, removing, destroyed, events>>

EndWalk(t) ==
  LET w == Walk(t) IN
  /\ Free(t)
  /\ walks[t] # <<>> /\ next[Here(t)] = w.object
  /\ walks' = [walks EXCEPT ![t] = SubSeq(@, 1, Len(@) - 1)]
  /\ SetLinks(Unlink(Links, Here(t)))
  /\ live' = live \ (IF w.kind = "free" THEN {Here(t), w.object} ELSE {Here(t)})
  /\ UNCHANGED <<removing, module, destroyed, dangling, events>>

(* Any other object is dropped by the program that owns it, outside its    *)
(* callbacks, whether or not its listeners are gone.                       *)
DropObject(t, o) ==
  /\ Calls(t)
  /\ o \in live \ Module
  /\ ~Walked(o)
  /\ \A u \in Caller : ~Free(u) => Of[removing[u].hook] # o
  /\ destroyed' = [destroyed EXCEPT ![o] = @ + 1]
  /\ live' = live \ {o}
  /\ UNCHANGED <<next, prev, walks, removing, module, dangling, events>>

HookStep(t) ==
  \/ \E l \in Listener : Register(t, l) \/ DropListener(t, l) \/ DropModule(t, l)
  \/ FinishRemove(t)
  \/ \E o \in Object : \/ EmitEvent(t, o)
                        \/ ModuleDestroysItself(t, o)
                        \/ DropObject(t, o)
  \/ Call(t)
  \/ EndWalk(t)

=============================================================================
