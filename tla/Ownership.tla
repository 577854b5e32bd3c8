----------------------------- MODULE Ownership -----------------------------
(***************************************************************************)
(* Who keeps which native object alive: the Rc and Arc fields of the smart *)
(* pointers, the order in which their drop glue runs, and the callbacks    *)
(* that use the objects from the data thread.                              *)
(*                                                                         *)
(* A node is one Rust value that owns one native object.  Its drop runs    *)
(* the Drop implementation (the native destroy call), then drops its last  *)
(* field, the counted pointer to the value it depends on.  The control     *)
(* thread drops values while the data thread runs the process callback or  *)
(* a timer.  Native destroy calls emit events whose callbacks run user     *)
(* code, so another operation may come between two steps of a drop.        *)
(***************************************************************************)
EXTENDS Naturals, FiniteSets

CONSTANTS
  Port,                \* ports of the filter (FilterPortRegistration)
  Lease,               \* buffers (RetainedFilterBufferRc)
  PortOf,              \* the port each buffer belongs to
  Program              \* the programs: which nodes each may create, and may
                       \* its process closure drop its FilterTriggerRc?

Shared == {"loop", "context", "core", "registry", "stream", "filter"}
Unique == {"module", "timer", "trigger", "listener"}
Node == Shared \cup Unique \cup Port \cup Lease

ASSUME OwnershipAssumption ==
  /\ Port \cap (Shared \cup Unique) = {}
  /\ Lease \cap (Shared \cup Unique \cup Port) = {}
  /\ PortOf \in [Lease -> Port]
  /\ Program \subseteq [nodes : SUBSET Node, dropsTrigger : BOOLEAN]

VARIABLES
  life,                \* of each node: none, live, unhooked, destroyed, gone
  held,                \* nodes the program holds a handle to
  data,                \* nodes moved into the listener's callback data
  connected,           \* pw_filter_connect succeeded
  rt,                  \* what the data thread is running
  offThread,           \* was an Rc count changed off the control thread?
  program              \* the program that runs

vars == <<life, held, data, connected, rt, offThread, program>>

Present == program.nodes
TriggerLeaves == program.dropsTrigger

-----------------------------------------------------------------------------
(* The ownership graph: the counted pointer each struct stores.            *)

ContextRcInnerHolds == "loop"
CoreRcInnerHolds == "context"
RegistryRcInnerHolds == "core"
StreamRcInnerHolds == "core"
FilterRcInnerHolds == "core"
LocalModuleHolds == "context"
FilterTimerRcHolds == "filter"
FilterTriggerRcHolds == "filter"
FilterListenerRcHolds == "filter"
FilterPortRegistrationHolds == "filter"
RetainedFilterBufferRcHolds(b) == PortOf[b]

(* The loop depends on nothing. *)
Holds(n) ==
  CASE n = "context"  -> ContextRcInnerHolds
    [] n = "core"     -> CoreRcInnerHolds
    [] n = "registry" -> RegistryRcInnerHolds
    [] n = "stream"   -> StreamRcInnerHolds
    [] n = "filter"   -> FilterRcInnerHolds
    [] n = "module"   -> LocalModuleHolds
    [] n = "timer"    -> FilterTimerRcHolds
    [] n = "trigger"  -> FilterTriggerRcHolds
    [] n = "listener" -> FilterListenerRcHolds
    [] n \in Port     -> FilterPortRegistrationHolds
    [] n \in Lease    -> RetainedFilterBufferRcHolds(n)
    [] OTHER          -> "loop"

(* Mutant: CoreRc keeps no ContextRc. *)
DependentsButCore(n) ==
  {m \in Node \ {n, "core"} :
     Holds(m) = n /\ life[m] \in {"live", "unhooked", "destroyed"}}

(* The values whose counted pointer to n has not been released. *)
Dependents(n) ==
  {m \in Node \ {n} : Holds(m) = n /\ life[m] \in {"live", "unhooked", "destroyed"}}

(* Is the strong count of n positive, or is n a value in some scope? *)
Owned(n) == n \in held \/ n \in data \/ Dependents(n) # {}

-----------------------------------------------------------------------------
Init ==
  /\ life = [n \in Node |-> "none"]
  /\ held = {}
  /\ data = {}
  /\ connected = FALSE
  /\ rt = "idle"
  /\ offThread = FALSE
  /\ program \in Program

(* A constructor succeeds; a failing one returns Err and changes nothing. *)
Make(n) ==
  /\ n \in Present
  /\ life[n] = "none"
  /\ n = "loop" \/ Holds(n) \in held
  /\ life' = [life EXCEPT ![n] = "live"]
  /\ held' = held \cup {n}
  /\ UNCHANGED <<data, connected, rt, offThread>>

NewLoop == Make("loop")
NewContext == Make("context")
ConnectRc == Make("core")
GetRegistryRc == Make("registry")
NewStream == Make("stream")
NewFilter == Make("filter")
LoadModule == Make("module")
AddPort(p) == p \in Port /\ Make(p)
TriggerHandleRc == Make("trigger")

(* The timer is registered on the data loop, assigned by connect; the      *)
(* registration is invoked there and waits for the data thread.            *)
AddTimerFromThreadRc ==
  /\ connected
  /\ rt = "idle"
  /\ Make("timer")

(* dequeue_retained_buffer on a FilterPortRc; a buffer that was queued     *)
(* back can be dequeued again.                                             *)
DequeueRetained(b) == b \in Lease /\ Make(b)

(* Filter::connect and Filter::disconnect; disconnect stops the data       *)
(* thread's use of the node before it returns.                             *)
Connect ==
  /\ "filter" \in held
  /\ connected' = TRUE
  /\ UNCHANGED <<life, held, data, rt, offThread>>

Disconnect ==
  /\ "filter" \in held
  /\ rt = "idle"
  /\ connected' = FALSE
  /\ UNCHANGED <<life, held, data, rt, offThread>>

(* add_local_listener_with_user_data(d).register(): d owns the ports and   *)
(* the closures own the trigger that the program moved into them.          *)
RegisterListener ==
  /\ "listener" \in Present
  /\ life["listener"] = "none"
  /\ "filter" \in held
  /\ \E moved \in SUBSET (held \cap (Port \cup {"trigger"})) :
       /\ data' = moved
       /\ held' = (held \ moved) \cup {"listener"}
  /\ life' = [life EXCEPT !["listener"] = "live"]
  /\ UNCHANGED <<connected, rt, offThread>>

(* Mutant: the weak pointer only looks at whether the native object is     *)
(* still there.                                                            *)
UpgradeIfAlive(n) ==
  /\ n \in Shared \ held
  /\ life[n] = "destroyed"
  /\ held' = held \cup {n}
  /\ UNCHANGED <<life, data, connected, rt, offThread>>

(* CoreWeak::upgrade and its like: Some only while the count is positive.  *)
(* Cloning a handle the program already holds changes nothing here.        *)
Upgrade(n) ==
  /\ n \in Shared \ held
  /\ Owned(n)
  /\ held' = held \cup {n}
  /\ UNCHANGED <<life, data, connected, rt, offThread>>

-----------------------------------------------------------------------------
(* Dropping.                                                               *)

(* The program drops its last handle to n. *)
DropHandle(n) ==
  /\ n \in held
  /\ held' = held \ {n}
  /\ UNCHANGED <<life, data, connected, rt, offThread>>

(* Mutant: the timer's source is destroyed without waiting for its loop. *)
DestroyNoWait(n) ==
  /\ ~Owned(n)
  /\ n # "listener"
  /\ life[n] = "live"
  /\ life' = [life EXCEPT ![n] = "destroyed"]
  /\ UNCHANGED <<held, data, connected, rt, offThread>>

(* The count reached zero: Drop::drop calls the native destroy function.   *)
(* The timer's is invoked in the data loop and waits for it.               *)
Destroy(n) ==
  /\ ~Owned(n)
  /\ n # "listener"
  /\ life[n] = "live"
  /\ n = "timer" => rt = "idle"
  /\ life' = [life EXCEPT ![n] = "destroyed"]
  /\ UNCHANGED <<held, data, connected, rt, offThread>>

(* The last field is dropped: what n depended on loses an owner.  The      *)
(* buffer, back in its port's queue, can be leased again.                  *)
Release(n) ==
  /\ life[n] = "destroyed"
  /\ n \notin held
  /\ life' = [life EXCEPT ![n] = IF n \in Lease THEN "none" ELSE "gone"]
  /\ UNCHANGED <<held, data, connected, rt, offThread>>

(* FilterListenerRc::drop: the hook is removed; its removed function is    *)
(* invoked in the data loop and waits for a running process callback.      *)
Unhook ==
  /\ "listener" \notin held
  /\ life["listener"] = "live"
  /\ rt # "process"
  /\ life' = [life EXCEPT !["listener"] = "unhooked"]
  /\ UNCHANGED <<held, data, connected, rt, offThread>>

(* Then the fields: the closures and the callback data drop what they own. *)
DropData(n) ==
  /\ life["listener"] = "unhooked"
  /\ n \in data
  /\ data' = data \ {n}
  /\ UNCHANGED <<life, held, connected, rt, offThread>>

(* Mutant: the listener is forgotten after its hook is removed. *)
FreeDataForgotten ==
  /\ life["listener"] = "unhooked"
  /\ data = {}
  /\ UNCHANGED vars

(* The box of the callback data is freed; _filter is the last field. *)
FreeData ==
  /\ life["listener"] = "unhooked"
  /\ data = {}
  /\ life' = [life EXCEPT !["listener"] = "destroyed"]
  /\ UNCHANGED <<held, data, connected, rt, offThread>>

-----------------------------------------------------------------------------
(* The data thread.                                                        *)

ProcessStarts ==
  /\ rt = "idle"
  /\ connected
  /\ life["filter"] = "live"
  /\ life["listener"] = "live"
  /\ rt' = "process"
  /\ UNCHANGED <<life, held, data, connected, offThread>>

TimerFires ==
  /\ rt = "idle"
  /\ life["timer"] = "live"
  /\ rt' = "timer"
  /\ UNCHANGED <<life, held, data, connected, offThread>>

CallbackReturns ==
  /\ rt # "idle"
  /\ rt' = "idle"
  /\ UNCHANGED <<life, held, data, connected, offThread>>

(* Mutant: a buffer can be retained through any reference to its port. *)
RetainByRef(b) ==
  /\ rt = "process"
  /\ b \in Present
  /\ life[b] = "none"
  /\ life[PortOf[b]] = "live"
  /\ life' = [life EXCEPT ![b] = "live"]
  /\ data' = data \cup {b}
  /\ UNCHANGED <<held, connected, rt, offThread>>

(* The process closure retains a buffer of a port it owns and keeps it. *)
Retain(b) ==
  /\ rt = "process"
  /\ b \in Present
  /\ life[b] = "none"
  /\ PortOf[b] \in data
  /\ life' = [life EXCEPT ![b] = "live"]
  /\ data' = data \cup {b}
  /\ UNCHANGED <<held, connected, rt, offThread>>

(* It drops one: the buffer is queued and the registration's Arc released. *)
(* The last release would remove the port and touch the filter's Rc here.  *)
Return(b) ==
  /\ rt = "process"
  /\ b \in data \cap Lease
  /\ data' = data \ {b}
  /\ life' = [life EXCEPT ![b] = "none"]
  /\ offThread' = (offThread \/ (PortOf[b] \notin held \cup data
                                 /\ Dependents(PortOf[b]) = {b}))
  /\ UNCHANGED <<held, connected, rt>>

(* It hands one to the control thread, in the wrapper of the application   *)
(* that the comment on RetainedFilterBufferRc asks for.                    *)
HandOver(b) ==
  /\ rt = "process"
  /\ b \in data \cap Lease
  /\ data' = data \ {b}
  /\ held' = held \cup {b}
  /\ UNCHANGED <<life, connected, rt, offThread>>

(* A closure that owns a FilterTriggerRc, which is Send, drops it early:   *)
(* the filter's Rc is decremented on the data thread.                      *)
DropTrigger ==
  /\ TriggerLeaves
  /\ rt = "process"
  /\ "trigger" \in data
  /\ data' = data \ {"trigger"}
  /\ life' = [life EXCEPT !["trigger"] = "gone"]
  /\ offThread' = TRUE
  /\ UNCHANGED <<held, connected, rt>>

-----------------------------------------------------------------------------
Create ==
  \/ NewLoop \/ NewContext \/ ConnectRc \/ GetRegistryRc \/ NewStream \/ NewFilter
  \/ LoadModule \/ TriggerHandleRc \/ AddTimerFromThreadRc \/ RegisterListener
  \/ \E p \in Port : AddPort(p)
  \/ \E b \in Lease : DequeueRetained(b)
  \/ \E n \in Node : Upgrade(n)

DropStep ==
  \/ \E n \in Node : Destroy(n) \/ Release(n) \/ DropData(n)
  \/ Unhook \/ FreeData

DataThread ==
  \/ ProcessStarts \/ TimerFires \/ CallbackReturns \/ DropTrigger
  \/ \E b \in Lease : Retain(b) \/ Return(b) \/ HandOver(b)

Step ==
  \/ Create \/ Connect \/ Disconnect
  \/ \E n \in Node : DropHandle(n)
  \/ DropStep \/ DataThread

Next == Step /\ UNCHANGED program

Spec == Init /\ [][Next]_vars

(* A drop that has begun runs to its end, and callbacks return often       *)
(* enough for the control thread to get its turn on the data loop.         *)
Unwind ==
  \/ \E n \in Node : (n # "timer" /\ Destroy(n)) \/ Release(n) \/ DropData(n)
  \/ FreeData

FairSpec ==
  /\ Spec
  /\ WF_vars(Unwind /\ UNCHANGED program)
  /\ SF_vars(Destroy("timer") /\ UNCHANGED program)
  /\ SF_vars(Unhook /\ UNCHANGED program)
  /\ WF_vars(CallbackReturns /\ UNCHANGED program)

-----------------------------------------------------------------------------
(* Properties                                                              *)

TypeOK ==
  /\ life \in [Node -> {"none", "live", "unhooked", "destroyed", "gone"}]
  /\ held \subseteq Node
  /\ data \subseteq Port \cup Lease \cup {"trigger"}
  /\ connected \in BOOLEAN
  /\ rt \in {"idle", "process", "timer"}
  /\ offThread \in BOOLEAN

(* The native object of a node that has not run its Drop yet. *)
Native == {n \in Node : life[n] \in {"live", "unhooked"}}

(* No native object outlives the one it was made from, in any order of     *)
(* drops: no port its filter, no buffer its port, no filter its core.      *)
ChildrenDieFirst == \A n \in Native : Holds(n) \in Native

(* A handle or an upgraded weak pointer always leads to a live object. *)
HandlesAreLive == held \cup data \subseteq Native

(* A running process callback finds its hook, its filter, and every port,  *)
(* buffer and trigger its data owns; a running timer callback its source.  *)
CallbackSeesLiveData ==
  /\ rt = "process" => {"listener", "filter"} \cup data \subseteq Native
                         /\ life["listener"] = "live"
  /\ rt = "timer" => {"timer", "filter"} \subseteq Native

(* What the invariants above rest on: a value that has not released its    *)
(* counted pointer has a live target, nothing is owned twice, only a live  *)
(* hook is called, and a stored buffer's port is stored with it.           *)
Unreleased == {n \in Node : life[n] \in {"live", "unhooked", "destroyed"}}

TargetsAreLive == \A n \in Unreleased \ {"loop"} : Holds(n) \in Native

OneOwner ==
  /\ held \cap data = {}
  /\ life["listener"] = "unhooked" => "listener" \notin held
  /\ life["listener"] = "none" => data = {}

HookIsLive ==
  /\ rt = "process" => life["listener"] = "live"
  /\ rt = "timer" => life["timer"] = "live"

PortStoredToo ==
  life["listener"] = "live" => \A b \in data \cap Lease : PortOf[b] \in data

(* The inductive invariant. *)
IInv ==
  /\ TypeOK
  /\ TargetsAreLive
  /\ HandlesAreLive
  /\ OneOwner
  /\ HookIsLive
  /\ PortStoredToo

(* The callback data keeps what was moved into it until the hook is gone:  *)
(* ports and trigger are never dropped under a registered callback, unless *)
(* a closure drops the trigger.                                            *)
DataOutlivesHook ==
  [][~TriggerLeaves /\ life["listener"] = "live" /\ life'["listener"] = "live"
     => data \ Lease \subseteq data']_vars

(* The non-atomic count of the filter is only changed on the control       *)
(* thread, as the safety comment on FilterTriggerRc has it.                *)
CountedOnControlThread == ~offThread

(* A process closure that drops its trigger is the only way to change it   *)
(* elsewhere: the buffers that are dropped on the data thread, in whatever *)
(* order with ports and listener, never are the last owner of their port.  *)
OnlyTheTriggerCountsElsewhere == TriggerLeaves \/ CountedOnControlThread

(* Dropping every handle tears everything down: no ownership cycle keeps   *)
(* an object alive.                                                        *)
NothingLeaks == <>[](held = {}) => <>[](Native = {})

(* The smart pointers implement the tree of resources. *)
Tree == INSTANCE ResourceTree WITH
          Parent <- [n \in Node |-> Holds(n)],
          alive  <- Native

ImplementsTree == Tree!TreeSpec
=============================================================================
