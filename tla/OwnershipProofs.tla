--------------------------- MODULE OwnershipProofs --------------------------
(***************************************************************************)
(* Theorems about Ownership, for any ports, buffers and set of nodes.      *)
(***************************************************************************)
EXTENDS Ownership, TLAPS

USE OwnershipAssumption DEF OwnershipAssumption

(* Every node but the loop depends on another node: buffers on ports,      *)
(* everything else on a shared object.                                     *)
LEMMA HoldsAnother ==
  ASSUME NEW n \in Node
  PROVE  /\ Holds(n) \in Node
         /\ IF n = "loop" THEN Holds(n) = n ELSE Holds(n) # n
         /\ n \in Lease => Holds(n) = PortOf[n] /\ PortOf[n] \in Port
         /\ n \notin Lease => Holds(n) \in {"loop", "context", "core", "filter"}
         /\ n \in {"timer", "trigger", "listener"} \cup Port => Holds(n) = "filter"
<1> USE DEF Node, Shared, Unique, Holds, ContextRcInnerHolds, CoreRcInnerHolds,
      RegistryRcInnerHolds, StreamRcInnerHolds, FilterRcInnerHolds, LocalModuleHolds,
      FilterTimerRcHolds, FilterTriggerRcHolds, FilterListenerRcHolds,
      FilterPortRegistrationHolds, RetainedFilterBufferRcHolds
<1>1. CASE n \in Shared
  BY <1>1
<1>2. CASE n \in Unique
  BY <1>2
<1>3. CASE n \in Port
  BY <1>3
<1>4. CASE n \in Lease
  BY <1>4
<1>5. QED
  BY <1>1, <1>2, <1>3, <1>4

(* A value without owners is nobody's target. *)
LEMMA UnownedIsNoTarget ==
  ASSUME NEW n \in Node, ~Owned(n)
  PROVE  /\ n \notin held \cup data
         /\ \A m \in Unreleased \ {n} : Holds(m) # n
BY DEF Owned, Dependents, Unreleased

-----------------------------------------------------------------------------
(* The inductive invariant, one lemma per group of actions. *)

LEMMA MakeKeeps ==
  ASSUME IInv, NEW n \in Node \ {"listener"}, Make(n)
  PROVE  IInv'
<1> USE DEF IInv, TypeOK, Make
<1>1. TypeOK'
  OBVIOUS
<1>2. n # "loop" => Holds(n) \in Native
  BY HoldsAnother DEF HandlesAreLive
<1>3. TargetsAreLive'
  BY <1>2, HoldsAnother DEF TargetsAreLive, Unreleased, Native
<1>4. HandlesAreLive'
  BY DEF HandlesAreLive, Native
<1>5. OneOwner'
  BY DEF OneOwner, HandlesAreLive, Native
<1>6. HookIsLive' /\ PortStoredToo'
  BY DEF HookIsLive, PortStoredToo
<1>7. QED
  BY <1>1, <1>3, <1>4, <1>5, <1>6

LEMMA RegisterKeeps ==
  ASSUME IInv, RegisterListener
  PROVE  IInv'
<1> USE DEF IInv, TypeOK, RegisterListener, Node, Unique
<1>1. TypeOK'
  OBVIOUS
<1>2. TargetsAreLive'
  BY HoldsAnother DEF TargetsAreLive, Unreleased, Native, HandlesAreLive
<1>3. HandlesAreLive'
  BY DEF HandlesAreLive, Native
<1>4. OneOwner'
  BY DEF OneOwner, HandlesAreLive, Native
<1>5. HookIsLive' /\ PortStoredToo'
  BY DEF HookIsLive, PortStoredToo
<1>6. QED
  BY <1>1, <1>2, <1>3, <1>4, <1>5

LEMMA UpgradeKeeps ==
  ASSUME IInv, NEW n \in Node, Upgrade(n)
  PROVE  IInv'
<1> USE DEF IInv, TypeOK, Upgrade, Node, Shared, Unique
<1>1. n \in Native
  <2>1. CASE n \in held \cup data
    BY <2>1 DEF HandlesAreLive
  <2>2. ASSUME NEW m \in Dependents(n)
        PROVE  n \in Native
    <3>1. m \in Unreleased \ {"loop"} /\ Holds(m) = n
      BY HoldsAnother DEF Dependents, Unreleased
    <3>2. QED
      BY <3>1 DEF TargetsAreLive
  <2>3. QED
    BY <2>1, <2>2 DEF Owned
<1>2. TypeOK' /\ HandlesAreLive' /\ OneOwner'
  BY <1>1 DEF HandlesAreLive, Native, OneOwner
<1>3. TargetsAreLive' /\ HookIsLive' /\ PortStoredToo'
  BY DEF TargetsAreLive, Unreleased, Native, HookIsLive, PortStoredToo
<1>4. QED
  BY <1>2, <1>3

LEMMA DestroyKeeps ==
  ASSUME IInv, NEW n \in Node, Destroy(n)
  PROVE  IInv'
<1> USE DEF IInv, TypeOK, Destroy
<1>1. TypeOK'
  OBVIOUS
<1>2. TargetsAreLive'
  <2>1. \A m \in Unreleased \ {"loop"} : Holds(m) # n /\ Holds(m) \in Native
    BY UnownedIsNoTarget, HoldsAnother DEF TargetsAreLive, Unreleased
  <2>2. Unreleased' = Unreleased /\ Native' = Native \ {n}
    BY DEF Unreleased, Native
  <2>3. QED
    BY <2>1, <2>2 DEF TargetsAreLive
<1>3. HandlesAreLive'
  BY UnownedIsNoTarget DEF HandlesAreLive, Native
<1>4. OneOwner' /\ HookIsLive' /\ PortStoredToo'
  BY DEF OneOwner, HookIsLive, PortStoredToo
<1>5. QED
  BY <1>1, <1>2, <1>3, <1>4

LEMMA ReleaseKeeps ==
  ASSUME IInv, NEW n \in Node, Release(n)
  PROVE  IInv'
<1> USE DEF IInv, TypeOK, Release, Node
<1>1. TypeOK'
  OBVIOUS
<1>2. TargetsAreLive'
  BY DEF TargetsAreLive, Unreleased, Native
<1>3. HandlesAreLive'
  BY DEF HandlesAreLive, Native
<1>4. OneOwner' /\ HookIsLive' /\ PortStoredToo'
  BY DEF OneOwner, HookIsLive, PortStoredToo, Unique
<1>5. QED
  BY <1>1, <1>2, <1>3, <1>4

LEMMA ListenerDropKeeps ==
  ASSUME IInv, \/ Unhook \/ FreeData \/ \E n \in Node : DropData(n)
  PROVE  IInv'
<1> USE DEF IInv, TypeOK, Node, Unique
<1>1. CASE Unhook
  BY <1>1, HoldsAnother
     DEF Unhook, TargetsAreLive, Unreleased, Native, HandlesAreLive, OneOwner, HookIsLive, PortStoredToo
<1>2. CASE FreeData
  BY <1>2, HoldsAnother
     DEF FreeData, TargetsAreLive, Unreleased, Native, HandlesAreLive, OneOwner, HookIsLive, PortStoredToo
<1>3. CASE \E n \in Node : DropData(n)
  BY <1>3
     DEF DropData, TargetsAreLive, Unreleased, Native, HandlesAreLive, OneOwner, HookIsLive, PortStoredToo
<1>4. QED
  BY <1>1, <1>2, <1>3

LEMMA DataThreadKeeps ==
  ASSUME IInv, DataThread
  PROVE  IInv'
<1> USE DEF IInv, TypeOK, Node, Unique
<1>1. ASSUME ProcessStarts \/ TimerFires \/ CallbackReturns
      PROVE  IInv'
  BY <1>1 DEF ProcessStarts, TimerFires, CallbackReturns, TargetsAreLive, Unreleased,
     Native, HandlesAreLive, OneOwner, HookIsLive, PortStoredToo
<1>2. ASSUME DropTrigger
      PROVE  IInv'
  BY <1>2, HoldsAnother DEF DropTrigger, TargetsAreLive, Unreleased,
     Native, HandlesAreLive, OneOwner, HookIsLive, PortStoredToo
<1>3. ASSUME NEW b \in Lease, Retain(b)
      PROVE  IInv'
  BY <1>3, HoldsAnother DEF Retain, TargetsAreLive, Unreleased,
     Native, HandlesAreLive, OneOwner, HookIsLive, PortStoredToo
<1>4. ASSUME NEW b \in Lease, Return(b)
      PROVE  IInv'
  <2>1. TypeOK'
    BY <1>4 DEF Return
  <2>2. TargetsAreLive'
    <3>1. \A m \in Unreleased \ {"loop"} : Holds(m) # b
      BY HoldsAnother DEF Unreleased, Shared
    <3>2. Unreleased' = Unreleased \ {b} /\ Native' = Native \ {b}
      BY <1>4 DEF Return, Unreleased, Native
    <3>3. QED
      BY <3>1, <3>2 DEF TargetsAreLive
  <2>3. HandlesAreLive'
    BY <1>4 DEF Return, HandlesAreLive, Native, OneOwner
  <2>4. OneOwner' /\ HookIsLive' /\ PortStoredToo'
    BY <1>4 DEF Return, OneOwner, HookIsLive, PortStoredToo
  <2>5. QED
    BY <2>1, <2>2, <2>3, <2>4
<1>5. ASSUME NEW b \in Lease, HandOver(b)
      PROVE  IInv'
  BY <1>5 DEF HandOver, TargetsAreLive, Unreleased,
     Native, HandlesAreLive, OneOwner, HookIsLive, PortStoredToo
<1>6. QED
  BY <1>1, <1>2, <1>3, <1>4, <1>5 DEF DataThread

LEMMA NextKeeps ==
  ASSUME IInv, [Next]_vars
  PROVE  IInv'
<1>1. CASE Create
  <2>1. ASSUME NEW n \in Node \ {"listener"}, Make(n)
        PROVE  IInv'
    BY <2>1, MakeKeeps
  <2>2. ASSUME NEW n \in Node, Upgrade(n)
        PROVE  IInv'
    BY <2>2, UpgradeKeeps
  <2>3. QED
    BY <1>1, <2>1, <2>2, RegisterKeeps
       DEF Create, NewLoop, NewContext, ConnectRc, GetRegistryRc, NewStream, NewFilter,
           LoadModule, TriggerHandleRc, AddTimerFromThreadRc, AddPort, DequeueRetained,
           Node, Shared, Unique
<1>2. CASE Connect \/ Disconnect \/ (\E n \in Node : DropHandle(n)) \/ UNCHANGED vars
  <2> USE DEF IInv, TypeOK
  <2>1. TypeOK'
    BY <1>2 DEF Connect, Disconnect, DropHandle, vars
  <2>2. TargetsAreLive' /\ HandlesAreLive'
    BY <1>2 DEF Connect, Disconnect, DropHandle, vars, TargetsAreLive, HandlesAreLive,
       Unreleased, Native
  <2>3. OneOwner' /\ HookIsLive' /\ PortStoredToo'
    BY <1>2 DEF Connect, Disconnect, DropHandle, vars, OneOwner, HookIsLive, PortStoredToo
  <2>4. QED
    BY <2>1, <2>2, <2>3
<1>3. CASE DropStep
  <2>1. ASSUME NEW n \in Node, Destroy(n)
        PROVE  IInv'
    BY <2>1, DestroyKeeps
  <2>2. ASSUME NEW n \in Node, Release(n)
        PROVE  IInv'
    BY <2>2, ReleaseKeeps
  <2>3. QED
    BY <1>3, <2>1, <2>2, ListenerDropKeeps DEF DropStep
<1>4. CASE DataThread
  BY <1>4, DataThreadKeeps
<1>5. QED
  BY <1>1, <1>2, <1>3, <1>4 DEF Next, Step

(* IInv holds in every reachable state: whatever the program drops, in     *)
(* whatever order, a value that still stores its counted pointer has a     *)
(* live target, and what a callback can reach is live.                     *)
THEOREM Invariant == Spec => []IInv
<1>1. Init => IInv
  BY DEF Init, IInv, TypeOK, TargetsAreLive, HandlesAreLive, OneOwner, HookIsLive,
     PortStoredToo, Unreleased, Native
<1>2. IInv /\ [Next]_vars => IInv'
  BY NextKeeps
<1>3. QED
  BY <1>1, <1>2, PTL DEF Spec

(* Every variable keeps its type, and the program stays what it is. *)
THEOREM TypeCorrect == Spec => [](TypeOK /\ program \in Program)
<1>1. IInv => TypeOK
  BY DEF IInv
<1>2. Init => program \in Program
  BY DEF Init
<1>3. program \in Program /\ [Next]_vars => (program \in Program)'
  BY DEF Next, vars
<1>4. QED
  BY <1>1, <1>2, <1>3, Invariant, PTL DEF Spec

(* No native object outlives the one it was made from: the field order of  *)
(* the inner structs of the Rc types is right.                             *)
THEOREM NoOrphans == Spec => []ChildrenDieFirst
<1>1. IInv => ChildrenDieFirst
  <2> SUFFICES ASSUME IInv, NEW n \in Native
               PROVE  Holds(n) \in Native
    BY DEF ChildrenDieFirst
  <2>1. CASE n = "loop"
    BY <2>1, HoldsAnother DEF Native
  <2>2. CASE n # "loop"
    BY <2>2 DEF IInv, TargetsAreLive, Unreleased, Native
  <2>3. QED
    BY <2>1, <2>2
<1>2. QED
  BY <1>1, Invariant, PTL

(* No handle dangles: the weak upgrade only succeeds on what is not being  *)
(* dropped.                                                                *)
THEOREM NoDanglingHandle == Spec => []HandlesAreLive
<1>1. IInv => HandlesAreLive
  BY DEF IInv
<1>2. QED
  BY <1>1, Invariant, PTL

(* A callback on the data thread never sees a freed hook, filter, port,    *)
(* buffer, trigger or timer.                                               *)
THEOREM CallbacksAreSafe == Spec => []CallbackSeesLiveData
<1>1. IInv => CallbackSeesLiveData
  <2> SUFFICES ASSUME IInv
               PROVE  CallbackSeesLiveData
    OBVIOUS
  <2> USE DEF IInv, TypeOK, HookIsLive, TargetsAreLive, HandlesAreLive, Unreleased, Native
  <2>1. rt = "process" => {"listener", "filter"} \cup data \subseteq Native
    <3>1. "listener" \in Node /\ Holds("listener") = "filter"
      BY HoldsAnother DEF Node, Unique
    <3>2. QED
      BY <3>1
  <2>2. rt = "timer" => {"timer", "filter"} \subseteq Native
    <3>1. "timer" \in Node /\ Holds("timer") = "filter"
      BY HoldsAnother DEF Node, Unique
    <3>2. QED
      BY <3>1
  <2>3. QED
    BY <2>1, <2>2 DEF CallbackSeesLiveData
<1>2. QED
  BY <1>1, Invariant, PTL

(* While its hook is registered the callback data keeps its ports and its  *)
(* trigger, in programs whose closures keep the trigger.                   *)
THEOREM DataStays == Spec => DataOutlivesHook
<1>1. IInv /\ [Next]_vars
        => (~TriggerLeaves /\ life["listener"] = "live" /\ life'["listener"] = "live"
              => data \ Lease \subseteq data')
  <2> SUFFICES ASSUME IInv, [Next]_vars, ~TriggerLeaves, life["listener"] = "live",
                      life'["listener"] = "live"
               PROVE  data \ Lease \subseteq data'
    OBVIOUS
  <2>1. CASE UNCHANGED vars \/ Create \/ Connect \/ Disconnect \/ DropStep
             \/ \E n \in Node : DropHandle(n)
    BY <2>1 DEF vars, Create, NewLoop, NewContext, ConnectRc, GetRegistryRc, NewStream,
       NewFilter, LoadModule, TriggerHandleRc, AddTimerFromThreadRc, AddPort,
       DequeueRetained, RegisterListener, Upgrade, Make, Connect, Disconnect, DropStep,
       Destroy, Release, DropData, Unhook, FreeData, DropHandle
  <2>2. CASE DataThread
    BY <2>2 DEF DataThread, ProcessStarts, TimerFires, CallbackReturns, DropTrigger,
       Retain, Return, HandOver
  <2>3. QED
    BY <2>1, <2>2 DEF Next, Step
<1>2. QED
  BY <1>1, Invariant, PTL DEF Spec, DataOutlivesHook

(* Buffers dropped on the data thread never bring the filter's count down  *)
(* there: the port of a buffer the callback data stores is stored with it. *)
(* Only a closure that drops its trigger does.                             *)
THEOREM CountsAreConfined == Spec => []OnlyTheTriggerCountsElsewhere
<1>1. Init => OnlyTheTriggerCountsElsewhere
  BY DEF Init, OnlyTheTriggerCountsElsewhere, CountedOnControlThread
<1>2. IInv /\ OnlyTheTriggerCountsElsewhere /\ [Next]_vars => OnlyTheTriggerCountsElsewhere'
  <2> SUFFICES ASSUME IInv, offThread = FALSE, [Next]_vars, ~TriggerLeaves
               PROVE  offThread' = FALSE
    BY DEF OnlyTheTriggerCountsElsewhere, CountedOnControlThread, IInv, TypeOK, Next, vars, TriggerLeaves
  <2>1. CASE UNCHANGED vars \/ Create \/ Connect \/ Disconnect \/ DropStep
             \/ \E n \in Node : DropHandle(n)
    BY <2>1 DEF IInv, TypeOK, vars, Create, NewLoop, NewContext, ConnectRc, GetRegistryRc, NewStream,
       NewFilter, LoadModule, TriggerHandleRc, AddTimerFromThreadRc, AddPort,
       DequeueRetained, RegisterListener, Upgrade, Make, Connect, Disconnect, DropStep,
       Destroy, Release, DropData, Unhook, FreeData, DropHandle
  <2>2. ASSUME NEW b \in Lease, Return(b)
        PROVE  offThread' = FALSE
    <3>1. PortOf[b] \in data
      BY <2>2 DEF Return, IInv, HookIsLive, PortStoredToo
    <3>2. QED
      BY <2>2, <3>1 DEF Return, IInv, TypeOK
  <2>3. CASE DataThread
    BY <2>3, <2>2 DEF DataThread, ProcessStarts, TimerFires, CallbackReturns, DropTrigger,
       Retain, HandOver, IInv, TypeOK
  <2>4. QED
    BY <2>1, <2>3 DEF Next, Step
<1>3. QED
  BY <1>1, <1>2, Invariant, PTL DEF Spec

-----------------------------------------------------------------------------
(* Refinement of the tree of resources. *)

LEMMA MadeUnderParent ==
  ASSUME IInv, NEW n \in Node, n = "loop" \/ Holds(n) \in Native,
         life[n] = "none", life' = [life EXCEPT ![n] = "live"]
  PROVE  Tree!Acquire(n)
<1>1. Native' = Native \cup {n} /\ n \notin Native
  BY DEF Native, IInv, TypeOK
<1>2. Holds(n) \in Native \cup {n}
  BY HoldsAnother
<1>3. QED
  BY <1>1, <1>2 DEF Tree!Acquire

LEMMA FreedWithoutChildren ==
  ASSUME IInv, NEW n \in Node, n \in Native, life'[n] \notin {"live", "unhooked"},
         \E s \in {"none", "destroyed", "gone"} : life' = [life EXCEPT ![n] = s],
         \A m \in Unreleased \ {n} : Holds(m) # n
  PROVE  Tree!Free(n)
<1>1. Native' = Native \ {n}
  BY DEF Native, IInv, TypeOK
<1>2. \A m \in Native \ {n} : m \in Node /\ Holds(m) # n
  BY DEF Native, Unreleased
<1>3. QED
  BY <1>1, <1>2 DEF Tree!Free

(* Every step of the smart pointers makes one native object under a live   *)
(* one, destroys one without live children, or changes no native object.   *)
THEOREM Refinement == Spec => ImplementsTree
<1>1. Init => Tree!TreeInit
  BY DEF Init, Tree!TreeInit, Native
<1>2. IInv /\ [Next]_vars => [Tree!TreeNext]_Native
  <2> SUFFICES ASSUME IInv, [Next]_vars
               PROVE  Native' = Native \/ \E n \in Node : Tree!Acquire(n) \/ Tree!Free(n)
    BY DEF Tree!TreeNext
  <2>1. ASSUME NEW n \in Node, Make(n)
        PROVE  Tree!Acquire(n)
    BY <2>1, MadeUnderParent DEF Make, IInv, HandlesAreLive
  <2>2. ASSUME RegisterListener
        PROVE  Tree!Acquire("listener")
    <3>1. "listener" \in Node /\ Holds("listener") = "filter"
      BY HoldsAnother DEF Node, Unique
    <3>2. QED
      BY <2>2, <3>1, MadeUnderParent DEF RegisterListener, IInv, HandlesAreLive
  <2>3. CASE Create
    <3>1. ASSUME NEW n \in Node, Upgrade(n)
          PROVE  Native' = Native
      BY <3>1 DEF Upgrade, Native
    <3>2. "listener" \in Node
      BY DEF Node, Unique
    <3>3. QED
      BY <2>1, <2>2, <2>3, <3>1, <3>2
         DEF Create, NewLoop, NewContext, ConnectRc, GetRegistryRc, NewStream, NewFilter,
             LoadModule, TriggerHandleRc, AddTimerFromThreadRc, AddPort, DequeueRetained,
             Node, Shared, Unique
  <2>4. ASSUME NEW n \in Node, Destroy(n)
        PROVE  Tree!Free(n)
    BY <2>4, UnownedIsNoTarget, FreedWithoutChildren DEF Destroy, Native, IInv, TypeOK
  <2>5. CASE DropStep
    <3>1. ASSUME FreeData
          PROVE  Tree!Free("listener")
      <4>1. "listener" \in Node /\ \A m \in Node : Holds(m) # "listener"
        BY HoldsAnother DEF Node, Unique
      <4>2. QED
        BY <3>1, <4>1, FreedWithoutChildren DEF FreeData, Native, Unreleased, IInv, TypeOK
    <3>2. ASSUME NEW n \in Node, Release(n) \/ DropData(n)
          PROVE  Native' = Native
      BY <3>2 DEF Release, DropData, Native, IInv, TypeOK
    <3>3. ASSUME Unhook
          PROVE  Native' = Native
      BY <3>3 DEF Unhook, Native, IInv, TypeOK
    <3>4. "listener" \in Node
      BY DEF Node, Unique
    <3>5. QED
      BY <2>4, <2>5, <3>1, <3>2, <3>3, <3>4 DEF DropStep
  <2>6. CASE DataThread
    <3>1. ASSUME DropTrigger
          PROVE  Tree!Free("trigger")
      <4>1. "trigger" \in Node /\ \A m \in Node : Holds(m) # "trigger"
        BY HoldsAnother DEF Node, Unique
      <4>2. "trigger" \in Native
        BY <3>1 DEF DropTrigger, IInv, HandlesAreLive
      <4>3. QED
        BY <3>1, <4>1, <4>2, FreedWithoutChildren
           DEF DropTrigger, Native, Unreleased, IInv, TypeOK
    <3>2. ASSUME NEW b \in Lease, Retain(b)
          PROVE  Tree!Acquire(b)
      <4>1. b \in Node /\ Holds(b) \in Native
        BY <3>2, HoldsAnother DEF Retain, Node, IInv, HandlesAreLive
      <4>2. QED
        BY <3>2, <4>1, MadeUnderParent DEF Retain
    <3>3. ASSUME NEW b \in Lease, Return(b)
          PROVE  Tree!Free(b)
      <4>1. b \in Node /\ \A m \in Node : Holds(m) # b
        BY HoldsAnother DEF Node, Shared
      <4>2. b \in Native
        BY <3>3 DEF Return, IInv, HandlesAreLive
      <4>3. QED
        BY <3>3, <4>1, <4>2, FreedWithoutChildren
           DEF Return, Native, Unreleased, IInv, TypeOK
    <3>4. ASSUME ProcessStarts \/ TimerFires \/ CallbackReturns \/ \E b \in Lease : HandOver(b)
          PROVE  Native' = Native
      BY <3>4 DEF ProcessStarts, TimerFires, CallbackReturns, HandOver, Native
    <3>5. "trigger" \in Node /\ Lease \subseteq Node
      BY DEF Node, Unique
    <3>6. QED
      BY <2>6, <3>1, <3>2, <3>3, <3>4, <3>5 DEF DataThread
  <2>7. CASE UNCHANGED vars \/ Connect \/ Disconnect \/ \E n \in Node : DropHandle(n)
    BY <2>7 DEF vars, Connect, Disconnect, DropHandle, Native
  <2>8. QED
    BY <2>3, <2>5, <2>6, <2>7 DEF Next, Step
<1>3. QED
  BY <1>1, <1>2, Invariant, PTL DEF Spec, ImplementsTree, Tree!TreeSpec
=============================================================================
