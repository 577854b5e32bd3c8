---------------------------- MODULE MCOwnership ----------------------------
(* Instances of Ownership for TLC. *)
EXTENDS Ownership, TLC

CONSTANTS p1, b1, b2

(* Both buffers belong to the first port. *)
BufferPorts == b1 :> p1 @@ b2 :> p1

(* A filter, its listener, what callback data may own, and a timer on the  *)
(* data loop.                                                              *)
CallbackNodes == {"loop", "context", "core", "filter", "timer", "trigger", "listener", p1, b1}

(* Every kind of shared object, and callback data that owns a trigger.     *)
SharedNodes == {"loop", "context", "core", "registry", "stream", "filter", "trigger",
                "listener"}

(* A module beside what else keeps its context.                            *)
ModuleNodes == {"loop", "context", "core", "registry", "stream", "module"}

(* The programs: a closure that keeps its trigger, with what its data      *)
(* thread uses; one that may drop it, with all that is shared; and one     *)
(* with a module, without a filter.                                        *)
Programs == {[nodes |-> CallbackNodes, dropsTrigger |-> FALSE],
             [nodes |-> SharedNodes, dropsTrigger |-> TRUE],
             [nodes |-> ModuleNodes, dropsTrigger |-> FALSE]}

TriggerPrograms == {[nodes |-> CallbackNodes, dropsTrigger |-> TRUE]}
=============================================================================
