---------------------------- MODULE ResourceTree ----------------------------
(***************************************************************************)
(* What the smart pointers of the crate promise about native objects: an   *)
(* object is made from an object that exists, and no object is destroyed   *)
(* while another one made from it exists.                                  *)
(***************************************************************************)
CONSTANTS
  Node,                \* the native objects
  Parent               \* what each one is made from; a root from itself

VARIABLE alive

TreeInit == alive = {}

Acquire(n) ==
  /\ n \notin alive
  /\ Parent[n] \in alive \cup {n}
  /\ alive' = alive \cup {n}

Free(n) ==
  /\ n \in alive
  /\ \A m \in alive \ {n} : Parent[m] # n
  /\ alive' = alive \ {n}

TreeNext == \E n \in Node : Acquire(n) \/ Free(n)

TreeSpec == TreeInit /\ [][TreeNext]_alive
=============================================================================
