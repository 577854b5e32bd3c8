------------------------------ MODULE PodSlices ------------------------------
(***************************************************************************)
(* What a PodDeserializer is given: the slice and the application's visitor. *)
(***************************************************************************)
EXTENDS PodLayout

CONSTANTS
  Input,               \* the slices that deserialize_from may be given
  Asked,               \* the types an application's visitor may ask for
  MaxExtra             \* bound on elements asked for behind an array's end

ASSUME DeserializerAssumption ==
  /\ Input \subseteq Seq(Byte)
  /\ \A i \in Input : Len(i) < Modulus
  /\ Asked \subseteq Nat
  /\ MaxExtra \in Nat

=============================================================================
