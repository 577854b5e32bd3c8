--------------------------- MODULE MCLoopSources ---------------------------
(* An instance of LoopSources for TLC. *)
EXTENDS LoopSources, TLC

CONSTANTS s1, s2, s3

Kinds == s1 :> "event" @@ s2 :> "remote" @@ s3 :> "idle"
=============================================================================
