------------------------- MODULE MCThreadedListeners -------------------------
EXTENDS ThreadedListeners

CONSTANTS a1, stream, mod, l1, l2, m

(* Two listeners of one stream and the listener a LocalModule registers. *)
ListenerOf == [l \in Listener |-> IF l = m THEN mod ELSE stream]

=============================================================================
