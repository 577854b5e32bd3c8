-------------------------- MODULE MCPodSerializer --------------------------
(* Instances of PodSerializer for TLC. *)
EXTENDS PodSerializer, PodEncoding, TLC

(* Whatever calls were made, the writer holds the encoding of the value    *)
(* they describe, and serialize returns its length.                        *)
OutputIsEncoding ==
  status = "done" =>
    LET e == Encode(result.value) IN
    /\ result.len = Len(e)
    /\ Start + Len(e) <= Len(out)
    /\ SubSeq(out, Start + 1, Start + Len(e)) = e

IntPod(n) == [t |-> SPA_TYPE_Int, b |-> U32(n)]
StringPod(chars) == [t |-> SPA_TYPE_String, b |-> chars]
Choice3 == [t |-> SPA_TYPE_Choice, kind |-> 1, flags |-> 0, child |-> SPA_TYPE_Int,
            vals |-> <<U32(1), U32(2), U32(3)>>]

MixedLeaves == {IntPod(7), StringPod(<<97>>), StringPod(<<97, 0>>), Choice3}
FewLeaves == {IntPod(7), StringPod(<<97, 0>>)}
OneKey == {<<258, 1>>}
IntElements == SPA_TYPE_Int :> {U32(5)}
IntAndLongElements == SPA_TYPE_Int :> {U32(5)} @@ SPA_TYPE_Long :> {U32(6) \o U32(0)}
=============================================================================
