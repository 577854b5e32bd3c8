---------------------------- MODULE PodEncoding ----------------------------
(* The encoding of a whole value, by recursion on the value: what streamed *)
(* output is compared with, and what the deserializer is given.            *)
EXTENDS PodLayout, SequencesExt

RECURSIVE Encode(_)
Encode(v) ==
  LET size == SIZE(v.child)
      Item(item) == IF v.t \in {SPA_TYPE_Object, SPA_TYPE_Sequence}
                    THEN U32(item[1][1]) \o U32(item[1][2]) \o Encode(item[2])
                    ELSE Encode(item[2])
      content == FlattenSeq([i \in DOMAIN v.items |-> Item(v.items[i])]) IN
  CASE v.t = SPA_TYPE_Struct -> RawPod(Len(content), v.t, content)
    [] v.t \in {SPA_TYPE_Object, SPA_TYPE_Sequence} ->
         RawPod(Len(content) + 8, v.t, U32(v.type[1]) \o U32(v.type[2]) \o content)
    [] v.t = SPA_TYPE_Array ->
         RawPod(8 + Len(v.vals) * size, v.t, Header(size, v.child) \o Joined(v.vals, size))
    [] OTHER -> SerializedWhole(v)
=============================================================================
