------------------------- MODULE PodRoundTripProofs -------------------------
(***************************************************************************)
(* What is proved of PodDeserializer, PodBuilder and PodParser, each as    *)
(* PodRoundTrip has it (D, B and P), and of what the four coders do        *)
(* together, for any values, keys, types and sizes.                        *)
(*                                                                         *)
(* The deserializer reads nothing behind its slice and leaves a struct or  *)
(* object where its header says it ends; the builder's frames count what   *)
(* it wrote, also when it is used after a container was left early; the    *)
(* parser's frames end within the slice; and no call finds a frame that is *)
(* gone unless one was left early.  The bytes handed from a writer to a    *)
(* reader are such that all of this goes on holding.                       *)
(***************************************************************************)
EXTENDS PodRoundTrip, PodSerializerProofs, TLAPS

-----------------------------------------------------------------------------
(* Numbers.                                                                *)

LEMMA QuotientNat ==
  ASSUME NEW a \in Nat, NEW b \in Nat, b # 0
  PROVE  a \div b \in Nat
BY SMT

LEMMA SizeNat ==
  ASSUME NEW t
  PROVE  D!SIZE(t) \in {0, 4, 8}
BY DEF D!SIZE

LEMMA PaddingNat ==
  ASSUME NEW n \in Nat
  PROVE  D!Padding(n) \in 0 .. 7
BY DEF D!Padding

LEMMA ReaderProductNat ==
  ASSUME NEW n \in Nat, NEW t
  PROVE  n * D!SIZE(t) \in Nat
BY SizeNat

LEMMA MinusNat ==
  ASSUME NEW a \in Nat, NEW b \in Nat, b <= a + Modulus
  PROVE  D!Minus(a, b) \in Nat
BY LayoutAssumption DEF D!Minus

(* Taking a field's bytes off what remains keeps it exact.                 *)
LEMMA MinusMinus ==
  ASSUME NEW end \in Nat, NEW from \in Nat, NEW next \in Nat,
         from <= next, next < Modulus
  PROVE  /\ D!Minus(D!Minus(end, from), next - from) = D!Minus(end, next)
         /\ D!Minus(end, next) \in Nat
BY LayoutAssumption DEF D!Minus

(* Nothing remains only at the end.                                        *)
LEMMA MinusZero ==
  ASSUME NEW end \in Nat, NEW p \in Nat, p < Modulus, D!Minus(end, p) = 0
  PROVE  p = end
BY LayoutAssumption DEF D!Minus

-----------------------------------------------------------------------------
(* The slice.                                                              *)

Slice == input \in Seq(D!Byte) /\ Len(input) < Modulus

LEMMA ElementOf ==
  ASSUME NEW S, NEW q \in Seq(S), NEW i \in 1 .. Len(q)
  PROVE  q[i] \in S
OBVIOUS

LEMMA FourBytes ==
  ASSUME NEW p \in Nat, NEW n \in Nat, p + 4 <= n
  PROVE  p + 1 \in 1 .. n /\ p + 2 \in 1 .. n /\ p + 3 \in 1 .. n /\ p + 4 \in 1 .. n
OBVIOUS

LEMMA U32Nat ==
  ASSUME Slice, NEW p \in Nat, D!Has(p, 4)
  PROVE  D!U32At(p) \in Nat
<1>0. Len(input) \in Nat
  BY DEF Slice
<1>1. p + 1 \in 1 .. Len(input) /\ p + 2 \in 1 .. Len(input)
      /\ p + 3 \in 1 .. Len(input) /\ p + 4 \in 1 .. Len(input)
  BY <1>0, FourBytes, Zenon DEF D!Has
<1>2. input[p + 1] \in D!Byte /\ input[p + 2] \in D!Byte
      /\ input[p + 3] \in D!Byte /\ input[p + 4] \in D!Byte
  BY <1>1, ElementOf, Zenon DEF Slice
<1>3. input[p + 1] \in Nat /\ input[p + 2] \in Nat
      /\ input[p + 3] \in Nat /\ input[p + 4] \in Nat
  BY <1>2 DEF D!Byte
<1>. DEFINE a == input[p + 1]
            b == input[p + 2]
            c == input[p + 3]
            d == input[p + 4]
<1>4. a \in Nat /\ b \in Nat /\ c \in Nat /\ d \in Nat
  BY <1>3
<1>5. D!U32At(p) = a + 256 * b + 65536 * c + 16777216 * d
  BY DEF D!U32At
<1>. HIDE DEF a, b, c, d
<1>. QED
  BY <1>4, <1>5

LEMMA HeaderNat ==
  ASSUME Slice, NEW p \in Nat, D!Has(p, 8)
  PROVE  D!SizeAt(p) \in Nat /\ D!TypeAt(p) \in Nat
<1>1. D!Has(p, 4) /\ D!Has(p + 4, 4) /\ p + 4 \in Nat
  BY DEF D!Has, Slice
<1>. QED
  BY <1>1, U32Nat DEF D!SizeAt, D!TypeAt

(* A pod read by one call ends within the slice.                           *)
LEMMA WholeInside ==
  ASSUME Slice, NEW p \in Nat, NEW t, D!WholeAt(t, p).outcome = "ok"
  PROVE  D!WholeAt(t, p).next \in Nat /\ p <= D!WholeAt(t, p).next
         /\ D!WholeAt(t, p).next <= Len(input)
<1>. DEFINE r == D!WholeAt(t, p)
<1>1. Len(input) \in Nat
  BY DEF Slice
<1>2. CASE t = D!SPA_TYPE_String
  <2>1. r = D!StringAt(p)
    BY <1>2 DEF D!WholeAt
  <2>2. D!HeaderAt(D!SPA_TYPE_String, p) /\ ~D!Overflows(D!SizeAt(p), 1)
        /\ D!Has(p + 8, D!Minus(D!SizeAt(p), 1) + 1 + D!Padding(D!SizeAt(p)))
        /\ r.next = p + 8 + D!SizeAt(p) + D!Padding(D!SizeAt(p))
    BY <2>1 DEF D!StringAt, D!Failed, D!Parsed
  <2>3. D!SizeAt(p) \in Nat
    BY <2>2, HeaderNat DEF D!HeaderAt
  <2>4. D!Padding(D!SizeAt(p)) \in 0 .. 7
    BY <2>3, PaddingNat
  <2>5. D!SizeAt(p) # 0
    <3>. SUFFICES ASSUME D!SizeAt(p) = 0 PROVE FALSE
      OBVIOUS
    <3>1. D!Minus(D!SizeAt(p), 1) = Modulus - 1
      BY LayoutAssumption DEF D!Minus
    <3>. QED
      BY <3>1, <2>2, <2>4, <1>1, LayoutAssumption DEF D!Has, Slice
  <2>6. D!Minus(D!SizeAt(p), 1) = D!SizeAt(p) - 1
    BY <2>3, <2>5 DEF D!Minus
  <2>7. D!Minus(D!SizeAt(p), 1) + 1 = D!SizeAt(p)
    BY <2>3, <2>6
  <2>8. D!Has(p + 8, D!SizeAt(p) + D!Padding(D!SizeAt(p)))
    BY <2>2, <2>7
  <2>. QED
    BY <2>2, <2>3, <2>4, <2>8, <1>1 DEF D!Has
<1>3. CASE t = D!SPA_TYPE_Bytes
  <2>1. r = D!BytesPodAt(p)
    BY <1>3 DEF D!WholeAt, D!SPA_TYPE_Bytes, D!SPA_TYPE_String
  <2>2. D!HeaderAt(D!SPA_TYPE_Bytes, p)
        /\ D!Has(p + 8, D!SizeAt(p) + D!Padding(D!SizeAt(p)))
        /\ r.next = p + 8 + D!SizeAt(p) + D!Padding(D!SizeAt(p))
    BY <2>1 DEF D!BytesPodAt, D!Failed, D!Parsed
  <2>3. D!SizeAt(p) \in Nat
    BY <2>2, HeaderNat DEF D!HeaderAt
  <2>4. D!Padding(D!SizeAt(p)) \in 0 .. 7
    BY <2>3, PaddingNat
  <2>. QED
    BY SMTT(30), <2>2, <2>3, <2>4, <1>1 DEF D!Has
<1>4. CASE t = D!SPA_TYPE_Pointer
  <2>1. r = D!PointerAt(p)
    BY <1>4 DEF D!WholeAt, D!SPA_TYPE_Bytes, D!SPA_TYPE_String, D!SPA_TYPE_Pointer
  <2>2. D!Has(p + 16, 8) /\ r.next = p + 24
    BY <2>1 DEF D!PointerAt, D!Failed, D!Parsed
  <2>. QED
    BY <2>2, <1>1 DEF D!Has
<1>5. CASE t \notin {D!SPA_TYPE_String, D!SPA_TYPE_Bytes, D!SPA_TYPE_Pointer}
  <2>1. r = D!FixedSizedAt(t, p)
    BY <1>5 DEF D!WholeAt
  <2>2. D!Has(p + 8, D!SIZE(t) + D!Padding(D!SIZE(t)))
        /\ r.next = p + 8 + D!SIZE(t) + D!Padding(D!SIZE(t))
    BY <2>1 DEF D!FixedSizedAt, D!Failed, D!Parsed
  <2>3. D!SIZE(t) \in Nat /\ D!Padding(D!SIZE(t)) \in 0 .. 7
    BY SizeNat, PaddingNat
  <2>. QED
    BY <2>2, <2>3, <1>1 DEF D!Has
<1>. QED
  BY <1>2, <1>3, <1>4, <1>5

-----------------------------------------------------------------------------
(* The open containers.                                                    *)

LEMMA ReaderTailFacts ==
  ASSUME NEW S, NEW q \in Seq(S), q # <<>>
  PROVE  /\ Tail(q) \in Seq(S) /\ Len(Tail(q)) = Len(q) - 1
         /\ Len(q) \in Nat \ {0} /\ q[1] \in S
         /\ \A i \in 1 .. Len(q) - 1 : Tail(q)[i] = q[i + 1]
OBVIOUS

LEMMA ReaderPushFacts ==
  ASSUME NEW S, NEW q \in Seq(S), NEW x \in S
  PROVE  /\ <<x>> \o q \in Seq(S) /\ Len(<<x>> \o q) = Len(q) + 1
         /\ Len(q) \in Nat /\ (<<x>> \o q)[1] = x
         /\ \A i \in 2 .. Len(q) + 1 : (<<x>> \o q)[i] = q[i - 1]
OBVIOUS

(* Containers with fields, whose counts are exact at position p.           *)
Exact(f, p) == f.remaining = D!Minus(f.end, f.from) /\ f.from <= p
Fields(s, p) ==
  /\ s \in Seq(D!Frame)
  /\ \A i \in 1 .. Len(s) : D!HasFields(s[i]) /\ Exact(s[i], p)

(* What the invariant says while the slice is being read.                  *)
Reading ==
  /\ Slice
  /\ at \in 0 .. Len(input)
  /\ frames \in Seq(D!Frame)
  /\ visitor \in {"value", "application"} /\ checks \in BOOLEAN

LEMMA ReaderUnfold ==
  ASSUME D!IInv
  PROVE  /\ Reading /\ Len(input) \in Nat /\ at \in Nat
         /\ frames # <<>> => Fields(Tail(frames), at)
         /\ ~D!InElements => Fields(frames, at)
<1>1. Reading
  BY DEF D!IInv, D!TypeOK, Reading, Slice
<1>2. Len(input) \in Nat /\ at \in Nat
  BY <1>1 DEF Reading, Slice
<1>3. \A i \in 1 .. Len(frames) : D!HasFields(frames[i]) => Exact(frames[i], at)
  BY DEF D!IInv, D!RemainingIsExact, Exact
<1>4. \A i \in 2 .. Len(frames) : D!HasFields(frames[i])
  BY DEF D!IInv, D!ElementsAreInnermost
<1>5. ASSUME frames # <<>> PROVE Fields(Tail(frames), at)
  <2>1. /\ Tail(frames) \in Seq(D!Frame) /\ Len(Tail(frames)) = Len(frames) - 1
        /\ Len(frames) \in Nat \ {0}
        /\ \A i \in 1 .. Len(frames) - 1 : Tail(frames)[i] = frames[i + 1]
    BY <1>1, <1>5, ReaderTailFacts DEF Reading
  <2>2. ASSUME NEW i \in 1 .. Len(Tail(frames))
        PROVE  D!HasFields(Tail(frames)[i]) /\ Exact(Tail(frames)[i], at)
    <3>1. i + 1 \in 2 .. Len(frames) /\ i + 1 \in 1 .. Len(frames) /\ i \in 1 .. Len(frames) - 1
      BY <2>1
    <3>. QED
      BY <3>1, <2>1, <1>3, <1>4, Zenon
  <2>. QED
    BY <2>1, <2>2 DEF Fields
<1>6. ASSUME ~D!InElements PROVE Fields(frames, at)
  <2>1. frames \in Seq(D!Frame) /\ Len(frames) \in Nat
    BY <1>1 DEF Reading
  <2>2. ASSUME NEW i \in 1 .. Len(frames) PROVE D!HasFields(frames[i])
    <3>1. CASE i \in 2 .. Len(frames)
      BY <3>1, <1>4
    <3>2. CASE i = 1
      <4>1. frames # <<>> /\ frames[1] \in D!Frame
        BY <2>1, <2>2, <3>2, ReaderTailFacts
      <4>. QED
        BY <4>1, <3>2, <1>6 DEF D!InElements, D!HasFields, D!Frame
    <3>. QED
      BY <3>1, <3>2, <2>1
  <2>. QED
    BY <2>1, <2>2, <1>3 DEF Fields
<1>. QED
  BY <1>1, <1>2, <1>5, <1>6

(* Putting the invariant together again.                                   *)
LEMMA ReaderRefold ==
  ASSUME Reading, UNCHANGED D!given, at' \in 0 .. Len(input), frames' \in Seq(D!Frame),
         state' \in {"ok", "done", "err", "panic"},
         \A i \in 2 .. Len(frames') : D!HasFields(frames'[i]),
         \A i \in 1 .. Len(frames') : D!HasFields(frames'[i]) => Exact(frames'[i], at'),
         (state' = "ok" /\ frames' # <<>> /\ D!HasFields(frames'[1])) => frames'[1].from = at'
  PROVE  D!IInv'
<1>1. D!TypeOK'
  BY DEF D!TypeOK, Reading, Slice, D!given
<1>2. D!ElementsAreInnermost'
  BY DEF D!ElementsAreInnermost
<1>3. D!RemainingIsExact'
  BY DEF D!RemainingIsExact, Exact
<1>4. D!BetweenFields'
  <2>. SUFFICES ASSUME D!InFields' PROVE frames'[1].from = at'
    BY DEF D!BetweenFields
  <2>1. state' = "ok" /\ frames' # <<>> /\ ~D!InElements'
    BY DEF D!InFields
  <2>2. frames'[1] \in D!Frame
    BY <2>1, ReaderTailFacts
  <2>3. D!HasFields(frames'[1])
    BY <2>1, <2>2 DEF D!InElements, D!HasFields, D!Frame
  <2>. QED
    BY <2>1, <2>3
<1>. QED
  BY <1>1, <1>2, <1>3, <1>4 DEF D!IInv

-----------------------------------------------------------------------------
(* The ways a call ends.                                                   *)

LEMMA FieldsLater ==
  ASSUME NEW s, NEW p \in Nat, NEW q \in Nat, p <= q, Fields(s, p)
  PROVE  Fields(s, q)
<1>1. ASSUME NEW i \in 1 .. Len(s) PROVE D!HasFields(s[i]) /\ Exact(s[i], q)
  <2>1. D!HasFields(s[i]) /\ Exact(s[i], p) /\ s[i] \in D!Frame
    BY ElementOf DEF Fields
  <2>2. s[i].from \in Nat
    BY <2>1 DEF D!Frame
  <2>. QED
    BY <2>1, <2>2 DEF Exact
<1>. QED
  BY <1>1 DEF Fields

(* Fields(around) at the new position is all that a call leaves to show.   *)
LEMMA RefoldFields ==
  ASSUME Reading, UNCHANGED D!given, at' \in 0 .. Len(input), Fields(frames', at'),
         state' \in {"ok", "done", "err", "panic"},
         (state' = "ok" /\ frames' # <<>>) => frames'[1].from = at'
  PROVE  D!IInv'
<1>1. frames' \in Seq(D!Frame) /\ Len(frames') \in Nat
  BY DEF Fields
<1>2. \A i \in 1 .. Len(frames') : D!HasFields(frames'[i]) /\ Exact(frames'[i], at')
  BY DEF Fields
<1>3. \A i \in 2 .. Len(frames') : D!HasFields(frames'[i])
  BY <1>1, <1>2
<1>. QED
  BY <1>1, <1>2, <1>3, ReaderRefold

LEMMA ReaderFailsStep ==
  ASSUME D!IInv, NEW how \in {"err", "panic"}, NEW around, Fields(around, at),
         D!Fails(how, around)
  PROVE  D!IInv'
<1>1. UNCHANGED D!given /\ at' = at /\ state' = how /\ frames' = around
  BY DEF D!Fails
<1>2. Reading
  BY ReaderUnfold
<1>3. at' \in 0 .. Len(input)
  BY <1>1, <1>2 DEF Reading
<1>4. Fields(frames', at')
  BY <1>1
<1>. QED
  BY <1>1, <1>2, <1>3, <1>4, RefoldFields

(* A container counts a field that ends at next.                           *)
Counted(f, next) == [f EXCEPT !.remaining = D!Minus(@, next - f.from), !.from = next]

LEMMA CountedFrame ==
  ASSUME NEW f \in D!Frame, NEW next \in Nat, D!Minus(f.remaining, next - f.from) \in Nat
  PROVE  /\ Counted(f, next) \in D!Frame
         /\ Counted(f, next).kind = f.kind /\ Counted(f, next).end = f.end
         /\ Counted(f, next).remaining = D!Minus(f.remaining, next - f.from)
         /\ Counted(f, next).from = next
BY DEF Counted, D!Frame

LEMMA CountedExact ==
  ASSUME NEW f \in D!Frame, NEW p, NEW next \in Nat, D!HasFields(f), Exact(f, p),
         f.from <= next, next < Modulus
  PROVE  /\ Counted(f, next) \in D!Frame
         /\ D!HasFields(Counted(f, next)) /\ Exact(Counted(f, next), next)
         /\ Counted(f, next).from = next
<1>1. f.from \in Nat /\ f.end \in Nat
  BY DEF D!Frame
<1>2. /\ D!Minus(f.remaining, next - f.from) = D!Minus(f.end, next)
      /\ D!Minus(f.end, next) \in Nat
  BY <1>1, MinusMinus DEF Exact
<1>3. /\ Counted(f, next) \in D!Frame
      /\ Counted(f, next).kind = f.kind /\ Counted(f, next).end = f.end
      /\ Counted(f, next).remaining = D!Minus(f.end, next)
      /\ Counted(f, next).from = next
  BY <1>2, CountedFrame
<1>. QED
  BY <1>3 DEF D!HasFields, Exact

LEMMA CompletesStep ==
  ASSUME D!IInv, NEW around, Fields(around, at), NEW values, NEW k,
         NEW next \in Nat, at <= next, next <= Len(input), NEW v,
         D!Completes(around, values, k, next, v), state = "ok"
  PROVE  D!IInv'
<1>1. Reading /\ Len(input) \in Nat /\ at \in Nat /\ Len(input) < Modulus
  BY ReaderUnfold DEF Reading, Slice
<1>2. UNCHANGED D!given
  BY DEF D!Completes
<1>3. CASE around = <<>>
  <2>1. state' = "done" /\ at' = next /\ frames' = <<>>
    BY <1>3 DEF D!Completes
  <2>2. Fields(frames', at')
    BY <2>1 DEF Fields
  <2>. QED
    BY <1>1, <1>2, <2>1, <2>2, RefoldFields
<1>4. CASE around # <<>> /\ D!Overflows(around[1].remaining, next - around[1].from)
  <2>1. state' = "panic" /\ frames' = around /\ at' = at
    BY <1>4 DEF D!Completes
  <2>. QED
    BY <1>1, <1>2, <2>1, RefoldFields
<1>5. CASE around # <<>> /\ ~D!Overflows(around[1].remaining, next - around[1].from)
  <2>. DEFINE f == around[1]
              g == Counted(f, next)
              t == Tail(around)
  <2>1. at' = next /\ state' = "ok" /\ frames' = <<g>> \o t
    BY <1>5 DEF D!Completes, Counted
  <2>2. /\ around \in Seq(D!Frame) /\ f \in D!Frame /\ Len(around) \in Nat \ {0}
        /\ t \in Seq(D!Frame) /\ Len(t) = Len(around) - 1
        /\ \A i \in 1 .. Len(around) - 1 : t[i] = around[i + 1]
    BY <1>5, ReaderTailFacts DEF Fields
  <2>3. D!HasFields(f) /\ Exact(f, at)
    BY <2>2 DEF Fields
  <2>4. f.from \in Nat
    BY <2>2 DEF D!Frame
  <2>5. f.from <= next /\ next < Modulus
    BY <1>1, <2>3, <2>4, LayoutAssumption DEF Exact
  <2>8. g \in D!Frame /\ D!HasFields(g) /\ Exact(g, next) /\ g.from = next
    BY <2>2, <2>3, <2>5, CountedExact
  <2>. HIDE DEF g, t, f
  <2>9. /\ frames' \in Seq(D!Frame) /\ Len(frames') = Len(t) + 1 /\ frames'[1] = g
        /\ \A i \in 2 .. Len(t) + 1 : frames'[i] = t[i - 1]
    BY <2>1, <2>2, <2>8, ReaderPushFacts
  <2>10. Fields(around, next)
    BY <1>1, FieldsLater
  <2>11. ASSUME NEW i \in 1 .. Len(frames') PROVE D!HasFields(frames'[i]) /\ Exact(frames'[i], next)
    <3>1. CASE i = 1
      BY <3>1, <2>8, <2>9
    <3>2. CASE i # 1
      <4>1. i \in 2 .. Len(t) + 1 /\ i - 1 \in 1 .. Len(around) - 1 /\ (i - 1) + 1 = i
            /\ i \in 1 .. Len(around)
        BY <3>2, <2>2, <2>9
      <4>2. frames'[i] = around[i]
        BY <4>1, <2>2, <2>9
      <4>. QED
        BY <4>1, <4>2, <2>10 DEF Fields
    <3>. QED
      BY <3>1, <3>2
  <2>12. Fields(frames', at')
    BY <2>1, <2>9, <2>11 DEF Fields
  <2>. QED
    BY <1>1, <1>2, <2>1, <2>8, <2>9, <2>12, RefoldFields
<1>. QED
  BY <1>3, <1>4, <1>5

LEMMA OpensStep ==
  ASSUME D!IInv, state = "ok", ~D!InElements,
         NEW kind \in {"struct", "object", "array", "choice"}, NEW k \in Nat \X Nat,
         NEW end \in Nat, NEW from \in Nat, NEW remaining \in Nat, NEW type \in Nat \X Nat,
         NEW child \in D!FixedSized, NEW length \in Nat,
         kind \in {"struct", "object"} => remaining = D!Minus(end, from),
         at <= from, from <= Len(input),
         D!Opens(kind, k, end, from, remaining, type, child, length)
  PROVE  D!IInv'
<1>. DEFINE f == [kind |-> kind, end |-> end, from |-> from, remaining |-> remaining, key |-> k,
                  type |-> type, child |-> child, length |-> length, deserialized |-> 0]
<1>1. Reading /\ Len(input) \in Nat /\ at \in Nat /\ frames \in Seq(D!Frame)
  BY ReaderUnfold DEF Reading
<1>2. UNCHANGED D!given /\ state' = "ok" /\ at' = from /\ frames' = <<f>> \o frames
  BY DEF D!Opens
<1>3. f \in D!Frame
  BY DEF D!Frame
<1>4. f.kind = kind /\ f.from = from /\ f.remaining = remaining /\ f.end = end
  OBVIOUS
<1>. HIDE DEF f
<1>5. D!HasFields(f) => Exact(f, from)
  BY <1>4 DEF D!HasFields, Exact
<1>6. Fields(frames, from)
  BY <1>1, ReaderUnfold, FieldsLater
<1>7. /\ frames' \in Seq(D!Frame) /\ Len(frames') = Len(frames) + 1 /\ Len(frames) \in Nat
      /\ frames'[1] = f
      /\ \A i \in 2 .. Len(frames) + 1 : frames'[i] = frames[i - 1]
  BY <1>1, <1>2, <1>3, ReaderPushFacts
<1>8. ASSUME NEW i \in 2 .. Len(frames')
      PROVE  D!HasFields(frames'[i]) /\ Exact(frames'[i], from)
  <2>1. i \in 2 .. Len(frames) + 1 /\ i - 1 \in 1 .. Len(frames)
    BY <1>7
  <2>2. frames'[i] = frames[i - 1]
    BY <1>7, <2>1
  <2>. QED
    BY <1>6, <2>1, <2>2 DEF Fields
<1>9. ASSUME NEW i \in 1 .. Len(frames'), D!HasFields(frames'[i])
      PROVE  Exact(frames'[i], from)
  <2>1. CASE i = 1
    BY <2>1, <1>5, <1>7, <1>9
  <2>2. CASE i # 1
    BY <2>2, <1>7, <1>8
  <2>. QED
    BY <2>1, <2>2
<1>10. at' \in 0 .. Len(input)
  BY <1>1, <1>2
<1>. QED
  BY <1>1, <1>2, <1>4, <1>7, <1>8, <1>9, <1>10, ReaderRefold

LEMMA CountedElement ==
  ASSUME NEW f \in D!Frame
  PROVE  /\ [f EXCEPT !.deserialized = @ + 1] \in D!Frame
         /\ [f EXCEPT !.deserialized = @ + 1].kind = f.kind
BY DEF D!Frame

(* An element, or an error that is dropped: the head is no container with  *)
(* fields, and the ones around it stay as they were.                       *)
LEMMA ReaderElementStep ==
  ASSUME D!IInv, D!InElements, NEW f \in D!Frame, f.kind = frames[1].kind,
         frames' = <<f>> \o Tail(frames),
         UNCHANGED <<D!given, state>>, at' \in 0 .. Len(input), at <= at'
  PROVE  D!IInv'
<1>1. Reading /\ Len(input) \in Nat /\ at \in Nat /\ frames \in Seq(D!Frame) /\ frames # <<>>
  BY ReaderUnfold DEF Reading, D!InElements
<1>2. Fields(Tail(frames), at')
  BY <1>1, ReaderUnfold, FieldsLater
<1>3. ~D!HasFields(f)
  BY DEF D!InElements, D!HasFields
<1>. DEFINE t == Tail(frames)
<1>4. t \in Seq(D!Frame)
  BY <1>2 DEF Fields
<1>. HIDE DEF t
<1>5. /\ frames' \in Seq(D!Frame) /\ Len(frames') = Len(t) + 1 /\ Len(t) \in Nat
      /\ frames'[1] = f
      /\ \A i \in 2 .. Len(t) + 1 : frames'[i] = t[i - 1]
  <2>1. frames' = <<f>> \o t
    BY DEF t
  <2>2. /\ <<f>> \o t \in Seq(D!Frame) /\ Len(<<f>> \o t) = Len(t) + 1 /\ Len(t) \in Nat
        /\ (<<f>> \o t)[1] = f
        /\ \A i \in 2 .. Len(t) + 1 : (<<f>> \o t)[i] = t[i - 1]
    BY <1>4, ReaderPushFacts
  <2>. QED
    BY <2>1, <2>2
<1>6. ASSUME NEW i \in 2 .. Len(frames')
      PROVE  D!HasFields(frames'[i]) /\ Exact(frames'[i], at')
  <2>1. i \in 2 .. Len(t) + 1 /\ i - 1 \in 1 .. Len(t)
    BY <1>5
  <2>2. frames'[i] = t[i - 1]
    BY <1>5, <2>1
  <2>. QED
    BY <1>2, <2>1, <2>2 DEF Fields, t
<1>7. ASSUME NEW i \in 1 .. Len(frames'), D!HasFields(frames'[i])
      PROVE  Exact(frames'[i], at')
  <2>1. i # 1
    BY <1>3, <1>5, <1>7
  <2>. QED
    BY <2>1, <1>5, <1>6
<1>8. state' \in {"ok", "done", "err", "panic"}
  BY DEF D!IInv, D!TypeOK
<1>. QED
  BY <1>1, <1>3, <1>5, <1>6, <1>7, <1>8, ReaderRefold DEF D!given

-----------------------------------------------------------------------------
(* One lemma for each action.                                              *)

(* Where a field may be read, its pod begins in the slice.                 *)
LEMMA StartFacts ==
  ASSUME D!IInv, NEW t, D!Starts(t)
  PROVE  /\ state = "ok" /\ ~D!InElements /\ Fields(frames, at)
         /\ Slice /\ Len(input) \in Nat /\ at \in Nat
         /\ D!PodAt \in Nat /\ at <= D!PodAt
         /\ D!KeyHere \in Nat \X Nat
<1>1. state = "ok" /\ ~D!InElements /\ (D!InObject => D!Has(at, 8))
  BY DEF D!Starts, D!MayRead
<1>2. Fields(frames, at) /\ Slice /\ Len(input) \in Nat /\ at \in Nat
  BY <1>1, ReaderUnfold DEF Reading
<1>3. D!PodAt \in Nat /\ at <= D!PodAt
  BY <1>2 DEF D!PodAt
<1>4. D!KeyHere \in Nat \X Nat
  <2>1. CASE D!InObject
    <3>1. D!SizeAt(at) \in Nat /\ D!TypeAt(at) \in Nat
      BY <2>1, <1>1, <1>2, HeaderNat
    <3>. QED
      BY <2>1, <3>1, Zenon DEF D!KeyHere, D!SizeAt, D!TypeAt
  <2>2. CASE ~D!InObject
    BY <2>2 DEF D!KeyHere, D!NoKey
  <2>. QED
    BY <2>1, <2>2
<1>. QED
  BY <1>1, <1>2, <1>3, <1>4

LEMMA ReadWholeStep ==
  ASSUME D!IInv, NEW t, D!ReadWhole(t)
  PROVE  D!IInv'
<1>. DEFINE r == D!WholeAt(t, D!PodAt)
<1>1. D!Starts(t)
  BY DEF D!ReadWhole
<1>2. /\ state = "ok" /\ Fields(frames, at) /\ Slice /\ Len(input) \in Nat /\ at \in Nat
      /\ D!PodAt \in Nat /\ at <= D!PodAt
  BY <1>1, StartFacts
<1>3. CASE r.outcome = "ok"
  <2>1. r.next \in Nat /\ D!PodAt <= r.next /\ r.next <= Len(input)
    BY <1>2, <1>3, WholeInside
  <2>2. at <= r.next
    BY <1>2, <2>1
  <2>3. D!Completes(frames, parts, D!KeyHere, r.next, r.value)
    BY <1>3 DEF D!ReadWhole
  <2>. HIDE DEF r
  <2>. QED
    BY <1>2, <2>1, <2>2, <2>3, CompletesStep
<1>4. CASE r.outcome # "ok"
  <2>1. r.outcome \in {"err", "panic"}
    BY <1>4 DEF D!WholeAt, D!StringAt, D!BytesPodAt, D!PointerAt, D!FixedSizedAt, D!Failed, D!Parsed
  <2>2. D!Fails(r.outcome, frames)
    BY <1>4 DEF D!ReadWhole
  <2>. HIDE DEF r
  <2>. QED
    BY <1>2, <2>1, <2>2, ReaderFailsStep
<1>. QED
  BY <1>3, <1>4

(* What the header of a pod that starts here holds.                        *)
LEMMA HeaderFacts ==
  ASSUME Slice, NEW t, NEW p \in Nat, D!HeaderAt(t, p)
  PROVE  D!SizeAt(p) \in Nat /\ p + 8 <= Len(input)
BY HeaderNat DEF D!HeaderAt, D!Has

LEMMA PairNat ==
  ASSUME Slice, NEW p \in Nat, D!Has(p, 8)
  PROVE  <<D!U32At(p), D!U32At(p + 4)>> \in Nat \X Nat
BY HeaderNat, Zenon DEF D!SizeAt, D!TypeAt

LEMMA ReadStructStep ==
  ASSUME D!IInv, D!ReadStruct
  PROVE  D!IInv'
<1>. DEFINE p == D!PodAt
<1>1. D!Starts(D!SPA_TYPE_Struct)
  BY DEF D!ReadStruct
<1>2. /\ state = "ok" /\ ~D!InElements /\ Fields(frames, at) /\ Slice /\ Len(input) \in Nat
      /\ at \in Nat /\ p \in Nat /\ at <= p /\ D!KeyHere \in Nat \X Nat
  BY <1>1, StartFacts
<1>3. CASE ~D!HeaderAt(D!SPA_TYPE_Struct, p)
  BY <1>2, <1>3, ReaderFailsStep DEF D!ReadStruct
<1>4. CASE D!HeaderAt(D!SPA_TYPE_Struct, p)
  <2>1. D!SizeAt(p) \in Nat /\ p + 8 <= Len(input)
    BY <1>2, <1>4, HeaderFacts
  <2>2. D!Opens("struct", D!KeyHere, p + 8 + D!SizeAt(p), p + 8, D!SizeAt(p), D!NoKey, D!SPA_TYPE_None, 0)
    BY <1>4 DEF D!ReadStruct
  <2>3. D!SizeAt(p) = D!Minus(p + 8 + D!SizeAt(p), p + 8)
    BY <1>2, <2>1 DEF D!Minus
  <2>4. D!NoKey \in Nat \X Nat /\ D!SPA_TYPE_None \in D!FixedSized
    BY DEF D!NoKey, D!FixedSized, D!Empty
  <2>5. /\ p + 8 \in Nat /\ p + 8 + D!SizeAt(p) \in Nat /\ at <= p + 8
    BY <1>2, <2>1
  <2>. HIDE DEF p
  <2>. QED
    BY <1>2, <2>1, <2>2, <2>3, <2>4, <2>5, OpensStep
<1>. QED
  BY <1>3, <1>4

LEMMA ReadObjectStep ==
  ASSUME D!IInv, D!ReadObject
  PROVE  D!IInv'
<1>. DEFINE p == D!PodAt
            type == <<D!U32At(p + 8), D!U32At(p + 12)>>
<1>1. D!Starts(D!SPA_TYPE_Object)
  BY DEF D!ReadObject
<1>2. /\ state = "ok" /\ ~D!InElements /\ Fields(frames, at) /\ Slice /\ Len(input) \in Nat
      /\ at \in Nat /\ p \in Nat /\ at <= p /\ D!KeyHere \in Nat \X Nat
  BY <1>1, StartFacts
<1>3. CASE ~D!HeaderAt(D!SPA_TYPE_Object, p) \/ ~D!Has(p + 8, 8)
  BY <1>2, <1>3, ReaderFailsStep DEF D!ReadObject
<1>4. CASE D!HeaderAt(D!SPA_TYPE_Object, p) /\ D!Has(p + 8, 8) /\ D!Overflows(D!SizeAt(p), 8)
  BY <1>2, <1>4, ReaderFailsStep DEF D!ReadObject
<1>5. CASE D!HeaderAt(D!SPA_TYPE_Object, p) /\ D!Has(p + 8, 8) /\ ~D!Overflows(D!SizeAt(p), 8)
  <2>1. D!SizeAt(p) \in Nat
    BY <1>2, <1>5, HeaderFacts
  <2>2. D!Opens("object", D!KeyHere, p + 8 + D!SizeAt(p), p + 16, D!Minus(D!SizeAt(p), 8), type,
              D!SPA_TYPE_None, 0)
    BY <1>5 DEF D!ReadObject
  <2>3. p + 8 \in Nat /\ (p + 8) + 4 = p + 12 /\ (p + 8) + 8 = p + 16 /\ p + 16 \in Nat
        /\ p + 8 + D!SizeAt(p) \in Nat /\ at <= p + 16
    BY <1>2, <2>1
  <2>4. type \in Nat \X Nat
    <3>1. <<D!U32At(p + 8), D!U32At((p + 8) + 4)>> \in Nat \X Nat
      BY <1>2, <1>5, <2>3, PairNat
    <3>. QED
      BY <3>1, <2>3
  <2>5. p + 16 <= Len(input)
    BY <1>2, <1>5 DEF D!Has
  <2>6. D!Minus(D!SizeAt(p), 8) \in Nat
    BY <2>1, MinusNat, LayoutAssumption
  <2>7. D!Minus(D!SizeAt(p), 8) = D!Minus(p + 8 + D!SizeAt(p), p + 16)
    BY <1>2, <2>1, LayoutAssumption DEF D!Minus
  <2>8. D!SPA_TYPE_None \in D!FixedSized
    BY DEF D!FixedSized, D!Empty
  <2>. HIDE DEF p, type
  <2>. QED
    BY <1>2, <2>1, <2>2, <2>3, <2>4, <2>5, <2>6, <2>7, <2>8, OpensStep
<1>. QED
  BY <1>3, <1>4, <1>5

(* The number of elements that a body of the given size holds.             *)
LEMMA LengthNat ==
  ASSUME NEW size \in Nat, NEW n \in {8, 16}, NEW child \in Nat, child # 0
  PROVE  D!Minus(size, n) \div child \in Nat
<1>1. D!Minus(size, n) \in Nat
  BY MinusNat, LayoutAssumption
<1>. QED
  BY <1>1, QuotientNat

LEMMA ReadArrayStep ==
  ASSUME D!IInv, NEW t \in D!FixedSized, D!ReadArray(t)
  PROVE  D!IInv'
<1>. DEFINE p == D!PodAt
            length == IF D!SIZE(t) = 0 THEN 0 ELSE D!Minus(D!SizeAt(p), 8) \div D!SIZE(t)
            wrong == \/ ~D!HeaderAt(D!SPA_TYPE_Array, p) \/ ~D!HeaderAt(t, p + 8)
                     \/ D!SizeAt(p + 8) # D!SIZE(t)
            overflows == D!SIZE(t) # 0 /\ D!Overflows(D!SizeAt(p), 8)
<1>1. D!Starts(D!SPA_TYPE_Array)
  BY DEF D!ReadArray
<1>2. /\ state = "ok" /\ ~D!InElements /\ Fields(frames, at) /\ Slice /\ Len(input) \in Nat
      /\ at \in Nat /\ p \in Nat /\ at <= p /\ D!KeyHere \in Nat \X Nat
  BY <1>1, StartFacts
<1>3. CASE wrong
  BY <1>2, <1>3, ReaderFailsStep DEF D!ReadArray
<1>4. CASE ~wrong /\ overflows
  BY <1>2, <1>4, ReaderFailsStep DEF D!ReadArray
<1>5. CASE ~wrong /\ ~overflows
  <2>1. D!SizeAt(p) \in Nat
    BY <1>2, <1>5, HeaderFacts
  <2>2. p + 8 \in Nat
    BY <1>2
  <2>3. (p + 8) + 8 <= Len(input)
    BY <1>2, <1>5, <2>2, HeaderFacts
  <2>4. /\ p + 16 \in Nat /\ p + 16 <= Len(input) /\ at <= p + 16
        /\ p + 8 + D!SizeAt(p) \in Nat
    BY <1>2, <2>1, <2>3
  <2>5. length \in Nat
    <3>1. CASE D!SIZE(t) = 0
      BY <3>1
    <3>2. CASE D!SIZE(t) # 0
      <4>1. D!SIZE(t) \in Nat
        BY SizeNat
      <4>2. D!Minus(D!SizeAt(p), 8) \div D!SIZE(t) \in Nat
        BY <2>1, <3>2, <4>1, LengthNat
      <4>. QED
        BY <3>2, <4>2
    <3>. QED
      BY <3>1, <3>2
  <2>6. D!NoKey \in Nat \X Nat
    BY DEF D!NoKey
  <2>7. D!Opens("array", D!KeyHere, p + 8 + D!SizeAt(p), p + 16, 0, D!NoKey, t, length)
    BY <1>5 DEF D!ReadArray
  <2>. HIDE DEF p, length, wrong, overflows
  <2>. QED
    BY <1>2, <2>4, <2>5, <2>6, <2>7, OpensStep
<1>. QED
  BY <1>3, <1>4, <1>5

LEMMA ReadChoiceStep ==
  ASSUME D!IInv, D!ReadChoice
  PROVE  D!IInv'
<1>. DEFINE p == D!PodAt
            childSize == D!SizeAt(p + 16)
            childType == D!TypeAt(p + 16)
            type == <<D!U32At(p + 8), D!U32At(p + 12)>>
            length == D!Minus(D!SizeAt(p), 16) \div childSize
            short == ~D!HeaderAt(D!SPA_TYPE_Choice, p) \/ ~D!Has(p + 8, 16)
            panics == D!Overflows(D!SizeAt(p), 16) \/ childSize = 0
<1>1. D!Starts(D!SPA_TYPE_Choice)
  BY DEF D!ReadChoice
<1>2. /\ state = "ok" /\ ~D!InElements /\ Fields(frames, at) /\ Slice /\ Len(input) \in Nat
      /\ at \in Nat /\ p \in Nat /\ at <= p /\ D!KeyHere \in Nat \X Nat
  BY <1>1, StartFacts
<1>3. CASE short
  BY <1>2, <1>3, ReaderFailsStep DEF D!ReadChoice
<1>4. CASE ~short /\ panics
  BY <1>2, <1>4, ReaderFailsStep DEF D!ReadChoice
<1>5. CASE ~short /\ ~panics /\ childType \notin D!FixedSized \ D!Empty
  BY <1>2, <1>5, ReaderFailsStep DEF D!ReadChoice
<1>6. CASE ~short /\ ~panics /\ childType \in D!FixedSized \ D!Empty
  <2>1. D!SizeAt(p) \in Nat
    BY <1>2, <1>6, HeaderFacts
  <2>2. /\ p + 8 \in Nat /\ (p + 8) + 4 = p + 12 /\ p + 16 \in Nat /\ p + 24 \in Nat
        /\ p + 24 <= Len(input) /\ at <= p + 24 /\ p + 8 + D!SizeAt(p) \in Nat
        /\ D!Has(p + 8, 8) /\ D!Has(p + 16, 8)
    BY <1>2, <1>6, <2>1 DEF D!Has
  <2>3. type \in Nat \X Nat
    <3>1. <<D!U32At(p + 8), D!U32At((p + 8) + 4)>> \in Nat \X Nat
      BY <1>2, <2>2, PairNat
    <3>. QED
      BY <3>1, <2>2
  <2>4. childSize \in Nat
    BY <1>2, <2>2, HeaderNat
  <2>5. length \in Nat
    BY <1>6, <2>1, <2>4, LengthNat
  <2>6. D!Opens("choice", D!KeyHere, p + 8 + D!SizeAt(p), p + 24, 0, type, childType, length)
    BY <1>6 DEF D!ReadChoice
  <2>7. childType \in D!FixedSized
    BY <1>6
  <2>. HIDE DEF p, childSize, childType, type, length, short, panics
  <2>. QED
    BY <1>2, <2>2, <2>3, <2>5, <2>6, <2>7, OpensStep
<1>. QED
  BY <1>3, <1>4, <1>5, <1>6

LEMMA NothingToReadStep ==
  ASSUME D!IInv, D!NothingToRead
  PROVE  D!IInv'
<1>1. ~D!InElements /\ D!Fails("err", frames)
  BY DEF D!NothingToRead, D!MayRead
<1>2. Fields(frames, at)
  BY <1>1, ReaderUnfold
<1>. QED
  BY <1>1, <1>2, ReaderFailsStep

LEMMA ReadElementStep ==
  ASSUME D!IInv, D!ReadElement
  PROVE  D!IInv'
<1>. DEFINE f == frames[1]
            n == D!SIZE(f.child)
            g == [f EXCEPT !.deserialized = @ + 1]
<1>1. /\ D!InElements /\ frames \in Seq(D!Frame) /\ frames # <<>> /\ Len(input) \in Nat
      /\ at \in Nat /\ at <= Len(input) /\ Fields(Tail(frames), at)
  BY ReaderUnfold DEF D!ReadElement, D!InElements, Reading
<1>2. f \in D!Frame
  BY <1>1, ReaderTailFacts
<1>3. g \in D!Frame /\ g.kind = frames[1].kind
  BY <1>2, CountedElement
<1>4. ASSUME D!Fails("panic", Tail(frames)) PROVE D!IInv'
  BY <1>1, <1>4, ReaderFailsStep
<1>5. ASSUME D!Fails("err", Tail(frames)) PROVE D!IInv'
  BY <1>1, <1>5, ReaderFailsStep
<1>6. ASSUME D!Has(at, n), at' = at + n, frames' = <<g>> \o Tail(frames),
             UNCHANGED <<D!given, state>>
      PROVE  D!IInv'
  <2>1. n \in Nat
    BY SizeNat
  <2>2. at' \in 0 .. Len(input) /\ at <= at'
    BY <1>1, <1>6, <2>1 DEF D!Has
  <2>. HIDE DEF f, n, g
  <2>. QED
    BY <1>1, <1>3, <1>6, <2>2, ReaderElementStep
<1>7. ASSUME frames' = <<g>> \o Tail(frames), UNCHANGED <<D!given, at, state>>
      PROVE  D!IInv'
  <2>1. at' \in 0 .. Len(input) /\ at <= at'
    BY <1>1, <1>7
  <2>. HIDE DEF f, n, g
  <2>. QED
    BY <1>1, <1>3, <1>7, <2>1, ReaderElementStep
<1>. QED
  BY <1>4, <1>5, <1>6, <1>7 DEF D!ReadElement

(* Where an array or a choice ends, if the padding behind it is there.     *)
LEMMA AfterFacts ==
  ASSUME D!IInv, D!InElements
  PROVE  /\ D!AfterElements \in Nat /\ at <= D!AfterElements /\ Len(input) \in Nat
         /\ Fields(Tail(frames), at)
<1>1. frames # <<>> /\ frames \in Seq(D!Frame) /\ at \in Nat /\ Len(input) \in Nat
      /\ Fields(Tail(frames), at)
  BY ReaderUnfold DEF D!InElements, Reading
<1>2. frames[1] \in D!Frame
  BY <1>1, ReaderTailFacts
<1>3. frames[1].deserialized \in Nat
  BY <1>2 DEF D!Frame
<1>4. D!Padding(frames[1].deserialized * D!SIZE(frames[1].child)) \in 0 .. 7
  BY <1>3, ReaderProductNat, PaddingNat
<1>. QED
  BY <1>1, <1>4 DEF D!AfterElements

LEMMA ReaderEndArrayStep ==
  ASSUME D!IInv, D!EndArray
  PROVE  D!IInv'
<1>. DEFINE f == frames[1]
            v == [t |-> D!SPA_TYPE_Array, child |-> f.child, vals |-> parts[1]]
<1>1. state = "ok" /\ D!InElements
  BY DEF D!EndArray, D!EndElements
<1>2. /\ D!AfterElements \in Nat /\ at <= D!AfterElements /\ Len(input) \in Nat
      /\ Fields(Tail(frames), at)
  BY <1>1, AfterFacts
<1>3. CASE f.deserialized # f.length
  BY <1>2, <1>3, ReaderFailsStep DEF D!EndArray
<1>4. CASE f.deserialized = f.length /\ D!AfterElements > Len(input)
  BY <1>2, <1>4, ReaderFailsStep DEF D!EndArray
<1>5. CASE f.deserialized = f.length /\ ~(D!AfterElements > Len(input))
  <2>1. D!Completes(Tail(frames), Tail(parts), f.key, D!AfterElements, v)
    BY <1>5 DEF D!EndArray
  <2>2. D!AfterElements <= Len(input)
    BY <1>2, <1>5
  <2>. HIDE DEF f, v
  <2>. QED
    BY <1>1, <1>2, <2>1, <2>2, CompletesStep
<1>. QED
  BY <1>3, <1>4, <1>5

LEMMA EndChoiceStep ==
  ASSUME D!IInv, D!EndChoice
  PROVE  D!IInv'
<1>. DEFINE f == frames[1]
            kind == f.type[1]
            short == \/ D!AfterElements > Len(input) \/ kind \notin D!ChoiceKind
                     \/ Len(parts[1]) < D!Needed(kind)
            v == [t |-> D!SPA_TYPE_Choice, kind |-> kind,
                  flags |-> IF kind = D!SPA_CHOICE_None THEN 0 ELSE f.type[2],
                  child |-> f.child, vals |-> D!Taken(kind, parts[1])]
<1>1. state = "ok" /\ D!InElements
  BY DEF D!EndChoice, D!EndElements
<1>2. /\ D!AfterElements \in Nat /\ at <= D!AfterElements /\ Len(input) \in Nat
      /\ Fields(Tail(frames), at)
  BY <1>1, AfterFacts
<1>3. CASE short
  BY <1>2, <1>3, ReaderFailsStep DEF D!EndChoice
<1>4. CASE ~short
  <2>1. D!Completes(Tail(frames), Tail(parts), f.key, D!AfterElements, v)
    BY <1>4 DEF D!EndChoice
  <2>2. D!AfterElements <= Len(input)
    BY <1>2, <1>4
  <2>. HIDE DEF f, v, kind, short
  <2>. QED
    BY <1>1, <1>2, <2>1, <2>2, CompletesStep
<1>. QED
  BY <1>3, <1>4

LEMMA ReaderEndStep ==
  ASSUME D!IInv, D!End
  PROVE  D!IInv'
<1>. DEFINE f == frames[1]
            v == [t |-> D!EndType(f), type |-> f.type, items |-> parts[1]]
<1>1. state = "ok" /\ frames # <<>>
  BY DEF D!End, D!MayEnd, D!InFields
<1>2. Fields(Tail(frames), at) /\ at \in Nat /\ at <= Len(input) /\ Len(input) \in Nat
  BY <1>1, ReaderUnfold DEF Reading
<1>3. CASE f.remaining # 0
  BY <1>2, <1>3, ReaderFailsStep DEF D!End
<1>4. CASE f.remaining = 0
  <2>1. D!Completes(Tail(frames), Tail(parts), f.key, at, v)
    BY <1>4 DEF D!End
  <2>. HIDE DEF f, v
  <2>. QED
    BY <1>1, <1>2, <2>1, CompletesStep
<1>. QED
  BY <1>3, <1>4

LEMMA RejectStep ==
  ASSUME D!IInv, D!Reject
  PROVE  D!IInv'
<1>1. frames # <<>> /\ D!Fails("err", Tail(frames))
  BY DEF D!Reject
<1>. QED
  BY <1>1, ReaderUnfold, ReaderFailsStep

LEMMA GoOnAfterErrorStep ==
  ASSUME D!IInv, D!GoOnAfterError
  PROVE  D!IInv'
<1>1. frames # <<>> /\ D!Fails("panic", Tail(frames))
  BY DEF D!GoOnAfterError
<1>. QED
  BY <1>1, ReaderUnfold, ReaderFailsStep

-----------------------------------------------------------------------------
(* The deserializers keep their books from the first call on.  Given: a    *)
(* slice is handed to a reader, in whatever way.                           *)
Given ==
  /\ input \in Seq(D!Byte) /\ Len(input) < Modulus
  /\ visitor \in {"value", "application"} /\ checks \in BOOLEAN
  /\ frames = <<>> /\ at = 0 /\ state = "ok"

LEMMA GivenIInv ==
  /\ Given => D!IInv
  /\ Given' => D!IInv'
<1>1. ASSUME Given
      PROVE  D!IInv
  <2>1. Len(input) \in Nat /\ frames \in Seq(D!Frame) /\ Len(frames) = 0
    BY <1>1 DEF Given
  <2>2. D!TypeOK
    BY <1>1, <2>1 DEF Given, D!TypeOK
  <2>3. D!ElementsAreInnermost /\ D!RemainingIsExact
    BY <1>1, <2>1 DEF Given, D!ElementsAreInnermost, D!RemainingIsExact
  <2>4. D!BetweenFields
    BY <1>1 DEF Given, D!BetweenFields, D!InFields
  <2>. QED
    BY <2>2, <2>3, <2>4 DEF D!IInv
<1>2. ASSUME Given'
      PROVE  D!IInv'
  <2>1. Len(input') \in Nat /\ frames' \in Seq(D!Frame) /\ Len(frames') = 0
    BY <1>2 DEF Given
  <2>2. D!TypeOK'
    BY <1>2, <2>1 DEF Given, D!TypeOK
  <2>3. D!ElementsAreInnermost' /\ D!RemainingIsExact'
    BY <1>2, <2>1 DEF Given, D!ElementsAreInnermost, D!RemainingIsExact
  <2>4. D!BetweenFields'
    BY <1>2 DEF Given, D!BetweenFields, D!InFields
  <2>. QED
    BY <2>2, <2>3, <2>4 DEF D!IInv
<1>. QED
  BY <1>1, <1>2

LEMMA InitGives ==
  D!Init => Given
BY DeserializerAssumption DEF D!Init, Given, Byte, D!Byte

LEMMA StutterIInv ==
  ASSUME D!IInv, UNCHANGED D!vars
  PROVE  D!IInv'
BY DEF D!vars, D!IInv, D!TypeOK, D!ElementsAreInnermost, D!RemainingIsExact, D!BetweenFields, D!InFields,
       D!InElements

LEMMA ReaderInductive ==
  ASSUME D!IInv, [D!Next]_(D!vars)
  PROVE  D!IInv'
<1>1. CASE D!NothingToRead
  BY <1>1, NothingToReadStep
<1>2. ASSUME NEW t \in D!Whole, D!ReadWhole(t) PROVE D!IInv'
  BY <1>2, ReadWholeStep
<1>3. CASE D!ReadStruct
  BY <1>3, ReadStructStep
<1>4. CASE D!ReadObject
  BY <1>4, ReadObjectStep
<1>5. CASE D!ReadChoice
  BY <1>5, ReadChoiceStep
<1>6. ASSUME NEW t \in D!FixedSized, D!ReadArray(t) PROVE D!IInv'
  BY <1>6, ReadArrayStep
<1>7. CASE D!ReadElement
  BY <1>7, ReadElementStep
<1>8. CASE D!EndArray
  BY <1>8, ReaderEndArrayStep
<1>9. CASE D!EndChoice
  BY <1>9, EndChoiceStep
<1>10. CASE D!End
  BY <1>10, ReaderEndStep
<1>11. CASE D!Reject
  BY <1>11, RejectStep
<1>12. CASE D!GoOnAfterError
  BY <1>12, GoOnAfterErrorStep
<1>13. CASE UNCHANGED D!vars
  BY <1>13, StutterIInv
<1>. QED
  BY <1>1, <1>2, <1>3, <1>4, <1>5, <1>6, <1>7, <1>8, <1>9, <1>10, <1>11, <1>12, <1>13
     DEF D!Next

(* Every call keeps the invariant: what an open struct or object takes to  *)
(* remain of its size is exactly the way to its end, whatever the slice.   *)
THEOREM ReaderInvariant == D!Spec => []D!IInv
<1>1. D!Init => D!IInv
  BY InitGives, GivenIInv
<1>2. D!IInv /\ [D!Next]_(D!vars) => D!IInv'
  BY ReaderInductive
<1>. QED
  BY <1>1, <1>2, PTL DEF D!Spec

(* No call reads behind the end of the slice, whatever sizes the headers   *)
(* in it give, whatever the visitor asks for and in either build.          *)
THEOREM ReaderTypeCorrect == D!Spec => []D!TypeOK
<1>1. D!IInv => D!TypeOK
  BY DEF D!IInv
<1>. QED
  BY <1>1, ReaderInvariant, PTL

(* The calls that leave a struct or object: end, when nothing remains.     *)
LEMMA LeavesByEnd ==
  ASSUME D!IInv, D!Next, D!InFields, Len(frames') < Len(frames), state' \in {"ok", "done"}
  PROVE  D!End /\ frames[1].remaining = 0
<1>0. /\ state = "ok" /\ frames # <<>> /\ ~D!InElements /\ frames \in Seq(D!Frame)
      /\ Len(frames) \in Nat \ {0} /\ Fields(frames, at)
  BY ReaderUnfold, ReaderTailFacts DEF D!InFields, Reading
<1>1. ASSUME NEW how \in {"err", "panic"}, NEW around, D!Fails(how, around) PROVE FALSE
  BY <1>1 DEF D!Fails
<1>2. ASSUME NEW values, NEW k, NEW next, NEW v, D!Completes(frames, values, k, next, v)
      PROVE  FALSE
  <2>. DEFINE g == [frames[1] EXCEPT !.remaining = D!Minus(@, next - frames[1].from),
                                   !.from = next]
  <2>1. frames' = frames \/ frames' = <<g>> \o Tail(frames)
    BY <1>0, <1>2 DEF D!Completes
  <2>. HIDE DEF g
  <2>2. Tail(frames) \in Seq(D!Frame) /\ Len(Tail(frames)) = Len(frames) - 1
    BY <1>0, ReaderTailFacts
  <2>3. Len(<<g>> \o Tail(frames)) = Len(frames)
    BY <1>0, <2>2
  <2>. QED
    BY <1>0, <2>1, <2>3
<1>3. ASSUME NEW kind, NEW k, NEW end, NEW from, NEW remaining, NEW type, NEW child,
             NEW length, D!Opens(kind, k, end, from, remaining, type, child, length)
      PROVE  FALSE
  <2>. DEFINE g == [kind |-> kind, end |-> end, from |-> from, remaining |-> remaining,
                    key |-> k, type |-> type, child |-> child, length |-> length,
                    deserialized |-> 0]
  <2>1. frames' = <<g>> \o frames
    BY <1>3 DEF D!Opens
  <2>. HIDE DEF g
  <2>2. Len(<<g>> \o frames) = Len(frames) + 1
    BY <1>0
  <2>. QED
    BY <1>0, <2>1, <2>2
<1>4. ~D!NothingToRead
  BY <1>1 DEF D!NothingToRead
<1>5. ASSUME NEW t \in D!Whole, D!ReadWhole(t) PROVE FALSE
  <2>. DEFINE r == D!WholeAt(t, D!PodAt)
  <2>1. r.outcome \in {"ok", "err", "panic"}
    BY DEF D!WholeAt, D!StringAt, D!BytesPodAt, D!PointerAt, D!FixedSizedAt, D!Failed, D!Parsed
  <2>2. \/ D!Completes(frames, parts, D!KeyHere, r.next, r.value)
        \/ r.outcome # "ok" /\ D!Fails(r.outcome, frames)
    BY <1>5 DEF D!ReadWhole
  <2>. HIDE DEF r
  <2>. QED
    BY <2>1, <2>2, <1>1, <1>2
<1>6. ~D!ReadStruct
  BY <1>1, <1>3 DEF D!ReadStruct
<1>7. ~D!ReadObject
  BY <1>1, <1>3 DEF D!ReadObject
<1>8. ~D!ReadChoice
  BY <1>1, <1>3 DEF D!ReadChoice
<1>9. ASSUME NEW t \in D!FixedSized, D!ReadArray(t) PROVE FALSE
  BY <1>1, <1>3, <1>9 DEF D!ReadArray
<1>10. ~D!ReadElement /\ ~D!EndArray /\ ~D!EndChoice
  BY <1>0 DEF D!ReadElement, D!EndArray, D!EndChoice, D!EndElements
<1>11. ~D!Reject
  BY <1>1 DEF D!Reject
<1>12. ~D!GoOnAfterError
  BY <1>0 DEF D!GoOnAfterError
<1>13. D!End
  BY <1>4, <1>5, <1>6, <1>7, <1>8, <1>9, <1>10, <1>11, <1>12 DEF D!Next
<1>14. frames[1].remaining = 0
  BY <1>1, <1>13 DEF D!End
<1>. QED
  BY <1>13, <1>14

LEMMA LeftByEnd ==
  ASSUME D!IInv, D!Next, D!InFields, Len(frames') < Len(frames), state' \in {"ok", "done"}
  PROVE  at = frames[1].end /\ at' = at
<1>1. /\ frames # <<>> /\ ~D!InElements /\ frames \in Seq(D!Frame) /\ Fields(frames, at)
      /\ Len(frames) \in Nat \ {0} /\ at \in Nat /\ at < Modulus
  BY ReaderUnfold, ReaderTailFacts, LayoutAssumption DEF D!InFields, Reading, Slice
<1>2. D!End /\ frames[1].remaining = 0
  BY LeavesByEnd
<1>3. frames[1].from = at /\ frames[1].remaining = D!Minus(frames[1].end, frames[1].from)
  BY <1>1 DEF D!IInv, D!BetweenFields, Fields, Exact
<1>4. frames[1].end \in Nat
  <2>1. frames[1] \in D!Frame
    BY <1>1, ReaderTailFacts
  <2>. QED
    BY <2>1 DEF D!Frame
<1>5. at = frames[1].end
  BY <1>1, <1>2, <1>3, <1>4, MinusZero
<1>6. at' = at
  BY <1>2 DEF D!End, D!Completes, D!Fails
<1>. QED
  BY <1>5, <1>6

(* A struct or object whose deserializer returned without an error was     *)
(* left exactly where its header says it ends, so that what is read next   *)
(* begins where it should.                                                 *)
THEOREM LeavesAtItsEnd == D!Spec => D!LeftAtItsEnd
<1>1. D!IInv /\ [D!Next]_(D!vars)
        => [D!InFields /\ Len(frames') < Len(frames) /\ state' \in {"ok", "done"}
              => at = frames[1].end /\ at' = at]_(D!vars)
  BY LeftByEnd
<1>. QED
  BY <1>1, ReaderInvariant, PTL DEF D!Spec, D!LeftAtItsEnd

(***************************************************************************)
(* The native builder of PodBuilder, as PodRoundTrip has it: the frames it *)
(* links and the Vec it writes to.                                         *)
(***************************************************************************)
Listed(s) == \E S : s \in Seq(S)

LEMMA ListedLength ==
  ASSUME NEW s, Listed(s)
  PROVE  Len(s) \in Nat /\ DOMAIN s = 1 .. Len(s)
BY DEF Listed

LEMMA ListedConcat ==
  ASSUME NEW p, NEW q, Listed(p), Listed(q)
  PROVE  Listed(p \o q) /\ Len(p \o q) = Len(p) + Len(q)
<1>1. PICK S : p \in Seq(S)
  BY DEF Listed
<1>2. PICK T : q \in Seq(T)
  BY DEF Listed
<1>3. p \in Seq(S \cup T) /\ q \in Seq(S \cup T)
  BY <1>1, <1>2
<1>4. p \o q \in Seq(S \cup T) /\ Len(p \o q) = Len(p) + Len(q)
  BY ONLY <1>3
<1> QED
  BY <1>4 DEF Listed

LEMMA ListedFunction ==
  ASSUME NEW n \in Nat, NEW f, f = [i \in 1 .. n |-> f[i]]
  PROVE  Listed(f) /\ Len(f) = n
<1>1. PICK S : S = {f[i] : i \in 1 .. n}
  OBVIOUS
<1>2. f \in [1 .. n -> S]
  BY <1>1
<1>3. f \in Seq(S) /\ Len(f) = n
  BY <1>2, FunctionLength
<1> QED
  BY <1>3 DEF Listed

LEMMA ListedBytes ==
  ASSUME NEW b \in Seq(B!Byte)
  PROVE  b \in Seq(B!Byte)
BY DEF Listed

LEMMA BytesConcat ==
  ASSUME NEW p \in Seq(B!Byte), NEW q \in Seq(B!Byte)
  PROVE  p \o q \in Seq(B!Byte) /\ Len(p \o q) = Len(p) + Len(q)
OBVIOUS

LEMMA FourBytesListed ==
  ASSUME NEW a \in B!Byte, NEW b \in B!Byte, NEW c \in B!Byte, NEW d \in B!Byte
  PROVE  <<a, b, c, d>> \in Seq(B!Byte) /\ Len(<<a, b, c, d>>) = 4
OBVIOUS

LEMMA WordBytes ==
  ASSUME NEW n \in Nat
  PROVE  B!U32(n) \in Seq(B!Byte) /\ Len(B!U32(n)) = 4
<1>1. n \div 256 \in Nat /\ n \div 65536 \in Nat /\ n \div 16777216 \in Nat
  BY SMT
<1>2. \A m \in Nat : m % 256 \in B!Byte
  BY SMT DEF B!Byte
<1>3. /\ n % 256 \in B!Byte /\ (n \div 256) % 256 \in B!Byte
      /\ (n \div 65536) % 256 \in B!Byte /\ (n \div 16777216) % 256 \in B!Byte
  BY <1>1, <1>2
<1> QED
  BY <1>3, FourBytesListed DEF B!U32

LEMMA TwoWords ==
  ASSUME NEW n \in Nat, NEW m \in Nat
  PROVE  B!U32(n) \o B!U32(m) \in Seq(B!Byte) /\ Len(B!U32(n) \o B!U32(m)) = 8
<1> PICK a : a = B!U32(n)
  OBVIOUS
<1> PICK b : b = B!U32(m)
  OBVIOUS
<1>1. a \in Seq(B!Byte) /\ b \in Seq(B!Byte) /\ Len(a) = 4 /\ Len(b) = 4
  BY WordBytes
<1>2. a \o b \in Seq(B!Byte) /\ Len(a \o b) = 8
  <2>1. a \o b \in Seq(B!Byte) /\ Len(a \o b) = Len(a) + Len(b)
    BY <1>1, BytesConcat
  <2> QED
    BY ONLY <1>1, <2>1
<1> QED
  BY <1>2

LEMMA HeaderBytes ==
  ASSUME NEW size \in Nat, NEW t \in Nat
  PROVE  B!Header(size, t) \in Seq(B!Byte) /\ Len(B!Header(size, t)) = 8
BY TwoWords DEF B!Header

LEMMA ZeroBytes ==
  ASSUME NEW n \in Nat
  PROVE  B!Zeroes(n) \in Seq(B!Byte) /\ Len(B!Zeroes(n)) = n
<1>1. B!Zeroes(n) \in [1 .. n -> B!Byte]
  BY DEF B!Zeroes, B!Byte
<1> QED
  BY <1>1, FunctionLength

(* Some bytes are written over others. *)
Patched(old, bytes, from, end, data) ==
  /\ Listed(data) /\ Len(data) = Len(old)
  /\ \A i \in 1 .. Len(old) :
       data[i] = IF i \in from + 1 .. end THEN bytes[i - from] ELSE old[i]

LEMMA WrittenOver ==
  ASSUME NEW old \in Seq(B!Byte), NEW bytes \in Seq(B!Byte), NEW from \in Nat, NEW end,
         end = from + Len(bytes), NEW data,
         Patched(old, bytes, from, end, data)
  PROVE  data \in Seq(B!Byte)
<1>1. Len(old) \in Nat /\ DOMAIN old = 1 .. Len(old) /\ Len(bytes) \in Nat
  OBVIOUS
<1>2. ASSUME NEW i \in 1 .. Len(old)
      PROVE  data[i] \in B!Byte
  <2>1. CASE i \in from + 1 .. end
    <3>1. i - from \in 1 .. Len(bytes)
      BY <1>1, <2>1
    <3> QED
      BY <1>1, <2>1, <3>1 DEF Patched
  <2>2. CASE i \notin from + 1 .. end
    BY <1>1, <2>2 DEF Patched
  <2> QED
    BY <2>1, <2>2
<1>3. Len(data) = Len(old) /\ \E S : data \in Seq(S)
  BY DEF Listed, Patched
<1> QED
  BY <1>1, <1>2, <1>3

LEMMA TypesAreNumbers ==
  /\ B!SPA_TYPE_None \in Nat /\ B!SPA_TYPE_String \in Nat /\ B!SPA_TYPE_Bytes \in Nat
  /\ B!SPA_TYPE_Pointer \in Nat /\ B!SPA_TYPE_Array \in Nat /\ B!SPA_TYPE_Struct \in Nat
  /\ B!SPA_TYPE_Object \in Nat /\ B!SPA_TYPE_Sequence \in Nat /\ B!SPA_TYPE_Choice \in Nat
  /\ B!FixedSized \subseteq Nat
BY DEF B!SPA_TYPE_None, B!SPA_TYPE_String, B!SPA_TYPE_Bytes, B!SPA_TYPE_Pointer, B!SPA_TYPE_Array,
       B!SPA_TYPE_Struct, B!SPA_TYPE_Object, B!SPA_TYPE_Sequence, B!SPA_TYPE_Choice, B!FixedSized,
       B!Empty, B!Words, B!Doubles, B!SPA_TYPE_Bool, B!SPA_TYPE_Id, B!SPA_TYPE_Int, B!SPA_TYPE_Float,
       B!SPA_TYPE_Long, B!SPA_TYPE_Double, B!SPA_TYPE_Rectangle, B!SPA_TYPE_Fraction, B!SPA_TYPE_Fd

LEMMA PointerIsApart ==
  B!SPA_TYPE_Pointer \notin B!FixedSized \cup {B!SPA_TYPE_String, B!SPA_TYPE_Bytes, B!SPA_TYPE_Choice}
BY DEF B!SPA_TYPE_None, B!SPA_TYPE_String, B!SPA_TYPE_Bytes, B!SPA_TYPE_Pointer, B!SPA_TYPE_Choice,
       B!FixedSized, B!Empty, B!Words, B!Doubles, B!SPA_TYPE_Bool, B!SPA_TYPE_Id, B!SPA_TYPE_Int,
       B!SPA_TYPE_Float, B!SPA_TYPE_Long, B!SPA_TYPE_Double, B!SPA_TYPE_Rectangle,
       B!SPA_TYPE_Fraction, B!SPA_TYPE_Fd

(* A frame counts what lies between its header and the offset. *)
FrameCounts(f, offset) ==
  /\ f = [type |-> f.type, at |-> f.at, size |-> f.size, flags |-> f.flags, alive |-> f.alive]
  /\ f.type \in Nat /\ f.at \in Nat /\ f.size \in Nat /\ offset = f.at + 8 + f.size

BuilderRecord(data, size, offset, flags, links, sound) ==
  [data |-> data, size |-> size, offset |-> offset, flags |-> flags, frames |-> links,
   sound |-> sound]

NativeIsSound(n) ==
  /\ n = BuilderRecord(n.data, n.size, n.offset, n.flags, n.frames, n.sound)
  /\ n.data \in Seq(B!Byte) /\ n.size = Len(n.data) /\ n.offset \in Nat /\ n.offset <= n.size
  /\ n.sound = TRUE /\ Listed(n.frames)
  /\ \A i \in DOMAIN n.frames : FrameCounts(n.frames[i], n.offset)

(* The frames are still those of before. *)
SameFrames(n, m) ==
  /\ Len(m.frames) = Len(n.frames) /\ DOMAIN m.frames = DOMAIN n.frames
  /\ \A i \in DOMAIN n.frames : /\ m.frames[i].type = n.frames[i].type
                               /\ m.frames[i].alive = n.frames[i].alive

LEMMA SameIsTransitive ==
  ASSUME NEW n, NEW m, NEW o, SameFrames(n, m), SameFrames(m, o)
  PROVE  SameFrames(n, o)
BY DEF SameFrames

LEMMA OverflowIs ==
  ASSUME NEW n, NativeIsSound(n), NEW size \in Nat, size > n.size
  PROVE  LET m == B!Overflow(n, size)
         IN  /\ NativeIsSound(m) /\ m.size = size /\ m.offset = n.offset
             /\ m.flags = n.flags /\ m.frames = n.frames
<1>1. /\ n = BuilderRecord(n.data, n.size, n.offset, n.flags, n.frames, n.sound)
      /\ n.data \in Seq(B!Byte) /\ n.size = Len(n.data) /\ n.offset \in Nat /\ n.offset <= n.size
      /\ n.sound = TRUE /\ Listed(n.frames)
      /\ \A i \in DOMAIN n.frames : FrameCounts(n.frames[i], n.offset)
  BY DEF NativeIsSound
<1>2. Len(n.data) \in Nat
  BY <1>1, ListedLength
<1>3. size - Len(n.data) \in Nat
  BY <1>1, <1>2
<1>4. PICK tail : tail = B!Zeroes(size - Len(n.data))
  OBVIOUS
<1>5. tail \in Seq(B!Byte) /\ Len(tail) = size - Len(n.data)
  BY <1>3, <1>4, ZeroBytes
<1>6. PICK data : data = n.data \o tail
  OBVIOUS
<1>7. data \in Seq(B!Byte) /\ Len(data) = Len(n.data) + Len(tail)
  BY <1>1, <1>5, <1>6, BytesConcat
<1>8. Len(data) = size
  BY ONLY <1>2, <1>5, <1>7, size \in Nat
<1>9. PICK m : m = B!Overflow(n, size)
  OBVIOUS
<1>10. (n.sound /\ size > Len(n.data)) = TRUE
  BY <1>1
<1>11. m = [n EXCEPT !.data = data, !.size = size, !.sound = TRUE]
  BY <1>4, <1>6, <1>9, <1>10, Zenon DEF B!Overflow
<1>12. m = BuilderRecord(data, size, n.offset, n.flags, n.frames, TRUE)
  BY <1>1, <1>11 DEF BuilderRecord
<1>13. /\ m.data = data /\ m.size = size /\ m.offset = n.offset /\ m.flags = n.flags
       /\ m.frames = n.frames /\ m.sound = TRUE
  BY <1>12 DEF BuilderRecord
<1>14. m.offset <= m.size
  BY <1>1, <1>2, <1>13
<1>15. m = BuilderRecord(m.data, m.size, m.offset, m.flags, m.frames, m.sound)
  BY <1>12, <1>13, Zenon
<1>16. NativeIsSound(m)
  BY <1>1, <1>7, <1>8, <1>11, <1>13, <1>14, <1>15, Zenon DEF NativeIsSound
<1> QED
  BY <1>9, <1>13, <1>16, Zenon

LEMMA RawIs ==
  ASSUME NEW n, NativeIsSound(n), NEW bytes \in Seq(B!Byte)
  PROVE  LET m == B!Raw(n, bytes)
         IN  /\ NativeIsSound(m) /\ SameFrames(n, m)
             /\ m.flags = n.flags /\ m.offset = n.offset + Len(bytes)
<1>1. PICK end : end = n.offset + Len(bytes)
  OBVIOUS
<1>2. n.offset \in Nat /\ n.size \in Nat /\ Len(bytes) \in Nat /\ n.offset <= n.size
  BY ListedLength DEF NativeIsSound
<1>3. end \in Nat
  BY <1>1, <1>2
<1>4. PICK room : room = IF end > n.size THEN B!Overflow(n, end) ELSE n
  OBVIOUS
<1>5. /\ NativeIsSound(room) /\ room.offset = n.offset /\ room.flags = n.flags
      /\ room.frames = n.frames /\ end <= room.size
  <2>1. CASE end > n.size
    <3>1. room = B!Overflow(n, end)
      BY <1>4, <2>1
    <3>2. /\ NativeIsSound(room) /\ room.size = end /\ room.offset = n.offset
          /\ room.flags = n.flags /\ room.frames = n.frames
      BY <1>3, <2>1, <3>1, OverflowIs
    <3> QED
      BY <1>3, <3>2
  <2>2. CASE ~(end > n.size)
    BY <1>2, <1>3, <1>4, <2>2
  <2> QED
    BY <2>1, <2>2
<1>6. /\ room = BuilderRecord(room.data, room.size, room.offset, room.flags, room.frames, room.sound)
      /\ room.data \in Seq(B!Byte) /\ room.size = Len(room.data) /\ room.sound = TRUE /\ Listed(room.frames)
      /\ \A i \in DOMAIN room.frames : FrameCounts(room.frames[i], room.offset)
  BY <1>5 DEF NativeIsSound
<1>7. PICK data : data = [i \in DOMAIN room.data |->
        IF i \in n.offset + 1 .. end THEN bytes[i - n.offset] ELSE room.data[i]]
  OBVIOUS
<1>8. PICK links : links = [i \in DOMAIN room.frames |->
        B!Counted(room.frames[i], Len(bytes))]
  OBVIOUS
<1>9. PICK m : m = B!Raw(n, bytes)
  OBVIOUS
<1>10. m = [room EXCEPT !.data = data, !.offset = end, !.frames = links]
  BY <1>1, <1>4, <1>7, <1>8, <1>9, Zenon DEF B!Raw
<1>11. m = BuilderRecord(data, room.size, end, room.flags, links, room.sound)
  <2>1. room = [data |-> room.data, size |-> room.size, offset |-> room.offset,
                flags |-> room.flags, frames |-> room.frames, sound |-> room.sound]
    BY <1>6, Zenon DEF BuilderRecord
  <2> QED
    BY ONLY <1>10, <2>1 DEF BuilderRecord
<1>12. /\ m.data = data /\ m.size = room.size /\ m.offset = end /\ m.flags = n.flags
       /\ m.frames = links /\ m.sound = TRUE
  BY <1>5, <1>6, <1>11 DEF BuilderRecord
<1>13. DOMAIN room.data = 1 .. Len(room.data) /\ Len(room.data) \in Nat
       /\ DOMAIN room.frames = 1 .. Len(room.frames) /\ Len(room.frames) \in Nat
  BY <1>6, ListedLength
<1>14. data \in Seq(B!Byte) /\ Len(data) = Len(room.data)
  <2>1. data = [i \in 1 .. Len(room.data) |-> data[i]]
    BY <1>7, <1>13
  <2>2. Listed(data) /\ Len(data) = Len(room.data)
    BY <1>13, <2>1, ListedFunction
  <2>3. \A i \in 1 .. Len(room.data) :
          data[i] = IF i \in n.offset + 1 .. end THEN bytes[i - n.offset] ELSE room.data[i]
    BY <1>7, <1>13
  <2>4. Patched(room.data, bytes, n.offset, end, data)
    BY <2>2, <2>3, Zenon DEF Patched
  <2>5. data \in Seq(B!Byte)
    BY <1>1, <1>2, <1>6, <2>4, WrittenOver
  <2> QED
    BY <2>2, <2>5
<1>15. Listed(links) /\ Len(links) = Len(room.frames) /\ DOMAIN links = DOMAIN room.frames
  <2>1. links = [i \in 1 .. Len(room.frames) |-> links[i]]
    BY <1>8, <1>13
  <2> QED
    BY <1>13, <2>1, ListedFunction, ListedLength
<1>16. ASSUME NEW i \in DOMAIN room.frames
       PROVE  /\ FrameCounts(links[i], end) /\ links[i].type = room.frames[i].type
              /\ links[i].alive = room.frames[i].alive
  <2>1. PICK f : f = room.frames[i]
    OBVIOUS
  <2>2. PICK g : g = links[i]
    OBVIOUS
  <2>3. g = [f EXCEPT !.size = f.size + Len(bytes)]
    BY <1>8, <2>1, <2>2 DEF B!Counted
  <2>4. /\ f = [type |-> f.type, at |-> f.at, size |-> f.size, flags |-> f.flags, alive |-> f.alive]
        /\ f.type \in Nat /\ f.at \in Nat /\ f.size \in Nat /\ n.offset = f.at + 8 + f.size
    BY <1>5, <1>6, <2>1 DEF FrameCounts
  <2>5. PICK size : size = f.size + Len(bytes)
    OBVIOUS
  <2>6. g = [type |-> f.type, at |-> f.at, size |-> size, flags |-> f.flags, alive |-> f.alive]
    BY <2>3, <2>4, <2>5
  <2>7. g.type = f.type /\ g.at = f.at /\ g.size = size /\ g.flags = f.flags /\ g.alive = f.alive
    BY <2>6
  <2>8. size \in Nat /\ end = f.at + 8 + size
    BY <1>1, <1>2, <2>4, <2>5
  <2>9. FrameCounts(g, end)
    BY <2>4, <2>6, <2>7, <2>8 DEF FrameCounts
  <2> QED
    BY <2>1, <2>2, <2>7, <2>9
<1>17. m = BuilderRecord(m.data, m.size, m.offset, m.flags, m.frames, m.sound)
  BY <1>5, <1>6, <1>11, <1>12, Zenon
<1>18. NativeIsSound(m)
  <2>1. m.data \in Seq(B!Byte) /\ m.size = Len(m.data) /\ m.offset \in Nat /\ m.offset <= m.size
    BY <1>3, <1>5, <1>6, <1>12, <1>14
  <2>2. Listed(m.frames) /\ \A i \in DOMAIN m.frames : FrameCounts(m.frames[i], m.offset)
    BY <1>12, <1>15, <1>16
  <2> QED
    BY <1>12, <1>17, <2>1, <2>2, Zenon DEF NativeIsSound
<1>19. SameFrames(n, m)
  BY <1>5, <1>12, <1>15, <1>16 DEF SameFrames
<1> QED
  BY <1>1, <1>9, <1>12, <1>18, <1>19, Zenon

LEMMA PadIs ==
  ASSUME NEW n, NativeIsSound(n), NEW size \in Nat
  PROVE  NativeIsSound(B!Pad(n, size)) /\ SameFrames(n, B!Pad(n, size)) /\ B!Pad(n, size).flags = n.flags
<1>1. B!Padding(size) \in Nat
  BY ONLY size \in Nat DEF B!Padding
<1>2. B!Zeroes(B!Padding(size)) \in Seq(B!Byte)
  BY <1>1, ZeroBytes
<1> QED
  BY <1>2, RawIs, Zenon DEF B!Pad

LEMMA RawPaddedIs ==
  ASSUME NEW n, NativeIsSound(n), NEW bytes \in Seq(B!Byte)
  PROVE  NativeIsSound(B!RawPadded(n, bytes)) /\ SameFrames(n, B!RawPadded(n, bytes))
<1> PICK m : m = B!Raw(n, bytes)
  OBVIOUS
<1>1. NativeIsSound(m) /\ SameFrames(n, m)
  BY RawIs
<1>2. Len(bytes) \in Nat
  BY ListedLength
<1>3. NativeIsSound(B!Pad(m, Len(bytes))) /\ SameFrames(m, B!Pad(m, Len(bytes)))
  BY <1>1, <1>2, PadIs
<1>4. B!RawPadded(n, bytes) = B!Pad(m, Len(bytes))
  BY DEF B!RawPadded
<1> QED
  BY <1>1, <1>3, <1>4, SameIsTransitive

(* Flags are set on a builder that is as it was otherwise. *)
LEMMA FlagsAreSet ==
  ASSUME NEW n, NativeIsSound(n), NEW flags
  PROVE  NativeIsSound([n EXCEPT !.flags = flags]) /\ SameFrames(n, [n EXCEPT !.flags = flags])
<1> PICK m : m = [n EXCEPT !.flags = flags]
  OBVIOUS
<1>1. n = BuilderRecord(n.data, n.size, n.offset, n.flags, n.frames, n.sound)
  BY DEF NativeIsSound
<1>2. m = BuilderRecord(n.data, n.size, n.offset, flags, n.frames, n.sound)
  BY <1>1 DEF BuilderRecord
<1>3. /\ m.data = n.data /\ m.size = n.size /\ m.offset = n.offset /\ m.flags = flags
      /\ m.frames = n.frames /\ m.sound = n.sound
  BY <1>2 DEF BuilderRecord
<1>4. m = BuilderRecord(m.data, m.size, m.offset, m.flags, m.frames, m.sound)
  BY <1>2, <1>3, Zenon
<1>5. NativeIsSound(m)
  BY <1>3, <1>4, Zenon DEF NativeIsSound
<1>6. SameFrames(n, m)
  BY <1>3, Zenon DEF SameFrames
<1> QED
  BY <1>5, <1>6

LEMMA PrimitiveIs ==
  ASSUME NEW n, NativeIsSound(n), NEW t \in Nat, NEW body \in Seq(B!Byte)
  PROVE  NativeIsSound(B!Primitive(n, t, body)) /\ SameFrames(n, B!Primitive(n, t, body))
<1>1. B!Header(Len(body), t) \o body \in Seq(B!Byte)
  BY HeaderBytes, BytesConcat
<1>2. CASE n.flags = "body"
  <2>1. B!Primitive(n, t, body) = B!Raw(n, body)
    BY <1>2 DEF B!Primitive
  <2> QED
    BY <2>1, RawIs
<1>3. CASE n.flags = "first"
  <2> PICK m : m = B!Raw(n, B!Header(Len(body), t) \o body)
    OBVIOUS
  <2>1. NativeIsSound(m) /\ SameFrames(n, m)
    BY <1>1, RawIs
  <2>2. B!Primitive(n, t, body) = [m EXCEPT !.flags = "body"]
    BY <1>3 DEF B!Primitive
  <2> PICK q : q = [m EXCEPT !.flags = "body"]
    OBVIOUS
  <2>3. NativeIsSound(q) /\ SameFrames(m, q)
    BY <2>1, FlagsAreSet, Zenon
  <2>4. SameFrames(n, q)
    BY ONLY <2>1, <2>3, SameIsTransitive
  <2> QED
    BY <2>2, <2>3, <2>4, Zenon
<1>4. CASE n.flags # "body" /\ n.flags # "first"
  <2>1. B!Primitive(n, t, body) = B!RawPadded(n, B!Header(Len(body), t) \o body)
    BY <1>4 DEF B!Primitive
  <2> QED
    BY <1>1, <2>1, RawPaddedIs
<1> QED
  BY <1>2, <1>3, <1>4

(* A sequence behind one element, and what is left of one without its first. *)
LEMMA ListedInFront ==
  ASSUME NEW e, NEW s, Listed(s)
  PROVE  /\ Listed(<<e>> \o s) /\ Len(<<e>> \o s) = Len(s) + 1 /\ (<<e>> \o s)[1] = e
         /\ \A i \in 1 .. Len(s) : (<<e>> \o s)[i + 1] = s[i]
<1>1. PICK S : s \in Seq(S)
  BY DEF Listed
<1>2. <<e>> \in Seq(S \cup {e}) /\ s \in Seq(S \cup {e}) /\ Len(<<e>>) = 1 /\ <<e>>[1] = e
  BY <1>1
<1>3. Len(s) \in Nat
  BY <1>1
<1>4. /\ <<e>> \o s \in Seq(S \cup {e}) /\ Len(<<e>> \o s) = Len(s) + 1 /\ (<<e>> \o s)[1] = e
      /\ \A i \in 1 .. Len(s) : (<<e>> \o s)[i + 1] = s[i]
  BY ONLY <1>2, <1>3
<1> QED
  BY <1>4 DEF Listed

LEMMA ListedTail ==
  ASSUME NEW s, Listed(s), s # <<>>
  PROVE  /\ Listed(Tail(s)) /\ Len(s) \in Nat \ {0} /\ Len(Tail(s)) = Len(s) - 1
         /\ \A i \in 1 .. Len(s) - 1 : Tail(s)[i] = s[i + 1]
<1>1. PICK S : s \in Seq(S)
  BY DEF Listed
<1>2. /\ Tail(s) \in Seq(S) /\ Len(s) \in Nat \ {0} /\ Len(Tail(s)) = Len(s) - 1
      /\ \A i \in 1 .. Len(s) - 1 : Tail(s)[i] = s[i + 1]
  BY ONLY <1>1, s # <<>>
<1> QED
  BY <1>2 DEF Listed

(* A frame more, lent by whoever pushed a pod of type t. *)
Linked(n, t, m) ==
  /\ NativeIsSound(m) /\ Len(m.frames) = Len(n.frames) + 1
  /\ m.frames[1].type = t /\ m.frames[1].alive = TRUE
  /\ \A i \in DOMAIN n.frames : /\ m.frames[i + 1].type = n.frames[i].type
                                /\ m.frames[i + 1].alive = n.frames[i].alive

LEMMA PushIs ==
  ASSUME NEW n, NativeIsSound(n), NEW t \in Nat, NEW rest \in Seq(B!Byte)
  PROVE  Linked(n, t, B!Push(n, t, Len(rest), rest))
<1> PICK m : m = B!Push(n, t, Len(rest), rest)
  OBVIOUS
<1>1. PICK r : r = B!Raw(n, B!Header(Len(rest), t) \o rest)
  OBVIOUS
<1>2. /\ B!Header(Len(rest), t) \o rest \in Seq(B!Byte) /\ Len(rest) \in Nat /\ n.offset \in Nat
      /\ Len(B!Header(Len(rest), t) \o rest) = 8 + Len(rest)
  <2>1. B!Header(Len(rest), t) \in Seq(B!Byte) /\ Len(B!Header(Len(rest), t)) = 8
    BY HeaderBytes
  <2>2. /\ B!Header(Len(rest), t) \o rest \in Seq(B!Byte)
        /\ Len(B!Header(Len(rest), t) \o rest) = Len(B!Header(Len(rest), t)) + Len(rest)
    BY ONLY <2>1, rest \in Seq(B!Byte), BytesConcat
  <2> QED
    BY <2>1, <2>2, ListedLength DEF NativeIsSound
<1>3. /\ NativeIsSound(r) /\ SameFrames(n, r)
      /\ r.offset = n.offset + Len(B!Header(Len(rest), t) \o rest)
  BY <1>1, <1>2, RawIs
<1>4. r.offset = n.offset + 8 + Len(rest)
  BY ONLY <1>2, <1>3
<1>5. PICK f : f = [type |-> t, at |-> n.offset, size |-> Len(rest), flags |-> n.flags, alive |-> TRUE]
  OBVIOUS
<1>6. PICK flags : flags = IF t \in {B!SPA_TYPE_Array, B!SPA_TYPE_Choice} THEN "first" ELSE n.flags
  OBVIOUS
<1>7. PICK links : links = <<f>> \o r.frames
  OBVIOUS
<1>8. m = [r EXCEPT !.frames = links, !.flags = flags]
  BY <1>1, <1>5, <1>6, <1>7, Zenon DEF B!Push
<1>9. /\ r = BuilderRecord(r.data, r.size, r.offset, r.flags, r.frames, r.sound)
      /\ r.data \in Seq(B!Byte) /\ r.size = Len(r.data) /\ r.offset \in Nat /\ r.offset <= r.size
      /\ r.sound = TRUE /\ Listed(r.frames)
      /\ \A i \in DOMAIN r.frames : FrameCounts(r.frames[i], r.offset)
  BY <1>3 DEF NativeIsSound
<1>10. m = BuilderRecord(r.data, r.size, r.offset, flags, links, r.sound)
  BY <1>8, <1>9 DEF BuilderRecord
<1>11. /\ m.data = r.data /\ m.size = r.size /\ m.offset = r.offset /\ m.flags = flags
       /\ m.frames = links /\ m.sound = r.sound
  BY <1>10 DEF BuilderRecord
<1>12. /\ Listed(links) /\ Len(links) = Len(r.frames) + 1 /\ links[1] = f
       /\ \A i \in 1 .. Len(r.frames) : links[i + 1] = r.frames[i]
  BY <1>7, <1>9, ListedInFront
<1>13. /\ DOMAIN links = 1 .. Len(links) /\ DOMAIN r.frames = 1 .. Len(r.frames)
       /\ Len(r.frames) \in Nat
  BY <1>9, <1>12, ListedLength
<1>14. FrameCounts(f, r.offset) /\ f.type = t /\ f.alive = TRUE
  BY <1>2, <1>4, <1>5 DEF FrameCounts
<1>15. ASSUME NEW i \in DOMAIN links
       PROVE  FrameCounts(links[i], r.offset)
  <2>1. CASE i = 1
    BY <1>12, <1>14, <2>1
  <2>2. CASE i # 1
    <3>1. PICK j : j = i - 1
      OBVIOUS
    <3>2. j \in 1 .. Len(r.frames) /\ i = j + 1
      BY <1>12, <1>13, <2>2, <3>1
    <3> QED
      BY <1>9, <1>12, <1>13, <3>2
  <2> QED
    BY <2>1, <2>2
<1>16. m = BuilderRecord(m.data, m.size, m.offset, m.flags, m.frames, m.sound)
  BY <1>10, <1>11, Zenon
<1>17. NativeIsSound(m)
  BY <1>9, <1>11, <1>12, <1>15, <1>16, Zenon DEF NativeIsSound
<1>18. Len(r.frames) = Len(n.frames) /\ DOMAIN r.frames = DOMAIN n.frames
       /\ \A i \in DOMAIN n.frames : /\ r.frames[i].type = n.frames[i].type
                                    /\ r.frames[i].alive = n.frames[i].alive
  BY <1>3 DEF SameFrames
<1>19. Linked(n, t, m)
  BY <1>11, <1>12, <1>13, <1>14, <1>17, <1>18 DEF Linked
<1> QED
  BY <1>19

(* The frame last lent is no longer linked. *)
Unlinked(n, m) ==
  /\ NativeIsSound(m) /\ Len(m.frames) = Len(n.frames) - 1
  /\ \A i \in 1 .. Len(n.frames) - 1 : /\ m.frames[i].type = n.frames[i + 1].type
                                       /\ m.frames[i].alive = n.frames[i + 1].alive

LEMMA PopIs ==
  ASSUME NEW n, NativeIsSound(n), n.frames # <<>>
  PROVE  Unlinked(n, B!Pop(n))
<1>1. PICK r : r = IF n.flags = "first" THEN B!Raw(n, B!Header(0, B!SPA_TYPE_None)) ELSE n
  OBVIOUS
<1>2. NativeIsSound(r) /\ SameFrames(n, r)
  <2>1. CASE n.flags = "first"
    <3>1. B!Header(0, B!SPA_TYPE_None) \in Seq(B!Byte)
      BY TypesAreNumbers, HeaderBytes
    <3> QED
      BY <1>1, <2>1, <3>1, RawIs
  <2>2. CASE n.flags # "first"
    BY <1>1, <2>2 DEF SameFrames
  <2> QED
    BY <2>1, <2>2
<1>3. /\ r = BuilderRecord(r.data, r.size, r.offset, r.flags, r.frames, r.sound)
      /\ r.data \in Seq(B!Byte) /\ r.size = Len(r.data) /\ r.offset \in Nat /\ r.offset <= r.size
      /\ r.sound = TRUE /\ Listed(r.frames)
      /\ \A i \in DOMAIN r.frames : FrameCounts(r.frames[i], r.offset)
  BY <1>2 DEF NativeIsSound
<1>4. Len(r.frames) = Len(n.frames) /\ DOMAIN r.frames = DOMAIN n.frames
      /\ \A i \in DOMAIN n.frames : /\ r.frames[i].type = n.frames[i].type
                                    /\ r.frames[i].alive = n.frames[i].alive
  BY <1>2 DEF SameFrames
<1>5. Listed(n.frames) /\ DOMAIN n.frames = 1 .. Len(n.frames) /\ Len(n.frames) \in Nat \ {0}
  BY ListedTail, ListedLength DEF NativeIsSound
<1>6. r.frames # <<>>
  BY <1>4, <1>5
<1>7. PICK f : f = r.frames[1]
  OBVIOUS
<1>8. PICK header : header = B!Header(f.size, f.type)
  OBVIOUS
<1>9. PICK data : data = IF f.at + 8 + f.size > r.size THEN r.data
                         ELSE [i \in DOMAIN r.data |-> IF i \in f.at + 1 .. f.at + 8
                                                       THEN header[i - f.at] ELSE r.data[i]]
  OBVIOUS
<1>10. DOMAIN r.data = 1 .. Len(r.data) /\ Len(r.data) \in Nat
  BY <1>3, ListedLength
<1>11. data \in Seq(B!Byte) /\ Len(data) = Len(r.data)
  <2>1. CASE f.at + 8 + f.size > r.size
    BY <1>3, <1>9, <2>1
  <2>2. CASE ~(f.at + 8 + f.size > r.size)
    <3>1. FrameCounts(f, r.offset)
      <4>1. 1 \in DOMAIN r.frames
        BY <1>4, <1>5
      <4> QED
        BY <1>3, <1>7, <4>1
    <3>2. header \in Seq(B!Byte) /\ Len(header) = 8 /\ f.at \in Nat
      BY <1>8, <3>1, HeaderBytes DEF FrameCounts
    <3>3. f.at + 8 = f.at + Len(header)
      BY <3>2
    <3>4. data = [i \in DOMAIN r.data |-> IF i \in f.at + 1 .. f.at + 8
                                         THEN header[i - f.at] ELSE r.data[i]]
      BY <1>9, <2>2
    <3>5. data = [i \in 1 .. Len(r.data) |-> data[i]]
      BY <1>10, <3>4
    <3>6. Listed(data) /\ Len(data) = Len(r.data)
      BY <1>10, <3>5, ListedFunction
    <3>7. \A i \in 1 .. Len(r.data) :
            data[i] = IF i \in f.at + 1 .. f.at + 8 THEN header[i - f.at] ELSE r.data[i]
      BY <1>10, <3>4
    <3>8. Patched(r.data, header, f.at, f.at + 8, data)
      BY <3>6, <3>7, Zenon DEF Patched
    <3>9. data \in Seq(B!Byte)
      BY ONLY <1>3, <3>2, <3>3, <3>8, WrittenOver
    <3> QED
      BY <3>6, <3>9
  <2> QED
    BY <2>1, <2>2
<1>12. PICK links : links = Tail(r.frames)
  OBVIOUS
<1>13. /\ Listed(links) /\ Len(r.frames) \in Nat \ {0} /\ Len(links) = Len(r.frames) - 1
       /\ \A i \in 1 .. Len(r.frames) - 1 : links[i] = r.frames[i + 1]
  BY <1>3, <1>6, <1>12, ListedTail
<1>14. PICK m : m = [r EXCEPT !.data = data, !.frames = links, !.flags = f.flags]
  OBVIOUS
<1>15. B!Pop(n) = B!Pad(m, r.offset)
  BY <1>1, <1>7, <1>8, <1>9, <1>12, <1>14, Zenon DEF B!Pop
<1>16. m = BuilderRecord(data, r.size, r.offset, f.flags, links, r.sound)
  BY <1>3, <1>14 DEF BuilderRecord
<1>17. /\ m.data = data /\ m.size = r.size /\ m.offset = r.offset /\ m.flags = f.flags
       /\ m.frames = links /\ m.sound = r.sound
  BY <1>16 DEF BuilderRecord
<1>18. m = BuilderRecord(m.data, m.size, m.offset, m.flags, m.frames, m.sound)
  BY <1>16, <1>17, Zenon
<1>19. \A i \in DOMAIN links : FrameCounts(links[i], r.offset)
  <2>1. DOMAIN links = 1 .. Len(links) /\ DOMAIN r.frames = 1 .. Len(r.frames)
    BY <1>3, <1>13, ListedLength
  <2> SUFFICES ASSUME NEW i \in DOMAIN links
               PROVE  FrameCounts(links[i], r.offset)
    OBVIOUS
  <2>2. i \in 1 .. Len(r.frames) - 1 /\ i + 1 \in DOMAIN r.frames
    BY <1>13, <2>1
  <2> QED
    BY <1>3, <1>13, <2>2
<1>20. NativeIsSound(m)
  <2>1. m.data \in Seq(B!Byte) /\ m.size = Len(m.data) /\ m.offset \in Nat /\ m.offset <= m.size /\ m.sound = TRUE
    BY <1>3, <1>11, <1>17
  <2>2. Listed(m.frames) /\ \A i \in DOMAIN m.frames : FrameCounts(m.frames[i], m.offset)
    BY <1>13, <1>17, <1>19
  <2> QED
    BY <1>18, <2>1, <2>2, Zenon DEF NativeIsSound
<1>21. PICK p : p = B!Pad(m, r.offset)
  OBVIOUS
<1>22. NativeIsSound(p) /\ SameFrames(m, p)
  BY <1>3, <1>20, <1>21, PadIs
<1>23. Len(p.frames) = Len(links) /\ DOMAIN p.frames = DOMAIN links
       /\ \A i \in DOMAIN links : p.frames[i].type = links[i].type /\ p.frames[i].alive = links[i].alive
  BY <1>17, <1>22 DEF SameFrames
<1>24. Unlinked(n, p)
  <2>1. DOMAIN links = 1 .. Len(n.frames) - 1 /\ Len(p.frames) = Len(n.frames) - 1
    BY <1>4, <1>13, <1>23, ListedLength
  <2>2. ASSUME NEW i \in 1 .. Len(n.frames) - 1
        PROVE  p.frames[i].type = n.frames[i + 1].type /\ p.frames[i].alive = n.frames[i + 1].alive
    <3>1. i + 1 \in DOMAIN n.frames /\ i \in DOMAIN links
      BY <1>5, <2>1
    <3>2. links[i] = r.frames[i + 1]
      BY <1>4, <1>13
    <3> QED
      BY <1>4, <1>23, <3>1, <3>2
  <2> QED
    BY <1>22, <2>1, <2>2, Zenon DEF Unlinked
<1> QED
  BY <1>15, <1>21, <1>24, Zenon

-----------------------------------------------------------------------------
(* The builder links one frame for each container under construction.      *)

Entry(o) ==
  /\ o = [t |-> o.t, type |-> o.type, child |-> o.child, pending |-> o.pending]
  /\ o.t \in Nat
  /\ o.t \in {B!SPA_TYPE_Array, B!SPA_TYPE_Choice} => o.child \in DOMAIN Child

Matched(n, o) ==
  /\ Listed(o) /\ Listed(n.frames) /\ Len(n.frames) = Len(o)
  /\ \A i \in 1 .. Len(o) : /\ Entry(o[i]) /\ n.frames[i].type = o[i].t
                            /\ n.frames[i].alive = TRUE

LEMMA SameMatched ==
  ASSUME NEW n, NEW m, NEW o, Matched(n, o), NativeIsSound(m), SameFrames(n, m)
  PROVE  Matched(m, o)
<1>1. DOMAIN n.frames = 1 .. Len(o) /\ Len(m.frames) = Len(o)
  BY ListedLength DEF Matched, SameFrames
<1> QED
  BY <1>1 DEF Matched, SameFrames, NativeIsSound

(* The innermost container is another one of its type. *)
LEMMA RenewedMatched ==
  ASSUME NEW n, NEW o, Matched(n, o), o # <<>>, NEW e, Entry(e), e.t = o[1].t,
         NEW r, Listed(r), Len(r) = Len(o), r[1] = e,
         \A i \in 2 .. Len(o) : r[i] = o[i]
  PROVE  Matched(n, r)
<1>1. Len(o) \in Nat
  BY ListedLength DEF Matched
<1>2. ASSUME NEW i \in 1 .. Len(r)
      PROVE  Entry(r[i]) /\ n.frames[i].type = r[i].t /\ n.frames[i].alive = TRUE
  <2>1. CASE i = 1
    BY <2>1 DEF Matched
  <2>2. CASE i # 1
    BY <1>1, <2>2 DEF Matched
  <2> QED
    BY <2>1, <2>2
<1> QED
  BY <1>2 DEF Matched

LEMMA PushedMatched ==
  ASSUME NEW n, NEW o, Matched(n, o), NEW e, Entry(e), NEW m,
         Linked(n, e.t, m)
  PROVE  Matched(m, <<e>> \o o)
<1> PICK r : r = <<e>> \o o
  OBVIOUS
<1>1. Listed(o) /\ Len(o) \in Nat /\ DOMAIN n.frames = 1 .. Len(o) /\ Len(m.frames) = Len(o) + 1
  BY ListedLength DEF Matched, Linked
<1>2. /\ Listed(r) /\ Len(r) = Len(o) + 1 /\ r[1] = e
      /\ \A i \in 1 .. Len(o) : r[i + 1] = o[i]
  BY <1>1, ListedInFront
<1>3. ASSUME NEW i \in 1 .. Len(r)
      PROVE  Entry(r[i]) /\ m.frames[i].type = r[i].t /\ m.frames[i].alive = TRUE
  <2>1. CASE i = 1
    BY <1>2, <2>1 DEF Linked
  <2>2. CASE i # 1
    <3>1. PICK j : j = i - 1
      OBVIOUS
    <3>2. j \in 1 .. Len(o) /\ i = j + 1
      BY <1>1, <1>2, <2>2, <3>1
    <3>3. Entry(o[j]) /\ n.frames[j].type = o[j].t /\ n.frames[j].alive = TRUE
      BY <3>2 DEF Matched
    <3> QED
      BY <1>1, <1>2, <3>2, <3>3 DEF Linked
  <2> QED
    BY <2>1, <2>2
<1> QED
  BY <1>1, <1>2, <1>3 DEF Matched, Linked, NativeIsSound

LEMMA PoppedMatched ==
  ASSUME NEW n, NEW o, Matched(n, o), o # <<>>, NEW m, Unlinked(n, m)
  PROVE  Matched(m, Tail(o))
<1> PICK r : r = Tail(o)
  OBVIOUS
<1>1. /\ Listed(r) /\ Len(o) \in Nat \ {0} /\ Len(r) = Len(o) - 1
      /\ \A i \in 1 .. Len(o) - 1 : r[i] = o[i + 1]
  BY ListedTail DEF Matched
<1>2. ASSUME NEW i \in 1 .. Len(r)
      PROVE  Entry(r[i]) /\ m.frames[i].type = r[i].t /\ m.frames[i].alive = TRUE
  <2>1. i \in 1 .. Len(o) - 1 /\ i + 1 \in 1 .. Len(o) /\ Len(n.frames) = Len(o)
    BY <1>1 DEF Matched
  <2>2. Entry(o[i + 1]) /\ n.frames[i + 1].type = o[i + 1].t /\ n.frames[i + 1].alive = TRUE
    BY <2>1 DEF Matched
  <2> QED
    BY <1>1, <2>1, <2>2 DEF Unlinked
<1> QED
  BY <1>1, <1>2 DEF Matched, Unlinked, NativeIsSound

AllGone ==
  /\ native.frames # <<>> /\ frames = <<>>
  /\ \A i \in DOMAIN native.frames : native.frames[i].alive = FALSE

BuilderIsSound ==
  /\ NativeIsSound(native)
  /\ Matched(native, frames) \/ (state # "done" /\ AllGone)

(* What a step of the builder does: it goes on as it should, it leaves     *)
(* what is under construction, or it is called after it did.               *)
BuilderGoesOn ==
  /\ NativeIsSound(native)'
  /\ Matched(native, frames)'
  /\ state' \in {state, "done"}

BuilderGoes == BuilderGoesOn \/ (B!Usable /\ B!Leaves) \/ B!CallAfterLeaving

LEMMA Completed ==
  ASSUME NativeIsSound(native'), NEW o, Matched(native', o), NEW h, NEW v, B!Complete(o, h, v)
  PROVE  BuilderGoes
<1>1. Matched(native', frames')
  <2>1. CASE o = <<>>
    <3>1. frames' = o
      BY <2>1 DEF B!Complete
    <3> QED
      BY <3>1
  <2>2. CASE o # <<>>
    <3> PICK e : e = [o[1] EXCEPT !.pending = <<>>]
      OBVIOUS
    <3> PICK r : r = <<e>> \o Tail(o)
      OBVIOUS
    <3>1. frames' = r
      BY <2>2, Zenon DEF B!Complete
    <3>2. /\ Listed(Tail(o)) /\ Len(o) \in Nat \ {0} /\ Len(Tail(o)) = Len(o) - 1
          /\ \A i \in 1 .. Len(o) - 1 : Tail(o)[i] = o[i + 1]
      BY <2>2, ListedTail DEF Matched
    <3>3. /\ Listed(r) /\ Len(r) = Len(Tail(o)) + 1 /\ r[1] = e
          /\ \A i \in 1 .. Len(Tail(o)) : r[i + 1] = Tail(o)[i]
      BY <3>2, ListedInFront
    <3>4. Len(r) = Len(o) /\ \A i \in 2 .. Len(o) : r[i] = o[i]
      <4>1. Len(r) = Len(o)
        BY ONLY <3>2, <3>3
      <4>2. ASSUME NEW i \in 2 .. Len(o)
            PROVE  r[i] = o[i]
        <5>1. PICK j : j = i - 1
          OBVIOUS
        <5>2. j \in 1 .. Len(o) - 1 /\ i = j + 1
          BY <3>2, <5>1
        <5> QED
          BY <3>2, <3>3, <5>2
      <4> QED
        BY <4>1, <4>2
    <3>5. Entry(o[1])
      BY <3>2 DEF Matched
    <3>6. Entry(e) /\ e.t = o[1].t
      BY <3>5 DEF Entry
    <3> QED
      BY <2>2, <3>1, <3>3, <3>4, <3>6, RenewedMatched
  <2> QED
    BY <2>1, <2>2
<1>2. state' \in {state, "done"}
  BY Zenon DEF B!Complete
<1> QED
  BY <1>1, <1>2 DEF BuilderGoes, BuilderGoesOn

(* The bytes of a value that is written by one call. *)
LEMMA BodyBytes ==
  ASSUME NEW v \in BuiltLeaf, v.t # B!SPA_TYPE_Choice
  PROVE  v.b \in Seq(B!Byte)
<1>1. B!WholeValue(v)
  BY RoundTripAssumption DEF B!BuilderAssumption
<1>2. CASE \E n \in Nat : v.b \in [1 .. n -> B!Byte]
  BY <1>2, FunctionLength
<1>3. B!SIZE(v.t) \in Nat
  BY DEF B!SIZE
<1> QED
  BY <1>1, <1>2, <1>3 DEF B!WholeValue

(* A value that one call writes. *)
LEMMA OneCall ==
  ASSUME NativeIsSound(native), Matched(native, frames), NativeIsSound(native'),
         SameFrames(native, native'), NEW v, B!Complete(frames, parts, v)
  PROVE  BuilderGoes
<1>1. Matched(native', frames)
  BY SameMatched
<1> QED
  BY <1>1, Completed

(* A frame is lent for a container, and the header written. *)
LEMMA OnePush ==
  ASSUME NativeIsSound(native), Matched(native, frames), NEW t \in Nat, NEW type, NEW child,
         t \in {B!SPA_TYPE_Array, B!SPA_TYPE_Choice} => child \in DOMAIN Child,
         NEW rest \in Seq(B!Byte), native' = B!Push(native, t, Len(rest), rest),
         B!Open(t, type, child)
  PROVE  BuilderGoes
<1>1. PICK e : e = [t |-> t, type |-> type, child |-> child, pending |-> <<>>]
  OBVIOUS
<1>2. Entry(e) /\ e.t = t
  BY <1>1 DEF Entry
<1>3. frames' = <<e>> \o frames
  BY <1>1, Zenon DEF B!Open
<1>4. Linked(native, e.t, native')
  BY <1>2, PushIs, Zenon
<1>5. Matched(native', <<e>> \o frames)
  BY <1>2, <1>4, PushedMatched
<1>6. state' = state
  BY Zenon DEF B!Open
<1> QED
  BY <1>3, <1>4, <1>5, <1>6, Zenon DEF BuilderGoes, BuilderGoesOn, Linked

LEMMA KeyWords ==
  ASSUME NEW k \in BuiltKey
  PROVE  k[1] \in Nat /\ k[2] \in Nat
BY RoundTripAssumption DEF B!BuilderAssumption

(* A key is announced. *)
LEMMA OneKey ==
  ASSUME NativeIsSound(native), Matched(native, frames), frames # <<>>, NEW k \in BuiltKey,
         native' = B!Raw(native, B!U32(k[1]) \o B!U32(k[2])),
         frames' = [frames EXCEPT ![1].pending = <<k>>], state' = state
  PROVE  BuilderGoes
<1>1. B!U32(k[1]) \o B!U32(k[2]) \in Seq(B!Byte)
  BY KeyWords, TwoWords
<1>2. NativeIsSound(native') /\ SameFrames(native, native')
  BY <1>1, RawIs, Zenon
<1>3. Matched(native', frames)
  BY <1>2, SameMatched
<1>4. PICK r : r = frames'
  OBVIOUS
<1>5. PICK e : e = [frames[1] EXCEPT !.pending = <<k>>]
  OBVIOUS
<1>6. Listed(frames) /\ Len(frames) \in Nat \ {0} /\ DOMAIN frames = 1 .. Len(frames)
  BY ListedTail, ListedLength DEF Matched
<1>7. r = [frames EXCEPT ![1] = e]
  BY <1>4, <1>5
<1>8. DOMAIN r = 1 .. Len(frames) /\ r[1] = e /\ \A i \in 2 .. Len(frames) : r[i] = frames[i]
  BY <1>6, <1>7
<1>9. Listed(r) /\ Len(r) = Len(frames)
  <2>1. r = [i \in 1 .. Len(frames) |-> r[i]]
    BY <1>6, <1>7
  <2> QED
    BY <1>6, <2>1, ListedFunction
<1>10. Entry(frames[1])
  BY <1>6 DEF Matched
<1>11. Entry(e) /\ e.t = frames[1].t
  BY <1>5, <1>10 DEF Entry
<1>12. Matched(native', r)
  BY <1>3, <1>8, <1>9, <1>11, RenewedMatched
<1> QED
  BY <1>2, <1>4, <1>12, Zenon DEF BuilderGoes, BuilderGoesOn

(* The stack is left: every frame is gone. *)
LEMMA OneLeaves ==
  ASSUME NativeIsSound(native), B!Leaves
  PROVE  /\ NativeIsSound(native)' /\ frames' = <<>> /\ state' = state
         /\ native'.frames = <<>> \/ AllGone'
         /\ native.frames = <<>> => native'.frames = <<>>
<1>1. PICK links : links = [i \in DOMAIN native.frames |-> [native.frames[i] EXCEPT !.alive = FALSE]]
  OBVIOUS
<1>2. PICK m : m = [native EXCEPT !.frames = links]
  OBVIOUS
<1>3. native' = m /\ state' = state /\ frames' = <<>>
  BY <1>1, <1>2, Zenon DEF B!Leaves
<1>4. /\ native = BuilderRecord(native.data, native.size, native.offset, native.flags, native.frames, native.sound)
      /\ native.data \in Seq(B!Byte) /\ native.size = Len(native.data) /\ native.offset \in Nat
      /\ native.offset <= native.size /\ native.sound = TRUE /\ Listed(native.frames)
      /\ \A i \in DOMAIN native.frames : FrameCounts(native.frames[i], native.offset)
  BY DEF NativeIsSound
<1>5. m = BuilderRecord(native.data, native.size, native.offset, native.flags, links, native.sound)
  BY <1>2, <1>4 DEF BuilderRecord
<1>6. /\ m.data = native.data /\ m.size = native.size /\ m.offset = native.offset
      /\ m.flags = native.flags /\ m.frames = links /\ m.sound = native.sound
  BY <1>5 DEF BuilderRecord
<1>7. m = BuilderRecord(m.data, m.size, m.offset, m.flags, m.frames, m.sound)
  BY <1>5, <1>6, Zenon
<1>8. DOMAIN native.frames = 1 .. Len(native.frames) /\ Len(native.frames) \in Nat
  BY <1>4, ListedLength
<1>9. Listed(links)
  <2>1. links = [i \in 1 .. Len(native.frames) |-> links[i]]
    BY <1>1, <1>8
  <2> QED
    BY <1>8, <2>1, ListedFunction
<1>10. ASSUME NEW i \in DOMAIN links
       PROVE  FrameCounts(links[i], native.offset)
  <2>1. PICK f : f = native.frames[i]
    OBVIOUS
  <2>2. FrameCounts(f, native.offset)
    BY <1>1, <1>4, <2>1
  <2>3. PICK g : g = [f EXCEPT !.alive = FALSE]
    OBVIOUS
  <2>4. links[i] = g
    BY <1>1, <2>1, <2>3
  <2>5. f = [type |-> f.type, at |-> f.at, size |-> f.size, flags |-> f.flags, alive |-> f.alive]
    BY <2>2 DEF FrameCounts
  <2>6. g = [type |-> f.type, at |-> f.at, size |-> f.size, flags |-> f.flags, alive |-> FALSE]
    BY ONLY <2>3, <2>5
  <2>7. g.type = f.type /\ g.at = f.at /\ g.size = f.size /\ g.flags = f.flags /\ g.alive = FALSE
    BY ONLY <2>6
  <2> QED
    BY <2>2, <2>4, <2>6, <2>7, Zenon DEF FrameCounts
<1>11. NativeIsSound(m)
  BY <1>4, <1>6, <1>7, <1>9, <1>10, Zenon DEF NativeIsSound
<1>12. links # <<>> => AllGone'
  BY <1>1, <1>3, <1>6 DEF AllGone
<1>13. native.frames = <<>> => links = <<>>
  BY <1>1
<1> QED
  BY <1>3, <1>6, <1>11, <1>12, <1>13

(* Nothing is linked when nothing is under construction. *)
LEMMA NothingMatched ==
  ASSUME NEW n, NativeIsSound(n)
  PROVE  /\ n.frames = <<>> => Matched(n, <<>>)
         /\ Matched(n, <<>>) => n.frames = <<>>
<1>1. Listed(<<>>) /\ Len(<<>>) = 0
  <2>1. <<>> \in Seq({0})
    OBVIOUS
  <2> QED
    BY <2>1 DEF Listed
<1>2. n.frames = <<>> => Matched(n, <<>>)
  BY <1>1 DEF Matched
<1>3. ASSUME Matched(n, <<>>) PROVE n.frames = <<>>
  <2>1. Listed(n.frames) /\ Len(n.frames) = 0
    BY <1>1, <1>3 DEF Matched
  <2>2. n.frames # <<>> => Len(n.frames) \in Nat \ {0}
    BY <2>1, ListedTail
  <2> QED BY <2>1, <2>2
<1> QED BY <1>2, <1>3

LEMMA ElementSizes ==
  ASSUME NEW t \in DOMAIN Child
  PROVE  /\ B!SIZE(t) \in {4, 8} /\ t \in Nat
         /\ \A b \in Child[t] : b \in [1 .. B!SIZE(t) -> B!Byte]
<1>1. t \in B!FixedSized \ B!Empty /\ Child[t] \subseteq [1 .. B!SIZE(t) -> B!Byte]
  BY RoundTripAssumption DEF B!BuilderAssumption
<1>2. B!SIZE(t) \in {4, 8}
  BY <1>1 DEF B!SIZE, B!FixedSized
<1> QED
  BY <1>1, <1>2, TypesAreNumbers

LEMMA JoinedBytes ==
  ASSUME NEW size \in {4, 8}, NEW vals \in Seq([1 .. size -> B!Byte])
  PROVE  B!Joined(vals, size) \in Seq(B!Byte)
<1>1. Len(vals) \in Nat /\ Len(vals) * size \in Nat
  BY SMT
<1>2. ASSUME NEW i \in 1 .. Len(vals) * size
      PROVE  /\ ((i - 1) \div size) + 1 \in 1 .. Len(vals)
             /\ ((i - 1) % size) + 1 \in 1 .. size
  <2>1. CASE size = 4
    BY <1>1, <2>1, SMT
  <2>2. CASE size = 8
    BY <1>1, <2>2, SMT
  <2> QED
    BY <2>1, <2>2
<1>3. ASSUME NEW i \in 1 .. Len(vals) * size
      PROVE  vals[((i - 1) \div size) + 1][((i - 1) % size) + 1] \in B!Byte
  <2>1. vals[((i - 1) \div size) + 1] \in [1 .. size -> B!Byte]
    BY <1>2
  <2> QED
    BY <2>1, <1>2
<1>4. B!Joined(vals, size) \in [1 .. Len(vals) * size -> B!Byte]
  BY <1>3 DEF B!Joined
<1> QED
  BY <1>1, <1>4, FunctionLength

LEMMA BuilderCalls ==
  ASSUME BuilderIsSound, B!Next
  PROVE  BuilderGoes
<1>1. NativeIsSound(native) /\ (B!Usable => Matched(native, frames))
  <2>1. AllGone => B!LinksGone
    <3>1. native.frames # <<>> => 1 \in DOMAIN native.frames
      <4>1. Listed(native.frames)
        BY DEF BuilderIsSound, NativeIsSound
      <4>2. PICK l : l = native.frames
        OBVIOUS
      <4>3. l # <<>> => Len(l) \in Nat \ {0} /\ DOMAIN l = 1 .. Len(l)
        BY <4>1, <4>2, ListedTail, ListedLength
      <4> QED
        BY <4>2, <4>3
    <3> QED
      BY <3>1 DEF AllGone, B!LinksGone
  <2> QED
    BY <2>1 DEF BuilderIsSound, B!Usable
<1>2. ASSUME NEW v \in BuiltLeaf, B!AddScalar(v) \/ B!AddPair(v) \/ B!AddString(v) \/ B!AddBytes(v) \/ B!AddPointer(v)
      PROVE  BuilderGoes
  <2>1. Matched(native, frames)
    BY <1>1, <1>2 DEF B!AddScalar, B!AddPair, B!AddString, B!AddBytes, B!AddPointer, B!MayAdd
  <2>2. v.t # B!SPA_TYPE_Choice
    BY <1>2 DEF B!AddScalar, B!AddPair, B!AddString, B!AddBytes, B!AddPointer, B!Empty, B!Words,
                B!SPA_TYPE_None, B!SPA_TYPE_Bool, B!SPA_TYPE_Id, B!SPA_TYPE_Int, B!SPA_TYPE_Long,
                B!SPA_TYPE_Float, B!SPA_TYPE_Double, B!SPA_TYPE_String, B!SPA_TYPE_Bytes,
                B!SPA_TYPE_Rectangle, B!SPA_TYPE_Fraction, B!SPA_TYPE_Pointer, B!SPA_TYPE_Fd,
                B!SPA_TYPE_Choice
  <2>3. v.b \in Seq(B!Byte) /\ Len(v.b) \in Nat
    BY <2>2, BodyBytes
  <2>4. CASE B!AddScalar(v) \/ B!AddPair(v)
    <3>1. native' = B!Primitive(native, v.t, v.b) /\ B!Complete(frames, parts, v)
      BY <2>4, Zenon DEF B!AddScalar, B!AddPair
    <3>2. v.t \in Nat
      <4>1. v.t \in B!FixedSized
        BY <2>4 DEF B!AddScalar, B!AddPair, B!FixedSized, B!Doubles
      <4> QED
        BY <4>1, TypesAreNumbers
    <3>3. NativeIsSound(native') /\ SameFrames(native, native')
      BY <1>1, <2>3, <3>1, <3>2, PrimitiveIs, Zenon
    <3> QED
      BY <1>1, <2>1, <3>1, <3>3, OneCall
  <2>5. CASE B!AddString(v) /\ B!HasNul(v.b)
    <3>1. B!Leaves /\ B!Usable
      BY <2>5, Zenon DEF B!AddString, B!MayAdd
    <3> QED
      BY <3>1 DEF BuilderGoes
  <2>6. CASE B!AddString(v) /\ ~B!HasNul(v.b)
    <3> PICK m : m = B!Raw(native, B!Header(Len(v.b) + 1, B!SPA_TYPE_String))
      OBVIOUS
    <3> PICK o : o = B!Raw(m, v.b \o <<0>>)
      OBVIOUS
    <3>1. native' = B!Pad(o, Len(v.b) + 1) /\ B!Complete(frames, parts, v)
      BY <2>6, Zenon DEF B!AddString
    <3>2. NativeIsSound(m) /\ SameFrames(native, m)
      <4>1. B!Header(Len(v.b) + 1, B!SPA_TYPE_String) \in Seq(B!Byte)
        BY <2>3, TypesAreNumbers, HeaderBytes
      <4> QED
        BY <1>1, <4>1, RawIs, Zenon
    <3>3. v.b \o <<0>> \in Seq(B!Byte)
      <4>1. <<0>> \in Seq(B!Byte)
        BY DEF B!Byte
      <4> QED
        BY <2>3, <4>1, BytesConcat
    <3>4. NativeIsSound(o) /\ SameFrames(m, o)
      BY <3>2, <3>3, RawIs, Zenon
    <3>5. Len(v.b) + 1 \in Nat
      BY <2>3
    <3>6. NativeIsSound(native') /\ SameFrames(o, native')
      BY <3>1, <3>4, <3>5, PadIs, Zenon
    <3>7. SameFrames(native, native')
      BY ONLY <3>2, <3>4, <3>6, SameIsTransitive
    <3> QED
      BY <1>1, <2>1, <3>1, <3>6, <3>7, OneCall
  <2>7. CASE B!AddBytes(v)
    <3> PICK m : m = B!Raw(native, B!Header(Len(v.b), B!SPA_TYPE_Bytes))
      OBVIOUS
    <3>1. native' = B!RawPadded(m, v.b) /\ B!Complete(frames, parts, v)
      BY <2>7, Zenon DEF B!AddBytes
    <3>2. NativeIsSound(m) /\ SameFrames(native, m)
      <4>1. B!Header(Len(v.b), B!SPA_TYPE_Bytes) \in Seq(B!Byte)
        BY <2>3, TypesAreNumbers, HeaderBytes
      <4> QED
        BY <1>1, <4>1, RawIs, Zenon
    <3>3. NativeIsSound(native') /\ SameFrames(m, native')
      BY <2>3, <3>1, <3>2, RawPaddedIs, Zenon
    <3>4. SameFrames(native, native')
      BY ONLY <3>2, <3>3, SameIsTransitive
    <3> QED
      BY <1>1, <2>1, <3>1, <3>3, <3>4, OneCall
  <2>8. CASE B!AddPointer(v)
    <3> PICK body : body = B!U32(v.ptype) \o B!U32(0) \o v.b
      OBVIOUS
    <3>1. native' = B!Primitive(native, B!SPA_TYPE_Pointer, body) /\ B!Complete(frames, parts, v)
      BY <2>8, Zenon DEF B!AddPointer
    <3>2. v.ptype \in Nat
      <4>1. B!WholeValue(v) /\ v.t = B!SPA_TYPE_Pointer
        BY <2>8, RoundTripAssumption DEF B!BuilderAssumption, B!AddPointer
      <4>2. B!SPA_TYPE_Pointer \notin B!FixedSized \cup {B!SPA_TYPE_String, B!SPA_TYPE_Bytes, B!SPA_TYPE_Choice}
        BY PointerIsApart
      <4> QED
        BY <4>1, <4>2 DEF B!WholeValue
    <3>3. body \in Seq(B!Byte)
      <4>1. B!U32(v.ptype) \o B!U32(0) \in Seq(B!Byte)
        BY <3>2, TwoWords
      <4> QED
        BY <2>3, <4>1, BytesConcat
    <3>4. NativeIsSound(native') /\ SameFrames(native, native')
      BY <1>1, <3>1, <3>3, TypesAreNumbers, PrimitiveIs, Zenon
    <3> QED
      BY <1>1, <2>1, <3>1, <3>4, OneCall
  <2> QED
    BY <1>2, <2>4, <2>5, <2>6, <2>7, <2>8
<1>3. ASSUME NEW t \in DOMAIN Child, NEW b \in Child[t], B!AddArray(t, <<b, b>>)
      PROVE  BuilderGoes
  <2> PICK body : body = B!Header(B!SIZE(t), t) \o B!Joined(<<b, b>>, B!SIZE(t))
    OBVIOUS
  <2> PICK whole : whole = B!Header(Len(body), B!SPA_TYPE_Array) \o body
    OBVIOUS
  <2>1. Matched(native, frames)
    BY <1>1, <1>3 DEF B!AddArray, B!MayAdd
  <2>2. B!Joined(<<b, b>>, B!SIZE(t)) \in Seq(B!Byte)
    <3>1. PICK size : size = B!SIZE(t)
      OBVIOUS
    <3>2. size \in {4, 8} /\ b \in [1 .. size -> B!Byte]
      BY <3>1, ElementSizes
    <3>3. <<b, b>> \in Seq([1 .. size -> B!Byte])
      BY <3>2
    <3>4. B!Joined(<<b, b>>, size) \in Seq(B!Byte)
      BY <3>2, <3>3, JoinedBytes
    <3> QED
      BY <3>1, <3>4
  <2>3. body \in Seq(B!Byte) /\ Len(body) \in Nat
    <3>1. B!Header(B!SIZE(t), t) \in Seq(B!Byte)
      BY ElementSizes, HeaderBytes
    <3>2. body \in Seq(B!Byte)
      BY <2>2, <3>1, BytesConcat
    <3> QED
      BY ONLY <3>2
  <2>4. whole \in Seq(B!Byte)
    <3>1. B!Header(Len(body), B!SPA_TYPE_Array) \in Seq(B!Byte)
      BY <2>3, TypesAreNumbers, HeaderBytes
    <3> QED
      BY <2>3, <3>1, BytesConcat
  <2> PICK v : v = [t |-> B!SPA_TYPE_Array, child |-> t, vals |-> <<b, b>>]
    OBVIOUS
  <2>5. native' = B!RawPadded(native, whole) /\ B!Complete(frames, parts, v)
    BY <1>3, Zenon DEF B!AddArray
  <2>6. NativeIsSound(native') /\ SameFrames(native, native')
    BY <1>1, <2>4, <2>5, RawPaddedIs, Zenon
  <2> QED
    BY <1>1, <2>1, <2>5, <2>6, OneCall
<1>4. <<>> \in Seq(B!Byte) /\ Len(<<>>) = 0
  OBVIOUS
<1>5. ASSUME NEW t \in DOMAIN Child, B!PushArray(t)
      PROVE  BuilderGoes
  <2>1. Matched(native, frames)
    BY <1>1, <1>5 DEF B!PushArray, B!MayPush, B!MayAdd
  <2>2. /\ native' = B!Push(native, B!SPA_TYPE_Array, Len(<<>>), <<>>)
        /\ B!Open(B!SPA_TYPE_Array, B!NoKey, t)
    BY <1>4, <1>5, Zenon DEF B!PushArray
  <2> QED
    BY <1>1, <1>4, <2>1, <2>2, TypesAreNumbers, OnePush
<1>6. ASSUME NEW t \in DOMAIN Child, NEW k \in BuiltKey, B!PushChoice(k[1], k[2], t)
      PROVE  BuilderGoes
  <2> PICK rest : rest = B!U32(k[1]) \o B!U32(k[2])
    OBVIOUS
  <2> PICK type : type = <<k[1], k[2]>>
    OBVIOUS
  <2>1. Matched(native, frames)
    BY <1>1, <1>6 DEF B!PushChoice, B!MayPush, B!MayAdd
  <2>2. rest \in Seq(B!Byte) /\ Len(rest) = 8
    BY KeyWords, TwoWords
  <2>3. native' = B!Push(native, B!SPA_TYPE_Choice, 8, rest) /\ B!Open(B!SPA_TYPE_Choice, type, t)
    BY <1>6, Zenon DEF B!PushChoice
  <2>4. native' = B!Push(native, B!SPA_TYPE_Choice, Len(rest), rest)
    BY ONLY <2>2, <2>3, Zenon
  <2> QED
    BY <1>1, <2>1, <2>2, <2>3, <2>4, TypesAreNumbers, OnePush
<1>7. /\ B!SPA_TYPE_Struct \notin {B!SPA_TYPE_Array, B!SPA_TYPE_Choice}
      /\ B!SPA_TYPE_Object \notin {B!SPA_TYPE_Array, B!SPA_TYPE_Choice}
      /\ B!SPA_TYPE_Sequence \notin {B!SPA_TYPE_Array, B!SPA_TYPE_Choice}
  BY DEF B!SPA_TYPE_Struct, B!SPA_TYPE_Object, B!SPA_TYPE_Sequence, B!SPA_TYPE_Array, B!SPA_TYPE_Choice
<1>8. CASE B!PushStruct
  <2>1. Matched(native, frames)
    BY <1>1, <1>8 DEF B!PushStruct, B!MayPush, B!MayAdd
  <2>2. /\ native' = B!Push(native, B!SPA_TYPE_Struct, Len(<<>>), <<>>)
        /\ B!Open(B!SPA_TYPE_Struct, B!NoKey, B!SPA_TYPE_None)
    BY <1>4, <1>8, Zenon DEF B!PushStruct
  <2> QED
    BY <1>1, <1>4, <1>7, <2>1, <2>2, TypesAreNumbers, OnePush
<1>9. ASSUME NEW k \in BuiltKey, B!PushObject(k)
      PROVE  BuilderGoes
  <2> PICK rest : rest = B!U32(k[1]) \o B!U32(k[2])
    OBVIOUS
  <2>1. Matched(native, frames)
    BY <1>1, <1>9 DEF B!PushObject, B!MayPush, B!MayAdd
  <2>2. rest \in Seq(B!Byte) /\ Len(rest) = 8
    BY KeyWords, TwoWords
  <2>3. native' = B!Push(native, B!SPA_TYPE_Object, 8, rest) /\ B!Open(B!SPA_TYPE_Object, k, B!SPA_TYPE_None)
    BY <1>9, Zenon DEF B!PushObject
  <2>4. native' = B!Push(native, B!SPA_TYPE_Object, Len(rest), rest)
    BY ONLY <2>2, <2>3, Zenon
  <2> QED
    BY <1>1, <1>7, <2>1, <2>2, <2>3, <2>4, TypesAreNumbers, OnePush
<1>10. ASSUME NEW k \in BuiltKey, B!PushSequence(k[1])
       PROVE  BuilderGoes
  <2> PICK rest : rest = B!U32(k[1]) \o B!U32(0)
    OBVIOUS
  <2> PICK type : type = <<k[1], 0>>
    OBVIOUS
  <2>1. Matched(native, frames)
    BY <1>1, <1>10 DEF B!PushSequence, B!MayPush, B!MayAdd
  <2>2. rest \in Seq(B!Byte) /\ Len(rest) = 8
    BY KeyWords, TwoWords
  <2>3. native' = B!Push(native, B!SPA_TYPE_Sequence, 8, rest) /\ B!Open(B!SPA_TYPE_Sequence, type, B!SPA_TYPE_None)
    BY <1>10, Zenon DEF B!PushSequence
  <2>4. native' = B!Push(native, B!SPA_TYPE_Sequence, Len(rest), rest)
    BY ONLY <2>2, <2>3, Zenon
  <2> QED
    BY <1>1, <1>7, <2>1, <2>2, <2>3, <2>4, TypesAreNumbers, OnePush
<1>11. ASSUME NEW k \in BuiltKey, B!AddProp(k) \/ B!AddControl(k)
       PROVE  BuilderGoes
  <2>1. /\ B!Usable /\ frames # <<>> /\ state' = state
        /\ native' = B!Raw(native, B!U32(k[1]) \o B!U32(k[2]))
        /\ frames' = [frames EXCEPT ![1].pending = <<k>>]
    BY <1>11, Zenon DEF B!AddProp, B!AddControl, B!InPairs
  <2>2. Matched(native, frames)
    BY <1>1, <2>1
  <2> QED
    BY <1>1, <2>1, <2>2, OneKey
<1>12. ASSUME B!InElements, NEW b \in Child[frames[1].child], B!AddElement(b)
       PROVE  BuilderGoes
  <2>1. Matched(native, frames) /\ frames # <<>>
    BY <1>1, <1>12 DEF B!AddElement, B!InElements
  <2>2. Len(frames) \in Nat \ {0}
    BY <2>1, ListedTail DEF Matched
  <2>3. frames[1].child \in DOMAIN Child
    <3>1. Entry(frames[1])
      BY <2>1, <2>2 DEF Matched
    <3> QED
      BY <1>12, <3>1, Zenon DEF Entry, B!InElements
  <2>4. b \in Seq(B!Byte)
    <3> PICK t : t = frames[1].child
      OBVIOUS
    <3>1. B!SIZE(t) \in {4, 8} /\ b \in [1 .. B!SIZE(t) -> B!Byte]
      BY <1>12, <2>3, ElementSizes
    <3>2. B!SIZE(t) \in Nat
      BY <3>1
    <3> QED
      BY <3>1, <3>2, FunctionLength
  <2>5. native' = B!Primitive(native, frames[1].child, b) /\ frames' = frames /\ state' = state
    BY <1>12, Zenon DEF B!AddElement
  <2>6. NativeIsSound(native') /\ SameFrames(native, native')
    <3>1. frames[1].child \in Nat
      BY <2>3, ElementSizes
    <3> QED
      BY <1>1, <2>4, <2>5, <3>1, PrimitiveIs, Zenon
  <2>7. Matched(native', frames)
    BY <2>1, <2>6, SameMatched
  <2> QED
    BY <2>5, <2>6, <2>7 DEF BuilderGoes, BuilderGoesOn
<1>13. CASE B!PopFrame
  <2>1. Matched(native, frames) /\ frames # <<>>
    BY <1>1, <1>13 DEF B!PopFrame
  <2> PICK v : v = B!BuiltValue(frames[1], parts[1])
    OBVIOUS
  <2>2. native' = B!Pop(native) /\ B!Complete(Tail(frames), Tail(parts), v)
    BY <1>13, Zenon DEF B!PopFrame
  <2>3. native.frames # <<>>
    <3>1. Len(frames) # 0 /\ Len(native.frames) = Len(frames)
      BY <2>1, ListedTail DEF Matched
    <3> QED
      BY <3>1
  <2>4. Unlinked(native, native')
    BY <1>1, <2>2, <2>3, PopIs, Zenon
  <2>5. Matched(native', Tail(frames))
    BY <2>1, <2>4, PoppedMatched
  <2>6. NativeIsSound(native')
    BY <2>4 DEF Unlinked
  <2> QED
    BY <2>2, <2>5, <2>6, Completed
<1>14. CASE B!LeaveEarly \/ B!CallAfterLeaving
  BY <1>14 DEF B!LeaveEarly, BuilderGoes
<1> QED
  BY <1>2, <1>3, <1>5, <1>6, <1>8, <1>9, <1>10, <1>11, <1>12, <1>13, <1>14, Zenon DEF B!Next

LEMMA BuilderStep ==
  ASSUME BuilderIsSound, B!Next
  PROVE  BuilderIsSound'
<1>1. CASE BuilderGoesOn
  BY <1>1 DEF BuilderGoesOn, BuilderIsSound
<1>2. CASE B!Usable /\ B!Leaves
  <2>1. NativeIsSound(native)' /\ frames' = <<>> /\ state' = "ok"
        /\ (native'.frames = <<>> \/ AllGone')
    BY <1>2, OneLeaves DEF BuilderIsSound, B!Usable
  <2>2. native'.frames = <<>> => Matched(native, frames)'
    BY <2>1, NothingMatched
  <2> QED
    BY <2>1, <2>2 DEF BuilderIsSound
<1>3. CASE B!CallAfterLeaving
  <2>1. state' = "undefined" /\ native' = native /\ frames' = frames /\ B!LinksGone
    BY <1>3, Zenon DEF B!CallAfterLeaving
  <2>2. ~Matched(native, frames)
    BY <2>1, ListedLength DEF B!LinksGone, Matched
  <2> QED
    BY <2>1, <2>2 DEF BuilderIsSound, AllGone
<1> QED
  BY <1>1, <1>2, <1>3, BuilderCalls DEF BuilderGoes

-----------------------------------------------------------------------------
(* The parser links the frames of the structs and objects it is in.        *)

AllAlive(o) == \A i \in DOMAIN o : o[i].alive = TRUE

(* So it is as long as no struct or object is left early.                  *)
ParserIsSound == Listed(frames) /\ AllAlive(frames) /\ state # "undefined"

(* A value was read, with the frames of o still linked. *)
LEMMA GotIsSound ==
  ASSUME state # "undefined", NEW o, Listed(o), AllAlive(o), NEW around, NEW next, NEW v,
         P!Got(o, around, next, v)
  PROVE  ParserIsSound'
<1>1. frames' = o /\ state' \in {state, "done"}
  BY Zenon DEF P!Got
<1> QED
  BY <1>1 DEF ParserIsSound, AllAlive

LEMMA FailsIsSound ==
  ASSUME ParserIsSound, ~(frames # <<>> /\ P!Leaves), P!Fails
  PROVE  ParserIsSound'
<1>1. state' = "err" /\ (P!Leaves \/ frames' = frames)
  BY Zenon DEF P!Fails
<1>2. P!Leaves => frames' = <<>>
  <2>1. P!Leaves => frames = <<>>
    OBVIOUS
  <2>2. frames = <<>> => DOMAIN frames = {}
    OBVIOUS
  <2>3. P!Leaves /\ DOMAIN frames = {} => frames' = [i \in {} |-> 0]
    BY DEF P!Leaves
  <2> QED
    BY <2>1, <2>2, <2>3
<1>3. frames' = frames
  BY <1>1, <1>2
<1> QED
  BY <1>1, <1>3 DEF ParserIsSound, AllAlive

LEMMA PushedIsSound ==
  ASSUME ParserIsSound, NEW type, NEW next, P!Pushed(type, next)
  PROVE  ParserIsSound'
<1> PICK e : e = [t |-> P!TypeAt(at), at |-> at, size |-> P!SizeAt(at), type |-> type, alive |-> TRUE]
  OBVIOUS
<1> PICK r : r = <<e>> \o frames
  OBVIOUS
<1>0. Listed(frames) /\ AllAlive(frames) /\ state # "undefined"
  BY DEF ParserIsSound
<1>1. frames' = r /\ state' = state
  BY Zenon DEF P!Pushed
<1>2. /\ Listed(r) /\ Len(r) = Len(frames) + 1 /\ r[1] = e
      /\ \A i \in 1 .. Len(frames) : r[i + 1] = frames[i]
  BY <1>0, ListedInFront
<1>3. /\ Len(frames) \in Nat /\ DOMAIN frames = 1 .. Len(frames) /\ DOMAIN r = 1 .. Len(r)
  BY <1>0, <1>2, ListedLength
<1>4. ASSUME NEW i \in DOMAIN r
      PROVE  r[i].alive = TRUE
  <2>1. CASE i = 1
    BY <1>2, <2>1
  <2>2. CASE i # 1
    <3>1. PICK j : j = i - 1
      OBVIOUS
    <3>2. j \in DOMAIN frames /\ i = j + 1
      BY <1>2, <1>3, <2>2, <3>1
    <3> QED
      BY <1>0, <1>2, <1>3, <3>2 DEF AllAlive
  <2> QED
    BY <2>1, <2>2
<1> QED
  BY <1>0, <1>1, <1>2, <1>4 DEF ParserIsSound, AllAlive

(* A call of the parser that leaves no struct early.                       *)
LEMMA ParserStep ==
  ASSUME ParserIsSound, ~(frames # <<>> /\ P!Leaves), P!Next
  PROVE  ParserIsSound'
<1>1. Listed(frames) /\ AllAlive(frames) /\ state # "undefined"
  BY DEF ParserIsSound
<1>2. ASSUME NEW t, NEW fit, NEW v, P!Asks(t, fit, v)
      PROVE  ParserIsSound'
  BY <1>1, <1>2, GotIsSound, FailsIsSound, Zenon DEF P!Asks
<1>3. ASSUME NEW t, P!GetScalar(t) \/ P!GetPair(t)
      PROVE  ParserIsSound'
  BY <1>2, <1>3, Zenon DEF P!GetScalar, P!GetPair
<1>4. CASE P!GetString \/ P!GetBytes \/ P!GetPointer
  BY <1>2, <1>4, Zenon DEF P!GetString, P!GetBytes, P!GetPointer
<1>5. CASE P!GetPod
  BY <1>1, <1>5, GotIsSound, FailsIsSound, Zenon DEF P!GetPod
<1>6. CASE P!PushStruct
  BY <1>1, <1>6, PushedIsSound, FailsIsSound, Zenon DEF P!PushStruct
<1>7. ASSUME NEW type, P!PushObject(type)
      PROVE  ParserIsSound'
  BY <1>1, <1>7, PushedIsSound, FailsIsSound, Zenon DEF P!PushObject
<1>8. CASE P!PopFrame
  <2> PICK o : o = Tail(frames)
    OBVIOUS
  <2>1. frames # <<>>
    BY <1>8, Zenon DEF P!PopFrame
  <2>2. /\ Listed(o) /\ Len(frames) \in Nat \ {0} /\ Len(o) = Len(frames) - 1
        /\ \A i \in 1 .. Len(frames) - 1 : o[i] = frames[i + 1]
    BY <1>1, <2>1, ListedTail
  <2>3. DOMAIN frames = 1 .. Len(frames) /\ DOMAIN o = 1 .. Len(o)
    BY <1>1, <2>2, ListedLength
  <2>4. AllAlive(o)
    <3> SUFFICES ASSUME NEW i \in DOMAIN o
                 PROVE  o[i].alive = TRUE
      BY DEF AllAlive
    <3>1. i + 1 \in DOMAIN frames /\ o[i] = frames[i + 1]
      BY <2>2, <2>3
    <3> QED
      BY <1>1, <3>1 DEF AllAlive
  <2> QED
    BY <1>1, <1>8, <2>2, <2>4, GotIsSound, Zenon DEF P!PopFrame
<1>9. CASE P!AskAgain
  <2>1. frames' = frames /\ state' = "ok"
    BY <1>9, Zenon DEF P!AskAgain
  <2> QED
    BY <1>1, <2>1 DEF ParserIsSound, AllAlive
<1>10. CASE P!AskAfterLeaving
  <2>1. P!LinksGone
    BY <1>10, Zenon DEF P!AskAfterLeaving
  <2> QED
    BY <1>1, <2>1 DEF P!LinksGone, AllAlive
<1> QED
  BY <1>3, <1>4, <1>5, <1>6, <1>7, <1>8, <1>9, <1>10, Zenon DEF P!Next

-----------------------------------------------------------------------------
(* Both, one after the other.                                              *)

BuilderIsUsedSoundly == phase = "build" => BuilderIsSound
ParserIsUsedSoundly == phase = "parse" => ParserIsSound

LEMMA BuilderIsMadeSoundly ==
  RoundTripInit => BuilderIsUsedSoundly
<1> SUFFICES ASSUME RoundTripInit, phase = "build"
             PROVE  BuilderIsSound
  BY DEF BuilderIsUsedSoundly
<1>1. native = B!New(OldLength) /\ frames = <<>>
  BY Zenon DEF RoundTripInit, B!Init
<1> PICK data : data = [i \in 1 .. OldLength |-> B!OldByte]
  OBVIOUS
<1>2. OldLength \in Nat
  BY RoundTripAssumption DEF B!BuilderAssumption
<1>3. data \in Seq(B!Byte) /\ Len(data) = OldLength
  <2>1. data \in [1 .. OldLength -> B!Byte]
    BY DEF B!OldByte, B!Byte
  <2> QED
    BY <1>2, <2>1, FunctionLength
<1>4. Listed(<<>>) /\ Len(<<>>) = 0
  <2>1. <<>> \in Seq({0})
    OBVIOUS
  <2> QED
    BY <2>1 DEF Listed
<1>5. native = BuilderRecord(data, OldLength, 0, "none", <<>>, TRUE)
  BY <1>1, Zenon DEF B!New, BuilderRecord
<1>6. /\ native.data = data /\ native.size = OldLength /\ native.offset = 0
      /\ native.flags = "none" /\ native.frames = <<>> /\ native.sound = TRUE
  BY <1>5 DEF BuilderRecord
<1>7. native = BuilderRecord(native.data, native.size, native.offset, native.flags, native.frames, native.sound)
  BY <1>5, <1>6, Zenon
<1>8. NativeIsSound(native)
  <2>1. native.offset \in Nat /\ native.offset <= native.size
    BY <1>2, <1>6
  <2>2. \A i \in DOMAIN native.frames : FrameCounts(native.frames[i], native.offset)
    BY <1>6
  <2> QED
    BY <1>3, <1>4, <1>6, <1>7, <2>1, <2>2, Zenon DEF NativeIsSound
<1>9. Matched(native, frames)
  BY <1>1, <1>4, <1>6 DEF Matched
<1> QED
  BY <1>8, <1>9 DEF BuilderIsSound

LEMMA BuilderStaysSound ==
  BuilderIsUsedSoundly /\ [RoundTripNext]_roundTripVars => BuilderIsUsedSoundly'
<1> SUFFICES ASSUME BuilderIsUsedSoundly, [RoundTripNext]_roundTripVars, phase' = "build"
             PROVE  BuilderIsSound'
  BY DEF BuilderIsUsedSoundly
<1>1. CASE UNCHANGED roundTripVars
  BY <1>1 DEF roundTripVars, second, BuilderIsUsedSoundly, BuilderIsSound, AllGone
<1>2. CASE Build
  BY <1>2, BuilderStep DEF Build, BuilderIsUsedSoundly
<1>3. CASE Serialize
  BY <1>3 DEF Serialize
<1>4. CASE Deserialize
  BY <1>4 DEF Deserialize
<1>5. CASE Parse
  BY <1>5 DEF Parse
<1>6. CASE HandOver
  BY <1>6 DEF HandOver, Give
<1> QED
  BY <1>1, <1>2, <1>3, <1>4, <1>5, <1>6 DEF RoundTripNext

LEMMA ParserStaysSound ==
  ParserIsUsedSoundly /\ [RoundTripNext]_roundTripVars /\ [~LeavesContainer]_roundTripVars
    => ParserIsUsedSoundly'
<1> SUFFICES ASSUME ParserIsUsedSoundly, [RoundTripNext]_roundTripVars,
                    [~LeavesContainer]_roundTripVars, phase' = "parse"
             PROVE  ParserIsSound'
  BY DEF ParserIsUsedSoundly
<1>1. CASE UNCHANGED roundTripVars
  BY <1>1 DEF roundTripVars, second, ParserIsUsedSoundly, ParserIsSound, AllAlive
<1>2. CASE Parse /\ ~LeavesContainer
  <2>1. phase = "parse" /\ ParserIsSound /\ P!Next
    BY <1>2 DEF Parse, ParserIsUsedSoundly
  <2>2. ~(frames # <<>> /\ P!Leaves)
    BY <1>2, <2>1, Zenon DEF LeavesContainer
  <2> QED
    BY <2>1, <2>2, ParserStep
<1>3. CASE Serialize
  BY <1>3 DEF Serialize
<1>4. CASE Deserialize
  BY <1>4 DEF Deserialize
<1>5. CASE Build
  BY <1>5 DEF Build
<1>6. CASE HandOver
  <2>1. frames' = <<>> /\ state' = "ok"
    BY <1>6 DEF HandOver, Give
  <2>2. <<>> \in Seq({0}) /\ DOMAIN <<>> = {}
    OBVIOUS
  <2> QED
    BY <2>1, <2>2 DEF ParserIsSound, AllAlive, Listed
<1> QED
  BY <1>1, <1>2, <1>3, <1>4, <1>5, <1>6 DEF RoundTripNext

(* A builder that no container was left early of: it links the frames of   *)
(* the containers under construction, and no call finds one gone.          *)
BuilderIsLent ==
  phase = "build" => NativeIsSound(native) /\ Matched(native, frames) /\ state # "undefined"

LEMMA NothingMatchedIsGone ==
  ASSUME NEW n, Matched(n, frames), native = n
  PROVE  ~B!LinksGone
BY ListedLength DEF Matched, B!LinksGone

LEMMA BuilderStaysLent ==
  BuilderIsLent /\ [RoundTripNext]_roundTripVars /\ [~LeavesContainer]_roundTripVars
    => BuilderIsLent'
<1> SUFFICES ASSUME BuilderIsLent, [RoundTripNext]_roundTripVars,
                    [~LeavesContainer]_roundTripVars, phase' = "build"
             PROVE  (NativeIsSound(native) /\ Matched(native, frames) /\ state # "undefined")'
  BY DEF BuilderIsLent
<1>1. CASE UNCHANGED roundTripVars
  BY <1>1 DEF roundTripVars, second, BuilderIsLent
<1>2. CASE Build /\ ~LeavesContainer
  <2>1. /\ phase = "build" /\ B!Next /\ state # "undefined"
        /\ NativeIsSound(native) /\ Matched(native, frames)
    BY <1>2 DEF Build, BuilderIsLent
  <2>2. BuilderGoes
    BY <2>1, BuilderCalls DEF BuilderIsSound
  <2>3. CASE BuilderGoesOn
    BY <2>1, <2>3 DEF BuilderGoesOn
  <2>4. CASE B!Leaves
    <3>1. frames = <<>>
      BY <1>2, <2>1, <2>4, Zenon DEF LeavesContainer
    <3>2. native.frames = <<>>
      BY <2>1, <3>1, NothingMatched
    <3>3. NativeIsSound(native)' /\ frames' = <<>> /\ state' = state /\ native'.frames = <<>>
      BY <2>1, <2>4, <3>2, OneLeaves
    <3>4. Matched(native, frames)'
      BY <3>3, NothingMatched
    <3> QED
      BY <2>1, <3>3, <3>4
  <2>5. CASE B!CallAfterLeaving
    <3>1. B!LinksGone
      BY <2>5, Zenon DEF B!CallAfterLeaving
    <3> QED
      BY <2>1, <3>1, NothingMatchedIsGone
  <2> QED
    BY <2>2, <2>3, <2>4, <2>5, Zenon DEF BuilderGoes
<1>3. CASE Serialize
  BY <1>3 DEF Serialize
<1>4. CASE Deserialize
  BY <1>4 DEF Deserialize
<1>5. CASE Parse
  BY <1>5 DEF Parse
<1>6. CASE HandOver
  BY <1>6 DEF HandOver, Give
<1> QED
  BY <1>1, <1>2, <1>3, <1>4, <1>5, <1>6 DEF RoundTripNext

(* A builder links the frames of the containers under construction, until  *)
(* one of them is left early, and only frames that are gone after that,    *)
(* when it is called again too.  Each frame counts exactly the bytes       *)
(* behind its header; what was written lies inside the Vec, whose length   *)
(* is the builder's size, so the assertion in Builder::overflow holds.     *)
THEOREM BuilderKeepsItsFrames ==
  RoundTripSpec => []( /\ FramesMatchContainers
                       /\ phase = "build" => /\ B!FramesCountExactly /\ B!OverflowIsSound
                                             /\ native.offset <= Len(native.data))
<1>1. BuilderIsUsedSoundly =>
        /\ FramesMatchContainers
        /\ phase = "build" => /\ B!FramesCountExactly /\ B!OverflowIsSound
                              /\ native.offset <= Len(native.data)
  <2> SUFFICES ASSUME BuilderIsUsedSoundly, phase = "build"
               PROVE  /\ FramesMatchContainers /\ B!FramesCountExactly
                      /\ B!OverflowIsSound /\ native.offset <= Len(native.data)
    BY DEF FramesMatchContainers
  <2>1. /\ NativeIsSound(native)
        /\ Matched(native, frames) \/ (state # "done" /\ AllGone)
    BY DEF BuilderIsUsedSoundly, BuilderIsSound
  <2>2. DOMAIN native.frames = 1 .. Len(native.frames)
    BY <2>1, ListedLength DEF NativeIsSound
  <2>3. Matched(native, frames) => B!FramesAreThoseOpen
    BY <2>2 DEF Matched, B!FramesAreThoseOpen
  <2>4. state # "done" /\ AllGone => B!FramesAreAllGone
    BY DEF AllGone, B!FramesAreAllGone
  <2>5. FramesMatchContainers
    BY <2>1, <2>3, <2>4 DEF FramesMatchContainers
  <2>6. B!FramesCountExactly
    BY <2>1 DEF NativeIsSound, FrameCounts, B!FramesCountExactly
  <2>7. B!OverflowIsSound /\ native.offset <= Len(native.data)
    BY <2>1 DEF NativeIsSound, B!OverflowIsSound
  <2> QED
    BY <2>5, <2>6, <2>7
<1> QED
  BY <1>1, BuilderIsMadeSoundly, BuilderStaysSound, PTL DEF RoundTripSpec

(* "The provided frame must not be moved or destroyed before it is popped  *)
(* again" (builder.rs, parser.rs): so it is in every program that never    *)
(* leaves a container early, by a failing macro, a `?` or a panic, while a *)
(* builder or a parser links its frame.  No type asks that of a program.   *)
THEOREM LinkedFramesLive ==
  RoundTripSpec /\ NothingLeftEarly => []LinkedFramesAreAlive
<1>1. RoundTripInit => ParserIsUsedSoundly
  BY DEF RoundTripInit, ParserIsUsedSoundly
<1>2. RoundTripInit => BuilderIsLent
  <2> SUFFICES ASSUME RoundTripInit, phase = "build"
               PROVE  NativeIsSound(native) /\ Matched(native, frames) /\ state # "undefined"
    BY DEF BuilderIsLent
  <2>1. BuilderIsSound
    BY BuilderIsMadeSoundly DEF BuilderIsUsedSoundly
  <2>2. native = B!New(OldLength) /\ frames = <<>> /\ state = "ok"
    BY Zenon DEF RoundTripInit, B!Init
  <2>3. native.frames = <<>>
    BY <2>2 DEF B!New
  <2> QED
    BY <2>1, <2>2, <2>3 DEF BuilderIsSound, AllGone
<1>3. ParserIsUsedSoundly /\ BuilderIsLent => LinkedFramesAreAlive
  BY DEF ParserIsUsedSoundly, ParserIsSound, P!CallsFindFrames, LinkedFramesAreAlive,
         BuilderIsLent, B!CallsFindFrames
<1> QED
  BY <1>1, <1>2, <1>3, BuilderStaysLent, ParserStaysSound, PTL DEF RoundTripSpec, NothingLeftEarly

-----------------------------------------------------------------------------
(* The parser reads what it was given and nothing behind it.               *)

ParserFrame(f) ==
  /\ f = [t |-> f.t, at |-> f.at, size |-> f.size, type |-> f.type, alive |-> f.alive]
  /\ f.at \in Nat /\ f.size \in Nat /\ f.at + 8 + f.size <= Len(input)

FramesInside(o) == Listed(o) /\ \A i \in 1 .. Len(o) : ParserFrame(o[i])

ParserReadsInside ==
  /\ input \in Seq(P!Byte)
  /\ at \in Nat /\ at <= Len(input) + 7
  /\ FramesInside(frames)

LEMMA WordIsNat ==
  ASSUME input \in Seq(P!Byte), NEW p \in Nat, p + 4 <= Len(input)
  PROVE  P!U32At(p) \in Nat
<1>0. Len(input) \in Nat
  OBVIOUS
<1>1. p + 1 \in 1 .. Len(input) /\ p + 2 \in 1 .. Len(input)
      /\ p + 3 \in 1 .. Len(input) /\ p + 4 \in 1 .. Len(input)
  BY <1>0, FourBytes, Zenon
<1>2. input[p + 1] \in P!Byte /\ input[p + 2] \in P!Byte
      /\ input[p + 3] \in P!Byte /\ input[p + 4] \in P!Byte
  BY <1>1, ElementOf, Zenon
<1>3. input[p + 1] \in Nat /\ input[p + 2] \in Nat
      /\ input[p + 3] \in Nat /\ input[p + 4] \in Nat
  BY ONLY <1>2 DEF P!Byte
<1>. DEFINE a == input[p + 1]
            b == input[p + 2]
            c == input[p + 3]
            d == input[p + 4]
<1>4. a \in Nat /\ b \in Nat /\ c \in Nat /\ d \in Nat
  BY <1>3
<1>5. P!U32At(p) = a + 256 * b + 65536 * c + 16777216 * d
  BY DEF P!U32At
<1>. HIDE DEF a, b, c, d
<1>. QED
  BY <1>4, <1>5

(* Where the innermost frame ends lies within the slice. *)
LEMMA LimitInside ==
  ASSUME ParserReadsInside
  PROVE  P!Limit \in Nat /\ P!Limit <= Len(input)
<1>1. Len(input) \in Nat
  BY DEF ParserReadsInside
<1>2. CASE frames = <<>>
  BY <1>1, <1>2 DEF P!Limit
<1>3. CASE frames # <<>>
  <2>1. Len(frames) \in Nat \ {0}
    BY <1>3, ListedTail DEF ParserReadsInside, FramesInside
  <2>2. ParserFrame(frames[1])
    BY <2>1 DEF ParserReadsInside, FramesInside
  <2>3. P!Limit = frames[1].at + 8 + frames[1].size
    BY <1>3 DEF P!Limit
  <2> QED
    BY <2>2, <2>3 DEF ParserFrame
<1> QED
  BY <1>2, <1>3

(* A pod that is there ends within the slice. *)
LEMMA PodInside ==
  ASSUME ParserReadsInside, P!HasPod
  PROVE  /\ P!SizeAt(at) \in Nat /\ at + 8 + P!SizeAt(at) <= Len(input)
         /\ P!After(at, P!SizeAt(at)) \in Nat /\ P!After(at, P!SizeAt(at)) <= Len(input) + 7
<1>1. input \in Seq(P!Byte) /\ at \in Nat /\ Len(input) \in Nat
  BY DEF ParserReadsInside
<1>2. P!Limit \in Nat /\ P!Limit <= Len(input) /\ at + 8 <= P!Limit /\ at + 8 + P!SizeAt(at) <= P!Limit
  BY LimitInside, Zenon DEF P!HasPod
<1>3. at + 4 <= Len(input)
  BY ONLY <1>1, <1>2
<1>4. P!SizeAt(at) \in Nat
  BY <1>1, <1>3, WordIsNat DEF P!SizeAt
<1> PICK size : size = P!SizeAt(at)
  OBVIOUS
<1>5. size \in Nat /\ at + 8 + size <= Len(input)
  BY ONLY <1>1, <1>2, <1>4, size = P!SizeAt(at)
<1>6. P!Padding(size) \in 0 .. 7
  BY <1>5 DEF P!Padding
<1>7. P!After(at, size) = at + 8 + size + P!Padding(size)
  BY DEF P!After
<1>8. P!After(at, size) \in Nat /\ P!After(at, size) <= Len(input) + 7
  BY ONLY <1>1, <1>5, <1>6, <1>7
<1> QED
  BY <1>5, <1>8

LEMMA GotInside ==
  ASSUME ParserReadsInside, NEW o, FramesInside(o), NEW around, NEW next \in Nat, next <= Len(input) + 7,
         NEW v, P!Got(o, around, next, v)
  PROVE  ParserReadsInside'
<1>1. frames' = o /\ at' = next /\ input' = input
  BY Zenon DEF P!Got
<1>2. FramesInside(frames)'
  BY <1>1 DEF FramesInside, ParserFrame
<1> QED
  BY <1>1, <1>2 DEF ParserReadsInside

LEMMA FailsInside ==
  ASSUME ParserReadsInside, P!Fails
  PROVE  ParserReadsInside'
<1> PICK o : o = [i \in DOMAIN frames |-> [frames[i] EXCEPT !.alive = FALSE]]
  OBVIOUS
<1>1. (frames' = o \/ frames' = frames) /\ at' = at /\ input' = input
  BY Zenon DEF P!Fails, P!Leaves
<1>2. Len(frames) \in Nat /\ DOMAIN frames = 1 .. Len(frames)
  BY ListedLength DEF ParserReadsInside, FramesInside
<1>3. Listed(o) /\ Len(o) = Len(frames)
  <2>1. o = [i \in 1 .. Len(frames) |-> o[i]]
    BY <1>2
  <2> QED
    BY <1>2, <2>1, ListedFunction
<1>4. ASSUME NEW i \in 1 .. Len(o)
      PROVE  ParserFrame(o[i])
  <2> PICK f : f = frames[i]
    OBVIOUS
  <2> PICK g : g = [f EXCEPT !.alive = FALSE]
    OBVIOUS
  <2>1. ParserFrame(f) /\ o[i] = g
    BY <1>2, <1>3 DEF ParserReadsInside, FramesInside
  <2>2. f = [t |-> f.t, at |-> f.at, size |-> f.size, type |-> f.type, alive |-> f.alive]
    BY <2>1 DEF ParserFrame
  <2>3. g = [t |-> f.t, at |-> f.at, size |-> f.size, type |-> f.type, alive |-> FALSE]
    BY ONLY <2>2, g = [f EXCEPT !.alive = FALSE]
  <2>4. g.t = f.t /\ g.at = f.at /\ g.size = f.size /\ g.type = f.type /\ g.alive = FALSE
    BY ONLY <2>3
  <2> QED
    BY <2>1, <2>3, <2>4, Zenon DEF ParserFrame
<1>5. FramesInside(frames)'
  <2> PICK r : r = frames'
    OBVIOUS
  <2>1. Listed(r) /\ \A i \in 1 .. Len(r) : ParserFrame(r[i])
    <3>1. CASE r = o
      BY <1>3, <1>4, <3>1
    <3>2. CASE r = frames
      BY <3>2 DEF ParserReadsInside, FramesInside
    <3> QED
      BY <1>1, <3>1, <3>2
  <2>2. \A i \in 1 .. Len(r) : (ParserFrame(r[i]))'
    BY <1>1, <2>1 DEF ParserFrame
  <2> QED
    BY <2>1, <2>2 DEF FramesInside
<1> QED
  BY <1>1, <1>5 DEF ParserReadsInside

LEMMA PushedInside ==
  ASSUME ParserReadsInside, P!HasPod, NEW type, NEW next \in Nat, next <= Len(input) + 7,
         P!Pushed(type, next)
  PROVE  ParserReadsInside'
<1> PICK e : e = [t |-> P!TypeAt(at), at |-> at, size |-> P!SizeAt(at), type |-> type, alive |-> TRUE]
  OBVIOUS
<1> PICK r : r = <<e>> \o frames
  OBVIOUS
<1>1. frames' = r /\ at' = next /\ input' = input
  BY Zenon DEF P!Pushed
<1>2. at \in Nat /\ P!SizeAt(at) \in Nat /\ at + 8 + P!SizeAt(at) <= Len(input)
  BY PodInside DEF ParserReadsInside
<1>3. ParserFrame(e)
  BY <1>2 DEF ParserFrame
<1>4. /\ Listed(frames) /\ Len(frames) \in Nat
      /\ \A i \in 1 .. Len(frames) : ParserFrame(frames[i])
  BY ListedLength DEF ParserReadsInside, FramesInside
<1>5. /\ Listed(r) /\ Len(r) = Len(frames) + 1 /\ r[1] = e
      /\ \A i \in 1 .. Len(frames) : r[i + 1] = frames[i]
  BY <1>4, ListedInFront
<1>6. ASSUME NEW i \in 1 .. Len(r)
      PROVE  ParserFrame(r[i])
  <2>1. CASE i = 1
    BY <1>3, <1>5, <2>1
  <2>2. CASE i # 1
    <3> PICK j : j = i - 1
      OBVIOUS
    <3>1. j \in 1 .. Len(frames) /\ i = j + 1
      BY <1>4, <1>5, <2>2
    <3> QED
      BY <1>4, <1>5, <3>1
  <2> QED
    BY <2>1, <2>2
<1>7. FramesInside(r)
  BY <1>5, <1>6, Zenon DEF FramesInside
<1>8. FramesInside(frames)'
  <2> HIDE DEF FramesInside
  <2>1. \A i \in 1 .. Len(r) : (ParserFrame(r[i]))'
    <3> SUFFICES ASSUME NEW i \in 1 .. Len(r)
                 PROVE  (ParserFrame(r[i]))'
      BY Zenon
    <3> QED
      BY <1>1, <1>6, Zenon DEF ParserFrame
  <2> QED
    BY <1>1, <1>5, <2>1, Zenon DEF FramesInside
<1> QED
  BY <1>1, <1>8 DEF ParserReadsInside

LEMMA InsideStep ==
  ASSUME ParserReadsInside, P!Next
  PROVE  ParserReadsInside'
<1>1. FramesInside(frames) /\ Len(input) \in Nat /\ at \in Nat
  BY DEF ParserReadsInside
<1>2. ASSUME NEW t, NEW fit, NEW v, P!Asks(t, fit, v)
      PROVE  ParserReadsInside'
  <2>1. CASE P!HasPod /\ P!Got(frames, parts, P!After(at, P!SizeAt(at)), v)
    BY <1>1, <2>1, PodInside, GotInside, Zenon
  <2>2. CASE P!Fails
    BY <2>2, FailsInside
  <2> QED
    BY <1>2, <2>1, <2>2, Zenon DEF P!Asks
<1>3. ASSUME NEW t, P!GetScalar(t) \/ P!GetPair(t)
      PROVE  ParserReadsInside'
  BY <1>2, <1>3, Zenon DEF P!GetScalar, P!GetPair
<1>4. CASE P!GetString \/ P!GetBytes \/ P!GetPointer
  BY <1>2, <1>4, Zenon DEF P!GetString, P!GetBytes, P!GetPointer
<1>5. CASE P!GetPod
  <2>1. CASE P!HasPod
    BY <1>1, <1>5, <2>1, PodInside, GotInside, Zenon DEF P!GetPod
  <2>2. CASE ~P!HasPod
    BY <1>5, <2>2, FailsInside, Zenon DEF P!GetPod
  <2> QED
    BY <2>1, <2>2
<1>6. CASE P!PushStruct
  <2>1. CASE P!HasPod /\ P!Pushed(P!NoKey, at + 8)
    <3>1. at + 8 \in Nat /\ at + 8 <= Len(input) + 7
      BY <1>1, <2>1, PodInside
    <3> QED
      BY <2>1, <3>1, PushedInside
  <2>2. CASE P!Fails
    BY <2>2, FailsInside
  <2> QED
    BY <1>6, <2>1, <2>2, Zenon DEF P!PushStruct
<1>7. ASSUME NEW type, P!PushObject(type)
      PROVE  ParserReadsInside'
  <2>1. ASSUME NEW id, P!HasPod, P!Pushed(id, Len(input))
        PROVE  ParserReadsInside'
    <3>1. Len(input) \in Nat /\ Len(input) <= Len(input) + 7
      BY <1>1
    <3> QED
      BY <2>1, <3>1, PushedInside
  <2>2. CASE P!Fails
    BY <2>2, FailsInside
  <2> QED
    BY <1>7, <2>1, <2>2, Zenon DEF P!PushObject
<1>8. CASE P!PopFrame
  <2> PICK o : o = Tail(frames)
    OBVIOUS
  <2>1. frames # <<>>
    BY <1>8, Zenon DEF P!PopFrame
  <2>2. /\ Listed(o) /\ Len(frames) \in Nat \ {0} /\ Len(o) = Len(frames) - 1
        /\ \A i \in 1 .. Len(frames) - 1 : o[i] = frames[i + 1]
    BY <1>1, <2>1, ListedTail DEF FramesInside
  <2>3. FramesInside(o)
    BY <1>1, <2>2 DEF FramesInside
  <2> PICK f : f = frames[1]
    OBVIOUS
  <2>4. f.at \in Nat /\ f.size \in Nat /\ f.at + 8 + f.size <= Len(input)
    BY <1>1, <2>2 DEF FramesInside, ParserFrame
  <2>5. P!Padding(f.size) \in 0 .. 7
    BY <2>4 DEF P!Padding
  <2>6. P!After(f.at, f.size) \in Nat /\ P!After(f.at, f.size) <= Len(input) + 7
    <3>1. P!After(f.at, f.size) = f.at + 8 + f.size + P!Padding(f.size)
      BY Zenon DEF P!After
    <3> PICK p : p = f.at
      OBVIOUS
    <3> PICK n : n = f.size
      OBVIOUS
    <3> PICK e : e = P!Padding(f.size)
      OBVIOUS
    <3> PICK l : l = Len(input)
      OBVIOUS
    <3>2. p \in Nat /\ n \in Nat /\ l \in Nat /\ e \in 0 .. 7 /\ p + 8 + n <= l
      BY <1>1, <2>4, <2>5
    <3>3. p + 8 + n + e \in Nat /\ p + 8 + n + e <= l + 7
      BY ONLY <3>2
    <3> QED
      BY <3>1, <3>3
  <2> QED
    BY <1>8, <2>3, <2>6, GotInside, Zenon DEF P!PopFrame
<1>9. CASE P!AskAgain \/ P!AskAfterLeaving
  <2>1. frames' = frames /\ input' = input /\ at' = at
    BY <1>9, Zenon DEF P!AskAgain, P!AskAfterLeaving
  <2> QED
    BY <2>1 DEF ParserReadsInside, FramesInside, ParserFrame
<1> QED
  BY <1>3, <1>4, <1>5, <1>6, <1>7, <1>8, <1>9, Zenon DEF P!Next

-----------------------------------------------------------------------------
(* What the serializer or the builder has written is handed to a reader.   *)

LEMMA RestOfBytes ==
  ASSUME NEW S, NEW s \in Seq(S), NEW n \in Nat
  PROVE  SubSeq(s, n + 1, Len(s)) \in Seq(S)
OBVIOUS

(* The serializer goes its own way in the composition. *)
LEMMA RoundTripSerializes ==
  RoundTripSpec => Spec
<1>1. RoundTripInit => Init
  BY Zenon DEF RoundTripInit
<1>2. [RoundTripNext]_roundTripVars => [Next]_vars
  <2>1. HandOver => UNCHANGED vars
    BY Zenon DEF HandOver, Give
  <2>2. Serialize => Next
    BY Zenon DEF Serialize
  <2>3. Build \/ Deserialize \/ Parse => UNCHANGED vars
    BY Zenon DEF Build, Deserialize, Parse
  <2>4. UNCHANGED roundTripVars => UNCHANGED vars
    BY Zenon DEF roundTripVars
  <2> QED
    BY <2>1, <2>2, <2>3, <2>4, Zenon DEF RoundTripNext
<1> QED
  BY <1>1, <1>2, PTL DEF RoundTripSpec, Spec

ReaderIsUsedSoundly ==
  /\ BuilderIsUsedSoundly
  /\ visitor \in {"value", "application"} /\ checks \in BOOLEAN
  /\ phase = "deserialize" => D!IInv
  /\ phase = "parse" => ParserReadsInside

LEMMA BytesHandedOver ==
  ASSUME IInv, ReaderIsUsedSoundly, HandOver
  PROVE  input' \in Seq(Byte) /\ Len(input') < Modulus
<1>1. \E bytes, v : Give(bytes, v) /\ bytes \in Seq(Byte)
  <2>1. CASE /\ phase = "serialize" /\ status = "done"
             /\ Give(SubSeq(out, Start + 1, Len(out)), result.value)
    <3>1. out \in Seq(Byte) /\ Start \in Nat
      BY SerializerAssumption DEF IInv, TypeOK
    <3> QED
      BY <2>1, <3>1, RestOfBytes
  <2>2. CASE phase = "build" /\ state = "done" /\ Give(native.data, value)
    <3>1. native.data \in Seq(B!Byte)
      BY <2>2 DEF ReaderIsUsedSoundly, BuilderIsUsedSoundly, BuilderIsSound, NativeIsSound
    <3> QED
      BY <2>2, <3>1 DEF B!Byte, Byte
  <2> QED
    BY <2>1, <2>2, Zenon DEF HandOver
<1> PICK bytes, v : Give(bytes, v) /\ bytes \in Seq(Byte)
  BY <1>1
<1>2. input' = bytes /\ Len(bytes) <= MaxHandedOver
  BY Zenon DEF Give
<1>3. Len(bytes) \in Nat /\ MaxHandedOver \in 0 .. Modulus - 1 /\ Modulus \in Nat
  BY RoundTripAssumption, LayoutAssumption
<1>4. Len(input') < Modulus
  <2> PICK n : n = Len(bytes)
    OBVIOUS
  <2>1. n \in Nat /\ n <= MaxHandedOver
    BY <1>2, <1>3
  <2>2. n < Modulus
    BY ONLY <1>3, <2>1
  <2> QED
    BY <1>2, <2>2
<1> QED
  BY <1>2, <1>4

LEMMA HandOverSound ==
  ASSUME IInv, ReaderIsUsedSoundly, HandOver
  PROVE  ReaderIsUsedSoundly'
<1>1. input' \in Seq(Byte) /\ Len(input') < Modulus
  BY BytesHandedOver
<1>2. /\ at' = 0 /\ frames' = <<>> /\ state' = "ok"
      /\ \/ phase' = "deserialize" /\ visitor' = "value" /\ checks' \in BOOLEAN
         \/ phase' = "parse" /\ visitor' = visitor /\ checks' = checks
  BY Zenon DEF HandOver, Give
<1>3. visitor' \in {"value", "application"} /\ checks' \in BOOLEAN /\ phase' # "build"
  BY <1>2 DEF ReaderIsUsedSoundly
<1>4. Given'
  BY <1>1, <1>2, <1>3 DEF Given, D!Byte, Byte
<1>5. ParserReadsInside'
  <2>1. Len(input') \in Nat /\ input' \in Seq(P!Byte)
    BY <1>1 DEF P!Byte, Byte
  <2>2. Listed(<<>>) /\ Len(<<>>) = 0
    <3>1. <<>> \in Seq({0})
      OBVIOUS
    <3> QED
      BY <3>1 DEF Listed
  <2>3. FramesInside(frames)'
    BY <1>2, <2>2 DEF FramesInside
  <2> QED
    BY <1>2, <2>1, <2>3 DEF ParserReadsInside
<1> QED
  BY <1>3, <1>4, <1>5, GivenIInv DEF ReaderIsUsedSoundly, BuilderIsUsedSoundly

LEMMA ReadersStaySound ==
  IInv /\ ReaderIsUsedSoundly /\ [RoundTripNext]_roundTripVars => ReaderIsUsedSoundly'
<1> SUFFICES ASSUME IInv, ReaderIsUsedSoundly, [RoundTripNext]_roundTripVars
             PROVE  ReaderIsUsedSoundly'
  OBVIOUS
<1>1. BuilderIsUsedSoundly'
  BY BuilderStaysSound DEF ReaderIsUsedSoundly
<1>2. CASE UNCHANGED roundTripVars
  <2>1. /\ phase' = phase /\ input' = input /\ visitor' = visitor /\ checks' = checks
        /\ at' = at /\ frames' = frames /\ parts' = parts /\ state' = state /\ value' = value
    BY <1>2, Zenon DEF roundTripVars, second
  <2>2. phase' = "deserialize" => D!IInv'
    BY <2>1, StutterIInv DEF ReaderIsUsedSoundly, D!vars
  <2>3. phase' = "parse" => ParserReadsInside'
    BY <2>1 DEF ReaderIsUsedSoundly, ParserReadsInside, FramesInside, ParserFrame
  <2> QED
    BY <1>1, <2>1, <2>2, <2>3 DEF ReaderIsUsedSoundly
<1>3. CASE Serialize
  BY <1>1, <1>3 DEF Serialize, second, ReaderIsUsedSoundly
<1>4. CASE Build
  BY <1>1, <1>4 DEF Build, ReaderIsUsedSoundly
<1>5. CASE Deserialize
  <2>1. D!IInv /\ D!Next /\ phase' = "deserialize"
    BY <1>5 DEF Deserialize, ReaderIsUsedSoundly
  <2>2. D!IInv'
    BY <2>1, ReaderInductive
  <2>3. visitor' \in {"value", "application"} /\ checks' \in BOOLEAN
    BY <2>2 DEF D!IInv, D!TypeOK
  <2> QED
    BY <1>1, <2>1, <2>2, <2>3 DEF ReaderIsUsedSoundly
<1>6. CASE Parse
  <2>1. ParserReadsInside /\ P!Next /\ phase' = "parse" /\ visitor' = visitor /\ checks' = checks
    BY <1>6 DEF Parse, ReaderIsUsedSoundly
  <2>2. ParserReadsInside'
    BY <2>1, InsideStep
  <2> QED
    BY <1>1, <2>1, <2>2 DEF ReaderIsUsedSoundly
<1>7. CASE HandOver
  BY <1>7, HandOverSound
<1> QED
  BY <1>2, <1>3, <1>4, <1>5, <1>6, <1>7, Zenon DEF RoundTripNext

LEMMA ReadersAreMadeSoundly ==
  RoundTripInit => ReaderIsUsedSoundly
<1> SUFFICES ASSUME RoundTripInit PROVE ReaderIsUsedSoundly
  OBVIOUS
<1>1. BuilderIsUsedSoundly
  BY BuilderIsMadeSoundly
<1>2. \/ phase \in {"serialize", "build"} /\ visitor = "value" /\ checks = TRUE
      \/ phase = "deserialize" /\ D!Init
  BY DEF RoundTripInit, NoReader
<1>3. CASE phase \in {"serialize", "build"} /\ visitor = "value" /\ checks = TRUE
  BY <1>1, <1>3 DEF ReaderIsUsedSoundly
<1>4. CASE phase = "deserialize" /\ D!Init
  <2>1. Given
    BY <1>4, InitGives
  <2> QED
    BY <1>1, <1>4, <2>1, GivenIInv DEF ReaderIsUsedSoundly, Given
<1> QED
  BY <1>2, <1>3, <1>4

(* Whatever is handed over, the invariant of the reader it is given to     *)
(* holds while that reader is at work.                                     *)
THEOREM ReadersAreUsedSoundly ==
  ASSUME Start = Existing
  PROVE  RoundTripSpec => [](IInv /\ ReaderIsUsedSoundly)
<1>1. RoundTripSpec => []IInv
  BY RoundTripSerializes, Invariant, PTL
<1> QED
  BY <1>1, ReadersAreMadeSoundly, ReadersStaySound, PTL DEF RoundTripSpec

(* A parser reads nothing behind the slice it was made of, and the frames  *)
(* it links end within it, whatever was written and whatever is asked for. *)
THEOREM ParserStaysInside ==
  ASSUME Start = Existing
  PROVE  RoundTripSpec => [](phase = "parse" => P!StaysInside)
<1>1. ReaderIsUsedSoundly => (phase = "parse" => P!StaysInside)
  <2> SUFFICES ASSUME ReaderIsUsedSoundly, phase = "parse"
               PROVE  P!StaysInside
    OBVIOUS
  <2>1. FramesInside(frames) /\ at <= Len(input) + 7
    BY DEF ReaderIsUsedSoundly, ParserReadsInside
  <2>2. DOMAIN frames = 1 .. Len(frames)
    BY <2>1, ListedLength DEF FramesInside
  <2>3. \A i \in DOMAIN frames : frames[i].at + 8 + frames[i].size <= Len(input)
    BY <2>1, <2>2, Zenon DEF FramesInside, ParserFrame
  <2> QED
    BY <2>1, <2>3, Zenon DEF P!StaysInside
<1> QED
  BY <1>1, ReadersAreUsedSoundly, PTL

(* A struct or object in what was written, or in any slice, is only ever   *)
(* left where its header says it ends.                                     *)
THEOREM WrittenIsLeftAtItsEnd ==
  ASSUME Start = Existing
  PROVE  RoundTripSpec => LeftAtItsEnd
<1>1. IInv /\ ReaderIsUsedSoundly /\ [RoundTripNext]_roundTripVars
        => [Deserialize => (D!InFields /\ Len(frames') < Len(frames) /\ state' \in {"ok", "done"}
                              => at = frames[1].end /\ at' = at)]_roundTripVars
  <2> SUFFICES ASSUME ReaderIsUsedSoundly, Deserialize,
                      D!InFields, Len(frames') < Len(frames), state' \in {"ok", "done"}
               PROVE  at = frames[1].end /\ at' = at
    OBVIOUS
  <2>1. D!IInv /\ D!Next
    BY DEF Deserialize, ReaderIsUsedSoundly
  <2> QED
    BY <2>1, LeftByEnd
<1> QED
  BY <1>1, ReadersAreUsedSoundly, PTL DEF RoundTripSpec, LeftAtItsEnd

(* The serializer's books are as exact in the composition, and its end()   *)
(* seeks back to where it was.                                             *)
THEOREM WriterKeepsItsBooks ==
  ASSUME Start = Existing
  PROVE  RoundTripSpec => []CountersAreExact /\ EndSeeksBack
BY RoundTripSerializes, CountersExact, SeeksBack, PTL
=============================================================================
