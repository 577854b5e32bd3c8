------------------------------ MODULE NdArrays ------------------------------
(***************************************************************************)
(* Arrays between two nodes: the formats of libspa/src/param/format.rs and *)
(* the buffers of pipewire/src/buffer/ndarray.rs.  One side offers a       *)
(* format with alternatives, the native filter settles each of them, both  *)
(* sides read the settled format back, and then the producer writes whole  *)
(* arrays into a buffer that the consumer reads.                           *)
(*                                                                         *)
(* A result is a record with one of ok and error a sequence of one value.  *)
(***************************************************************************)
EXTENDS Integers, Sequences, Functions

CONSTANTS IntMax,      \* the largest i32; a u32 is up to 2 * IntMax + 1
          UsizeMax,    \* the largest usize
          Elements,    \* element types that are tried,
          Shapes,      \* shapes,
          Layouts,     \* layouts,
          Rates,       \* and rates, pairs of u32
          RateChoices,     \* rate choices: [kind, values]
          Alternatives,\* lists of alternative element types
          LayoutLists, \* and of alternative layouts
          MaxSizes,    \* sizes of mapped data
          Addresses,   \* where data is mapped, modulo the largest alignment
          Chunks       \* what a foreign producer writes as a chunk

U32Max == 2 * IntMax + 1

ASSUME WidthAssumption ==
    /\ IntMax \in Nat \ {0} /\ UsizeMax \in Nat /\ UsizeMax >= U32Max
    /\ MaxSizes \subseteq 0 .. U32Max /\ Addresses \subseteq Nat

\* A dimension and the parts of a fraction are u32; a range has two ends, and a
\* step one value more.
ASSUME ValueAssumption ==
    /\ \A shape \in Shapes : shape \in Seq(Nat) /\ \A a \in DOMAIN shape : shape[a] <= U32Max
    /\ Rates \subseteq (0 .. U32Max) \X (0 .. U32Max)
    /\ \A list \in Alternatives \cup LayoutLists : list \in Seq(STRING)
    /\ \A c \in RateChoices :
          /\ c.kind \in {"Enum", "Range", "Step"} /\ c.values \in Seq((0 .. U32Max) \X (0 .. U32Max))
          /\ Len(c.values) >= CASE c.kind = "Enum" -> 0 [] c.kind = "Range" -> 2
                                [] c.kind = "Step" -> 3

\* A chunk of spa_chunk: two u32, an i32, and flags.
ASSUME ChunkAssumption ==
    Chunks \subseteq [offset : 0 .. U32Max, size : 0 .. U32Max,
                      stride : -IntMax - 1 .. IntMax, flags : SUBSET {"CORRUPTED", "EMPTY"}]

Side == {"producer", "consumer"}
Profile == {"NdArray", "Vector", "Matrix"}

VARIABLES offer,    \* the enumerated format of the producer, if there is one
          fixed,    \* the settled properties, and whether a peer spoiled them
          read,     \* what each side made of them
          buffer,   \* the buffer both have mapped
          holder,   \* who has dequeued it
          view      \* what output() or input() returned to the holder

vars == <<offer, fixed, read, buffer, holder, view>>

Ok(v) == [ok |-> <<v>>, error |-> <<>>]
Err(e) == [ok |-> <<>>, error |-> e]
IsOk(r) == r.error = <<>>

FirstOf(errors) ==
    LET bad == {i \in DOMAIN errors : errors[i] # <<>>}
    IN  IF bad = {} THEN <<>>
        ELSE errors[CHOOSE i \in bad : \A j \in bad : i <= j]

-----------------------------------------------------------------------------
(* Element types, values and properties.                                   *)

ElementsOfSize(n) ==
    CASE n = 1 -> {"Bool8", "I8", "U8", "F8E4M3Fn", "F8E4M3Fnuz", "F8E5M2", "F8E5M2Fnuz"}
      [] n = 2 -> {"I16Le", "U16Le", "F16Le", "Bf16Le"}
      [] n = 4 -> {"I32Le", "U32Le", "F32Le", "ComplexF16Le", "ComplexBf16Le"}
      [] n = 8 -> {"I64Le", "U64Le", "F64Le", "ComplexF32Le"}
      [] n = 16 -> {"I128Le", "U128Le", "F128Le", "ComplexF64Le"}
      [] n = 32 -> {"ComplexF128Le"}

Sizes == {1, 2, 4, 8, 16, 32}
HasSize(e) == \E n \in Sizes : e \in ElementsOfSize(n)
ElementSize(e) == CHOOSE n \in Sizes : e \in ElementsOfSize(n)

\* The element types a Rust scalar stands for.
RustElements == {"I8", "U8", "I16Le", "U16Le", "I32Le", "U32Le", "I64Le", "U64Le",
                 "I128Le", "U128Le", "F32Le", "F64Le"}

Packed == {"RowMajor", "ColumnMajor"}

Value(type, choice, values) == [type |-> type, choice |-> choice, values |-> values]
Property(key, value) == [key |-> key, value |-> value]
Required == {"MediaType", "MediaSubtype", "ElementType", "Shape", "Layout"}

PropertyValue(properties, key, required) ==
    LET at == {i \in DOMAIN properties : properties[i].key = key}
    IN  IF \E i, j \in at : i # j THEN Err(<<"DuplicateProperty", key>>)
        ELSE IF at # {} THEN Ok(<<properties[CHOOSE i \in at : TRUE].value>>)
        ELSE IF required THEN Err(<<"MissingProperty", key>>)
        ELSE Ok(<<>>)

FixedOf(type, value) ==
    IF value.type = type /\ value.choice \in {"Plain", "None"} THEN value.values ELSE <<>>

FixedId(value) == FixedOf("Id", value)
FixedFraction(value) == FixedOf("Fraction", value)

-----------------------------------------------------------------------------
(* Formats.                                                                *)

FractionIsPositive(f) == f[1] # 0 /\ f[2] # 0
FractionLeq(f, g) == f[1] * g[2] <= g[1] * f[2]

Product(shape) ==
    LET upTo[i \in 0 .. Len(shape)] == IF i = 0 THEN 1 ELSE upTo[i - 1] * shape[i]
    IN  upTo[Len(shape)]

ElementCount(format) == Product(format.shape)
ByteCount(format) == ElementCount(format) * ElementSize(format.element)

\* The bug to be ruled out: a dimension is only tested as a u32.
AxisErrorUnsigned(shape, axis) ==
    IF shape[axis] = 0 THEN <<"ZeroDimension", axis>>
    ELSE IF Product(SubSeq(shape, 1, axis)) > UsizeMax THEN <<"ElementCountOverflow">>
    ELSE <<>>

AxisError(shape, axis) ==
    IF shape[axis] = 0 THEN <<"ZeroDimension", axis>>
    ELSE IF shape[axis] > IntMax THEN <<"DimensionTooLarge", axis>>
    ELSE IF Product(SubSeq(shape, 1, axis)) > UsizeMax THEN <<"ElementCountOverflow">>
    ELSE <<>>

NewFormat(element, shape, layout, rate) ==
    LET format == [element |-> element, shape |-> shape, layout |-> layout, rate |-> rate]
        axes == FirstOf([a \in DOMAIN shape |-> AxisError(shape, a)])
    IN  IF ~HasSize(element) THEN Err(<<"UnsupportedElementType">>)
        ELSE IF layout \notin Packed THEN Err(<<"UnsupportedLayout">>)
        ELSE IF rate # <<>> /\ ~FractionIsPositive(Head(rate)) THEN Err(<<"InvalidRate">>)
        ELSE IF shape = <<>> THEN Err(<<"EmptyShape">>)
        ELSE IF axes # <<>> THEN Err(axes)
        ELSE IF ByteCount(format) > UsizeMax THEN Err(<<"ByteCountOverflow">>)
        ELSE Ok(format)

\* A u32 written as an i32, and an i32 read as a u32.
AsInt(d) == IF d > IntMax THEN d - (U32Max + 1) ELSE d

FormatProperties(format) ==
    <<Property("MediaType", Value("Id", "Plain", <<"Application">>)),
      Property("MediaSubtype", Value("Id", "Plain", <<"NdArray">>)),
      Property("ElementType", Value("Id", "Plain", <<format.element>>)),
      Property("Shape", Value("IntArray", "Plain",
                              [a \in DOMAIN format.shape |-> AsInt(format.shape[a])])),
      Property("Layout", Value("Id", "Plain", <<format.layout>>))>>
    \o [i \in DOMAIN format.rate |->
           Property("Rate", Value("Fraction", "Plain", format.rate))]

\* The value of a required Id property, which must be settled.
ReadId(properties, key) ==
    LET found == PropertyValue(properties, key, TRUE)
    IN  IF ~IsOk(found) THEN found
        ELSE LET id == FixedId(Head(Head(found.ok)))
             IN  IF id = <<>> THEN Err(<<"InvalidProperty", key>>) ELSE Ok(Head(id))

ReadMedia(properties, key, expected) ==
    LET found == ReadId(properties, key)
    IN  IF IsOk(found) /\ Head(found.ok) # expected THEN Err(<<"InvalidProperty", key>>)
        ELSE found

ReadShape(properties) ==
    LET found == PropertyValue(properties, "Shape", TRUE)
    IN  IF ~IsOk(found) THEN found
        ELSE LET value == Head(Head(found.ok))
             IN  IF value.type # "IntArray" \/ \E a \in DOMAIN value.values : value.values[a] < 0
                 THEN Err(<<"InvalidProperty", "Shape">>)
                 ELSE Ok(value.values)

ReadRate(properties) ==
    LET found == PropertyValue(properties, "Rate", FALSE)
    IN  IF ~IsOk(found) \/ Head(found.ok) = <<>> THEN found
        ELSE LET rate == FixedFraction(Head(Head(found.ok)))
             IN  IF rate = <<>> THEN Err(<<"InvalidProperty", "Rate">>) ELSE Ok(rate)

FromProperties(properties) ==
    LET media == ReadMedia(properties, "MediaType", "Application")
        subtype == ReadMedia(properties, "MediaSubtype", "NdArray")
        element == ReadId(properties, "ElementType")
        shape == ReadShape(properties)
        layout == ReadId(properties, "Layout")
        rate == ReadRate(properties)
        error == FirstOf(<<media.error, subtype.error, element.error,
                           shape.error, layout.error, rate.error>>)
    IN  IF error # <<>> THEN Err(error)
        ELSE NewFormat(Head(element.ok), Head(shape.ok), Head(layout.ok), Head(rate.ok))

\* VectorFormat and MatrixFormat: a rank, and one layout for a vector.
Rank(profile) == IF profile = "Vector" THEN 1 ELSE 2

FromProfile(profile, properties) ==
    LET format == FromProperties(properties)
    IN  IF profile = "NdArray" \/ ~IsOk(format) THEN format
        ELSE IF Len(Head(format.ok).shape) # Rank(profile)
        THEN Err(<<"WrongRank", Rank(profile), Len(Head(format.ok).shape)>>)
        ELSE IF profile = "Vector" /\ Head(format.ok).layout # "RowMajor"
        THEN Err(<<"NonCanonicalVectorLayout">>)
        ELSE format

NewProfile(profile, element, shape, layout, rate) ==
    IF \/ profile # "NdArray" /\ Len(shape) # Rank(profile)
       \/ profile = "Vector" /\ layout # "RowMajor"
    THEN Err(<<"NoSuchConstructor">>)
    ELSE NewFormat(element, shape, layout, rate)

-----------------------------------------------------------------------------
(* Enumerated formats.                                                     *)

ValidRateChoice(default, choice) ==
    /\ default # <<>>
    /\ \A i \in DOMAIN choice.values : FractionIsPositive(choice.values[i])
    /\ IF choice.kind = "Enum" THEN choice.values # <<>>
       ELSE /\ FractionLeq(choice.values[1], Head(default))
            /\ FractionLeq(Head(default), choice.values[2])

\* Enum choices repeat the default as the first alternative.
WithChoice(property, kind, alternatives) ==
    LET default == Head(property.value.values)
    IN  [property EXCEPT !.value =
           Value(@.type, kind,
                 <<default>> \o (IF kind = "Enum" THEN <<default>> ELSE <<>>) \o alternatives)]

EnumProperties(enum) ==
    LET WithIds(property, alternatives) ==
            IF alternatives = <<>> THEN property ELSE WithChoice(property, "Enum", alternatives)
        Alternated(property) ==
            CASE property.key = "ElementType" -> WithIds(property, enum.elements)
              [] property.key = "Layout" -> WithIds(property, enum.layouts)
              [] property.key = "Rate" /\ enum.rateChoice # <<>> ->
                    WithChoice(property, Head(enum.rateChoice).kind, Head(enum.rateChoice).values)
              [] OTHER -> property
        plain == FormatProperties(enum.default)
    IN  [i \in DOMAIN plain |-> Alternated(plain[i])]

\* What the native filter may settle a value to: one of an enumeration, a
\* bound or the default of a range.
Settlements(value) ==
    CASE value.choice \in {"Plain", "None"} -> {value.values}
      [] value.choice = "Enum" -> {<<v>> : v \in Range(Tail(value.values))}
      [] OTHER -> {<<v>> : v \in Range(SubSeq(value.values, 1, 3))}

SettledAs(all, wrapped, e, l, r) ==
    LET Settled(p, values) ==
            Property(p.key, Value(p.value.type,
                IF wrapped /\ p.value.type # "IntArray" THEN "None" ELSE "Plain", values))
    IN  [i \in DOMAIN all |-> Settled(all[i], CASE i = 3 -> e [] i = 5 -> l [] i = 6 -> r
                                               [] OTHER -> all[i].value.values)]

-----------------------------------------------------------------------------
(* The producer offers; the native filter settles; both sides read.        *)

Init ==
    /\ offer = <<>> /\ fixed = <<>> /\ buffer = <<>>
    /\ read = [s \in Side |-> <<>>]
    /\ holder = "producer" /\ view = <<>>

Offer(profile, element, shape, layout, rate) ==
    LET format == NewProfile(profile, element, shape, layout, rate)
    IN  /\ offer = <<>> /\ buffer = <<>> /\ IsOk(format)
        /\ offer' = <<[profile |-> profile, default |-> Head(format.ok),
                       elements |-> <<>>, layouts |-> <<>>, rateChoice |-> <<>>]>>
        /\ UNCHANGED <<fixed, read, buffer, holder, view>>

\* The setters take the format by value: a refused one is gone.
WithElements(alternatives) ==
    /\ offer # <<>> /\ fixed = <<>>
    /\ offer' = IF \A i \in DOMAIN alternatives : HasSize(alternatives[i])
                THEN [offer EXCEPT ![1].elements = alternatives] ELSE <<>>
    /\ UNCHANGED <<fixed, read, buffer, holder, view>>

WithLayouts(alternatives) ==
    /\ offer # <<>> /\ fixed = <<>> /\ offer[1].profile # "Vector"
    /\ offer' = IF Range(alternatives) \subseteq Packed
                THEN [offer EXCEPT ![1].layouts = alternatives] ELSE <<>>
    /\ UNCHANGED <<fixed, read, buffer, holder, view>>

WithRateChoice(choice) ==
    /\ offer # <<>> /\ fixed = <<>>
    /\ offer' = IF ValidRateChoice(offer[1].default.rate, choice)
                THEN [offer EXCEPT ![1].rateChoice = <<choice>>] ELSE <<>>
    /\ UNCHANGED <<fixed, read, buffer, holder, view>>

\* Settled values may stay wrapped in a choice of one; an application adds
\* properties of its own.
Settle(wrapped, added) ==
    /\ offer # <<>> /\ fixed = <<>>
    /\ LET all == EnumProperties(offer[1])
       IN  \E e \in Settlements(all[3].value), l \in Settlements(all[5].value),
              r \in IF Len(all) = 6 THEN Settlements(all[6].value) ELSE {<<>>} :
              fixed' = <<[properties |-> SettledAs(all, wrapped, e, l, r) \o added,
                          spoiled |-> FALSE]>>
    /\ UNCHANGED <<offer, read, buffer, holder, view>>

\* A peer that is not careful: a property left out, given twice, left a
\* choice, or a dimension below zero.  What is settled looks alike whatever the
\* alternatives were, so that it is enough to spoil an offer without any.
Spoil(i, how) ==
    /\ fixed # <<>> /\ ~fixed[1].spoiled /\ read = [s \in Side |-> <<>>]
    /\ offer[1].elements = <<>> /\ offer[1].layouts = <<>> /\ offer[1].rateChoice = <<>>
    /\ i \in DOMAIN fixed[1].properties
    /\ LET ps == fixed[1].properties
           key == ps[i].key
       IN  /\ key \in Required \cup {"Rate"}
           /\ fixed' = <<[spoiled |-> TRUE, properties |->
                 CASE how = "left out" -> SubSeq(ps, 1, i - 1) \o SubSeq(ps, i + 1, Len(ps))
                   [] how = "twice" -> Append(ps, ps[i])
                   [] how = "open" -> [ps EXCEPT ![i].value.choice = "Enum"]
                   [] how = "negative" -> [ps EXCEPT ![i].value.values[1] = -1]]>>
           /\ how = "left out" => key \in Required
           /\ how = "open" => key # "Shape"
           /\ how = "negative" => key = "Shape"
    /\ UNCHANGED <<offer, read, buffer, holder, view>>

ReadFormat(side, profile) ==
    /\ fixed # <<>> /\ read[side] = <<>>
    /\ side = "producer" => profile = offer[1].profile
    /\ read' = [read EXCEPT ![side] =
                  <<[profile |-> profile, result |-> FromProfile(profile, fixed[1].properties)]>>]
    /\ UNCHANGED <<offer, fixed, buffer, holder, view>>

Agreed == \A s \in Side : read[s] # <<>> /\ IsOk(read[s][1].result)
FormatOf(side) == Head(read[side][1].result.ok)

-----------------------------------------------------------------------------
(* Buffers.  A chunk is [offset, size, stride, flags]; data is mapped at   *)
(* an address of its own on each side, or not at all.                      *)

NoData == -1
CleanChunk == [offset |-> 0, size |-> 0, stride |-> 0, flags |-> {}]

\* The native side allocates buffers for the format; the parameters have
\* done their work.
Allocate(maxSize, address) ==
    /\ Agreed /\ buffer = <<>> /\ fixed # <<>>
    /\ buffer' = <<[maxSize |-> maxSize, address |-> address, chunk |-> CleanChunk,
                    written |-> <<>>]>>
    /\ offer' = <<>> /\ fixed' = <<>>
    /\ UNCHANGED <<read, holder, view>>

Stride(format) ==
    LET dimension == IF format.layout = "RowMajor"
                     THEN format.shape[Len(format.shape)] ELSE format.shape[1]
        bytes == dimension * ElementSize(format.element)
    IN  IF bytes > UsizeMax \/ bytes > IntMax THEN Err(<<"ChunkLayout">>) ELSE Ok(bytes)

Aligned(element, address) == address % ElementSize(element) = 0

\* The checks of output(), in the code's order, up to where it writes.
OutputError(format, element, mapped) ==
    FirstOf(<<IF format.element # element THEN <<"ElementType">> ELSE <<>>,
              Stride(format).error,
              IF mapped.address = NoData THEN <<"Data">> ELSE <<>>,
              IF ByteCount(format) > mapped.maxSize THEN <<"ChunkLayout">> ELSE <<>>,
              IF ~Aligned(element, mapped.address) THEN <<"Alignment">> ELSE <<>>>>)

\* The bug to be ruled out: the offset of the last user of the buffer stays.
PublishedChunkHere(chunk, format) ==
    [chunk EXCEPT !.size = ByteCount(format), !.stride = Head(Stride(format).ok), !.flags = {}]

PublishedChunk(chunk, format) ==
    [chunk EXCEPT !.offset = 0, !.size = ByteCount(format),
                  !.stride = Head(Stride(format).ok), !.flags = {}]

MappedFor(side) == [maxSize |-> buffer[1].maxSize, address |-> buffer[1].address[side]]

Output(element) ==
    LET format == FormatOf("producer")
        error == OutputError(format, element, MappedFor("producer"))
        extent == [start |-> 0, length |-> ByteCount(format)]
    IN  /\ buffer # <<>> /\ holder = "producer" /\ view = <<>>
        /\ IF error # <<>> THEN view' = <<Err(error)>> /\ UNCHANGED buffer
           ELSE /\ view' = <<Ok(extent)>>
                /\ buffer' = [buffer EXCEPT ![1].chunk = PublishedChunk(@, format),
                                            ![1].written = <<extent>>]
        /\ UNCHANGED <<offer, fixed, read, holder>>

\* Another producer, not of this crate, fills the buffer its own way.
ForeignOutput(chunk) ==
    /\ buffer # <<>> /\ holder = "producer" /\ view = <<>>
    /\ buffer' = [buffer EXCEPT ![1].chunk = chunk, ![1].written = <<>>]
    /\ UNCHANGED <<offer, fixed, read, holder, view>>

\* The checks of input(): Data twice, before and after the chunk's.
InputError(format, element, mapped, chunk) ==
    LET stride == Stride(format)
    IN  FirstOf(<<IF format.element # element THEN <<"ElementType">> ELSE <<>>,
                  stride.error,
                  IF chunk.flags \cap {"CORRUPTED", "EMPTY"} # {} THEN <<"ChunkFlags">> ELSE <<>>,
                  IF \/ chunk.size # ByteCount(format)
                     \/ IsOk(stride) /\ chunk.stride \notin {0, Head(stride.ok)}
                  THEN <<"ChunkLayout">> ELSE <<>>,
                  IF mapped.address = NoData \/ mapped.maxSize = 0 THEN <<"Data">> ELSE <<>>>>)

InputResult(format, element, mapped, chunk) ==
    LET error == InputError(format, element, mapped, chunk)
    IN  IF error # <<>> THEN Err(error)
        ELSE LET start == chunk.offset % mapped.maxSize
             IN  IF start + ByteCount(format) > mapped.maxSize THEN Err(<<"ChunkLayout">>)
                 ELSE IF ~Aligned(element, mapped.address + start) THEN Err(<<"Alignment">>)
                 ELSE Ok([start |-> start, length |-> ByteCount(format)])

Input(element) ==
    /\ buffer # <<>> /\ holder = "consumer" /\ view = <<>>
    /\ view' = <<InputResult(FormatOf("consumer"), element, MappedFor("consumer"),
                             buffer[1].chunk)>>
    /\ UNCHANGED <<offer, fixed, read, buffer, holder>>

\* Dropping the buffer returns it; the other side dequeues it.
Queue ==
    /\ buffer # <<>>
    /\ holder' = IF holder = "producer" THEN "consumer" ELSE "producer"
    /\ view' = <<>>
    /\ UNCHANGED <<offer, fixed, read, buffer>>

-----------------------------------------------------------------------------
Added == LET own == Property("Application", Value("Id", "Plain", <<"Mirror">>))
         IN  <<own, own>>

Next ==
    \/ \E p \in Profile, e \in Elements, s \in Shapes, l \in Layouts,
          r \in {<<>>} \cup {<<f>> : f \in Rates} : Offer(p, e, s, l, r)
    \/ \E a \in Alternatives : WithElements(a)
    \/ \E a \in LayoutLists : WithLayouts(a)
    \/ \E c \in RateChoices : WithRateChoice(c)
    \/ Settle(FALSE, <<>>) \/ Settle(TRUE, Added)
    \/ \E i \in 1 .. 6, how \in {"left out", "twice", "open", "negative"} : Spoil(i, how)
    \/ \E s \in Side, p \in Profile : ReadFormat(s, p)
    \/ \E m \in MaxSizes, a \in [Side -> Addresses \cup {NoData}] : Allocate(m, a)
    \/ \E e \in RustElements \cap Elements : Output(e) \/ Input(e)
    \/ \E c \in Chunks : ForeignOutput(c)
    \/ Queue

Spec == Init /\ [][Next]_vars

-----------------------------------------------------------------------------
Offers(enum, format) ==
    /\ format.shape = enum.default.shape
    /\ format.element \in {enum.default.element} \cup Range(enum.elements)
    /\ format.layout \in {enum.default.layout} \cup Range(enum.layouts)
    /\ IF enum.rateChoice = <<>> THEN format.rate = enum.default.rate
       ELSE LET choice == Head(enum.rateChoice)
            IN  IF choice.kind = "Enum"
                THEN Head(format.rate) \in {Head(enum.default.rate)} \cup Range(choice.values)
                ELSE /\ FractionLeq(choice.values[1], Head(format.rate))
                     /\ FractionLeq(Head(format.rate), choice.values[2])

\* Why a side may refuse what was settled with care: it wanted another rank,
\* or the element type that was chosen is wider than the default, which is the
\* only one whose byte count was looked at (format.rs:690).
MayRefuse(enum, profile, error) ==
    \/ error[1] = "WrongRank" /\ Len(enum.default.shape) # Rank(profile)
    \/ error[1] = "NonCanonicalVectorLayout" /\ profile = "Vector"
       /\ "ColumnMajor" \in {enum.default.layout} \cup Range(enum.layouts)
    \/ error[1] = "ByteCountOverflow" /\ \E i \in DOMAIN enum.elements :
          ElementSize(enum.elements[i]) > ElementSize(enum.default.element)

\* Whatever of an offer the native filter settles, wrapped or not, with
\* properties of an application or without, both sides read as the same format,
\* which the producer did offer and whose bytes can be counted; what a peer
\* spoiled nobody accepts, and what it did not nobody refuses without a reason
\* (NdArrayFormat::from_properties against NdArrayEnumFormat::properties).
AgreedIsOffered ==
    offer # <<>> => \A s \in Side : read[s] # <<>> =>
        LET r == read[s][1].result
        IN  IF IsOk(r)
            THEN /\ ~fixed[1].spoiled
                 /\ Offers(offer[1], Head(r.ok))
                 /\ ByteCount(Head(r.ok)) <= UsizeMax
                 /\ Agreed => FormatOf("producer") = FormatOf("consumer")
            ELSE fixed[1].spoiled \/ MayRefuse(offer[1], read[s][1].profile, r.error)

\* What output() published, input() finds: the same bytes, unless the consumer
\* asks for another type or has mapped the data where the type cannot be
\* read.  Whoever filled the buffer, a slice lies inside the data, at an aligned
\* address, and is a whole array (ndarray::input, ndarray::output).
WrittenIsRead ==
    buffer # <<>> /\ view # <<>> =>
        LET b == buffer[1]
            format == FormatOf(holder)
            address == b.address[holder]
        IN  IF IsOk(view[1])
            THEN LET extent == Head(view[1].ok)
                 IN  /\ extent.start + extent.length <= b.maxSize
                     /\ extent.length = ByteCount(format)
                     /\ Aligned(format.element, address + extent.start)
                     /\ b.written # <<>> => extent = Head(b.written)
            ELSE b.written # <<>> /\ holder = "consumer" =>
                 \/ view[1].error = <<"ElementType">>
                 \/ view[1].error = <<"Data">> /\ address = NoData
                 \/ view[1].error = <<"Alignment">> /\ ~Aligned(format.element, address)

=============================================================================
