------------------------------ MODULE CyclicIO ------------------------------
(***************************************************************************)
(* Packed cyclic I/O images                                                *)
(* (src/src/twinforge/analysis/cyclic_io.py and                            *)
(* src/src/twinforge/runtime/cyclic_io.py): the members of a data type are *)
(* laid out one after the other, bit members over the word they belong to; *)
(* the layout is validated against the size of the connection; values are  *)
(* encoded over a base image, words first and bits after them; and an      *)
(* image is decoded into values.  A byte has ByteBits bits.                *)
(***************************************************************************)
EXTENDS Integers, Sequences, SequencesExt

CONSTANTS
    ByteBits,     \* bits of a byte, 8 in the code
    Contracts,    \* [members, size, order]: a data type's members [name, type,
                  \* target, bit], the size of the image and its byte order
    Samples       \* assignments of values to names, offered to encode in part

VARIABLES
    contract,
    fields,       \* the layout so far
    offset,       \* the end of the words laid out
    offsets,      \* word -> <<offset, size>>
    base,         \* the image encode starts from
    image,        \* the image as encode leaves it
    values,       \* what encode was asked to write
    todo,         \* the names it has not written yet
    decoded,      \* what decode returns for the image
    phase         \* "layout", "ready", "words", "bits", "image", "decoded", "error"

vars == <<contract, fields, offset, offsets, base, image, values, todo, decoded, phase>>

NoTarget == "none"
NoValues == [n \in {} |-> 0]

------------------------------------------------------------------------------
(* Words. *)

_atomic_size ==
    [t \in {"BOOL", "SINT", "INT", "DINT", "REAL", "LINT"} |->
        CASE t \in {"BOOL", "SINT"} -> 1 [] t = "INT" -> 2 [] t \in {"DINT", "REAL"} -> 4 [] OTHER -> 0]

_is_signed(type) == type \in {"SINT", "INT", "DINT", "LINT"}

Radix(bytes) == 2 ^ (ByteBits * bytes)

IsOverlay(f) == f.target # NoTarget

Field(name) == CHOOSE f \in Range(fields) : f.name = name

Slice(f) == (f.offset + 1)..(f.offset + f.size)

\* The significance of byte i of a field.
Place(f, i) ==
    IF contract.order = "little" THEN i - f.offset - 1 ELSE f.offset + f.size - i

FromBytes(f, bytes) ==
    FoldLeft(LAMBDA sum, i : sum + bytes[i] * Radix(Place(f, i)), 0, SetToSeq(Slice(f)))

Signed(f, word) ==
    IF _is_signed(f.type) /\ 2 * word >= Radix(f.size) THEN word - Radix(f.size) ELSE word

\* to_bytes of a word in range, at its place in the image.
ToBytes(f, word) ==
    [i \in DOMAIN image |->
        IF i \in Slice(f) THEN (word \div Radix(Place(f, i))) % Radix(1) ELSE image[i]]

Fits(f, value) ==
    IF _is_signed(f.type) THEN -Radix(f.size) <= 2 * value /\ 2 * value < Radix(f.size)
    ELSE 0 <= value /\ value < Radix(f.size)

BitOf(word, bit) == (word \div 2 ^ bit) % 2

Init ==
    /\ contract \in Contracts
    /\ fields = <<>> /\ offset = 0 /\ offsets = <<>>
    /\ base = <<>> /\ image = <<>>
    /\ values = NoValues /\ todo = {}
    /\ decoded = NoValues
    /\ phase = "layout"

\* One member of _layout: a bit takes the bounds of the word named before it, a word
\* follows all words before it.
Layout ==
    LET m == contract.members[Len(fields) + 1]
        bounds == IF m.target \in DOMAIN offsets THEN offsets[m.target] ELSE <<0, 0>>
        size == _atomic_size[m.type]
    IN  /\ phase = "layout" /\ Len(fields) < Len(contract.members)
        /\ \/ /\ m.target # NoTarget
              /\ fields' = Append(fields,
                    [name |-> m.name, type |-> m.type, target |-> m.target, bit |-> m.bit,
                     offset |-> bounds[1], size |-> bounds[2]])
              /\ UNCHANGED <<offset, offsets>>
           \/ /\ m.target = NoTarget
              /\ fields' = Append(fields,
                    [name |-> m.name, type |-> m.type, target |-> NoTarget, bit |-> -1,
                     offset |-> offset, size |-> size])
              /\ offsets' = [n \in DOMAIN offsets \cup {m.name} |->
                               IF n = m.name THEN <<offset, size>> ELSE offsets[n]]
              /\ offset' = offset + size
        /\ UNCHANGED <<contract, base, image, values, todo, decoded, phase>>

\* __post_init__.
Valid ==
    /\ contract.size > 0
    /\ \A i, j \in DOMAIN fields : fields[i].name = fields[j].name => i = j
    /\ \A f \in Range(fields) :
        /\ f.offset >= 0 /\ f.size > 0
        /\ f.offset + f.size <= contract.size
        /\ IsOverlay(f) =>
              /\ \E g \in Range(fields) : ~IsOverlay(g) /\ g.name = f.target
              /\ f.bit \in 0..(f.size * ByteBits - 1)

Validate ==
    /\ phase = "layout" /\ Len(fields) = Len(contract.members)
    /\ phase' = IF Valid THEN "ready" ELSE "error"
    /\ UNCHANGED <<contract, fields, offset, offsets, base, image, values, todo, decoded>>

\* A call of encode: the base has the size of the image and every name is a field's.
Encode(bytes, request) ==
    /\ phase = "ready"
    /\ IF Len(bytes) = contract.size /\ DOMAIN request \subseteq {f.name : f \in Range(fields)}
       THEN /\ base' = bytes /\ image' = bytes
            /\ values' = request
            /\ todo' = DOMAIN request
            /\ phase' = "words"
       ELSE phase' = "error" /\ UNCHANGED <<base, image, values, todo>>
    /\ UNCHANGED <<contract, fields, offset, offsets, decoded>>

\* The words, in the order of the caller's mapping; one that does not fit ends the call.
WriteWord(n) ==
    LET f == Field(n)
    IN  /\ phase = "words" /\ n \in todo /\ ~IsOverlay(f)
        /\ IF Fits(f, values[n])
           THEN image' = ToBytes(f, values[n] % Radix(f.size)) /\ UNCHANGED phase
           ELSE phase' = "error" /\ UNCHANGED image
        /\ todo' = todo \ {n}
        /\ UNCHANGED <<contract, fields, offset, offsets, base, values, decoded>>

WordsWritten ==
    /\ phase = "words" /\ \A n \in todo : IsOverlay(Field(n))
    /\ phase' = "bits"
    /\ UNCHANGED <<contract, fields, offset, offsets, base, image, values, todo, decoded>>

\* Mutant: the word is read from the base image.
WriteBitStale(n) ==
    LET f == Field(n)
        word == FromBytes(f, base)
        on == IF values[n] # 0 THEN 1 ELSE 0
    IN  /\ phase = "bits" /\ n \in todo /\ IsOverlay(f)
        /\ image' = ToBytes(f, word + (on - BitOf(word, f.bit)) * 2 ^ f.bit)
        /\ todo' = todo \ {n}
        /\ UNCHANGED <<contract, fields, offset, offsets, base, values, decoded, phase>>

\* A bit is set or cleared in the word it lies over, read without its sign.
WriteBit(n) ==
    LET f == Field(n)
        word == FromBytes(f, image)
        on == IF values[n] # 0 THEN 1 ELSE 0
    IN  /\ phase = "bits" /\ n \in todo /\ IsOverlay(f)
        /\ image' = ToBytes(f, word + (on - BitOf(word, f.bit)) * 2 ^ f.bit)
        /\ todo' = todo \ {n}
        /\ UNCHANGED <<contract, fields, offset, offsets, base, values, decoded, phase>>

BitsWritten ==
    /\ phase = "bits" /\ todo = {}
    /\ phase' = "image"
    /\ UNCHANGED <<contract, fields, offset, offsets, base, image, values, todo, decoded>>

\* The value decode gives a field.
DecodedValue(f, bytes) ==
    IF IsOverlay(f) THEN BitOf(FromBytes(f, bytes), f.bit) ELSE Signed(f, FromBytes(f, bytes))

Decode ==
    /\ phase = "image"
    /\ decoded' = [n \in {f.name : f \in Range(fields)} |-> DecodedValue(Field(n), image)]
    /\ phase' = "decoded"
    /\ UNCHANGED <<contract, fields, offset, offsets, base, image, values, todo>>

Finished == phase \in {"decoded", "error"} /\ UNCHANGED vars

Next ==
    \/ Layout \/ Validate
    \/ \E byte \in 0..(Radix(1) - 1), short \in {0, 1}, sample \in Samples :
          \E asked \in SUBSET (DOMAIN sample) :
              Encode([i \in 1..(contract.size - short) |-> (byte * i) % Radix(1)],
                     [n \in asked |-> sample[n]])
    \/ \E n \in todo : WriteWord(n) \/ WriteBit(n)
    \/ WordsWritten \/ BitsWritten \/ Decode \/ Finished

Spec == Init /\ [][Next]_vars

------------------------------------------------------------------------------
\* What decode reads back is what encode was given, in either byte order: a word
\* reads as written, sign included, but for the bits that were written after it; a
\* bit reads as written and as the word has it; and what encode was not given reads
\* as in the base image.
RoundTrip ==
    phase = "decoded" =>
        \A f \in {g \in Range(fields) : ~IsOverlay(g)} :
            LET before == IF f.name \in DOMAIN values THEN values[f.name] ELSE DecodedValue(f, base)
                over(b) == {g \in Range(fields) : IsOverlay(g) /\ g.target = f.name /\ g.bit = b}
                written(b) == {g.name : g \in over(b)} \cap DOMAIN values
                read(b) == BitOf(decoded[f.name] % Radix(f.size), b)
                bits == 0..(f.size * ByteBits - 1)
            IN  /\ (\A b \in bits : written(b) = {}) => decoded[f.name] = before
                /\ \A b \in bits :
                      /\ IF written(b) = {} THEN read(b) = BitOf(before % Radix(f.size), b)
                         ELSE \E n \in written(b) : (read(b) = 1) <=> (values[n] # 0)
                      /\ \A g \in over(b) : decoded[g.name] = read(b)
=============================================================================
