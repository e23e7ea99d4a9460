------------------------------- MODULE Msgpack -------------------------------
(***************************************************************************)
(* The encoding of msgpack/msgpack.go: no tags, lengths and integers as    *)
(* varints, everything else by the type of the target.                     *)
(*                                                                         *)
(* A varint byte carries a digit below Half (2^7 in the program) and the   *)
(* flag that more follow; MaxLen bytes (10) hold the widest word.  Types   *)
(* is a table of type descriptors, and a type is its place in the table:   *)
(* the types of its parts come before it.  A struct is the pair of its     *)
(* first exported field and the rest, and ends with an empty one; bytes    *)
(* stands for strings and byte slices, and a map is the set of its         *)
(* entries.  Floats, arrays of bytes, and pointers, which go to the codec  *)
(* library, occur in no message.                                           *)
(***************************************************************************)
EXTENDS Integers, Sequences, FiniteSets, Functions

CONSTANTS Half, MaxLen, Types

ASSUME VarintAssumption == Half \in Nat \ {0, 1} /\ MaxLen \in Nat \ {0}

Byte    == 0..(2 * Half - 1)
TypeIds == DOMAIN Types

\* As many numbers fit k bytes, the last of which may hold one bit only.
Capacity[k \in Nat] == IF k <= 1 THEN 2 ELSE Half * Capacity[k - 1]

Wide   == Capacity[MaxLen]    \* 2^64
MaxInt == Wide \div 2 - 1

Bool            == [kind |-> "bool"]
Int_(limit)     == [kind |-> "int", limit |-> limit]    \* -limit .. limit - 1
Uint_(limit)    == [kind |-> "uint", limit |-> limit]   \* 0 .. limit - 1
Bytes           == [kind |-> "bytes"]
Empty           == [kind |-> "empty"]
Pair(first, rest) == [kind |-> "pair", first |-> first, rest |-> rest]
Slice(of)       == [kind |-> "slice", of |-> of]
Array(len, of)  == [kind |-> "array", len |-> len, of |-> of]
MapOf(key, val) == [kind |-> "map", key |-> key, val |-> val]

\* What may stand in place t of the table.
Descriptors(t) ==
  LET Part == 1..(t - 1) IN
  {Bool, Bytes, Empty}
    \cup {Int_(l) : l \in 1..(MaxInt + 1)} \cup {Uint_(l) : l \in 1..Wide}
    \cup {Slice(p) : p \in Part} \cup {Array(n, p) : n \in 0..MaxInt, p \in Part}
    \cup {Pair(p, q) : p, q \in Part} \cup {MapOf(p, q) : p, q \in Part}

ASSUME TypeAssumption ==
  /\ Len(Types) \in Nat /\ TypeIds = 1..Len(Types)
  /\ \A t \in TypeIds : Types[t] \in Descriptors(t)

-----------------------------------------------------------------------------
(* Values.                                                                 *)

Functional(m) == \A p, q \in m : p[1] = q[1] => p = q

ValuesOf(T, values) ==
  CASE T.kind = "bool"  -> BOOLEAN
    [] T.kind = "int"   -> (-T.limit)..(T.limit - 1)
    [] T.kind = "uint"  -> 0..(T.limit - 1)
    [] T.kind = "bytes" -> {s \in Seq(Byte) : Len(s) <= MaxInt}
    [] T.kind = "empty" -> {<<>>}
    [] T.kind = "pair"  -> values[T.first] \X values[T.rest]
    [] T.kind = "slice" -> {s \in Seq(values[T.of]) : Len(s) <= MaxInt}
    [] T.kind = "array" -> [1..T.len -> values[T.of]]
    [] T.kind = "map"   -> {m \in SUBSET (values[T.key] \X values[T.val]) :
                              Functional(m) /\ IsFiniteSet(m) /\ Cardinality(m) <= MaxInt}

Values[t \in TypeIds] == ValuesOf(Types[t], Values)

-----------------------------------------------------------------------------
(* Encoding.                                                               *)

UvarintLen[x \in Nat] == IF x < Half THEN 1 ELSE 1 + UvarintLen[x \div Half]

AppendUvarint[x \in Nat] ==
  IF x < Half THEN <<x>> ELSE <<(x % Half) + Half>> \o AppendUvarint[x \div Half]

Zigzag(n) == IF n >= 0 THEN 2 * n ELSE -(2 * n) - 1

Join(A, B) == {a \o b : a \in A, b \in B}

\* One after the other.
Items(enc, vs) ==
  LET items[i \in 0..Len(vs)] ==
        IF i = 0 THEN {<<>>} ELSE Join(items[i - 1], enc[vs[i]])
  IN  items[Len(vs)]

\* The orders an iterator may take.
Orders(m) == {s \in [1..Cardinality(m) -> m] : \A i, j \in DOMAIN s : s[i] = s[j] => i = j}

(* A map is written in whatever order its iterator takes, so a value has a *)
(* set of encodings.                                                       *)
EncodingsOf(T, v, encodings) ==
  CASE T.kind = "bool"  -> {<<IF v THEN 1 ELSE 0>>}
    [] T.kind = "int"   -> {AppendUvarint[Zigzag(v)]}
    [] T.kind = "uint"  -> {AppendUvarint[v]}
    [] T.kind = "bytes" -> {AppendUvarint[Len(v)] \o v}
    [] T.kind = "empty" -> {<<>>}
    [] T.kind = "pair"  -> Join(encodings[T.first][v[1]], encodings[T.rest][v[2]])
    [] T.kind \in {"slice", "array"} ->
         Join({AppendUvarint[Len(v)]}, Items(encodings[T.of], v))
    [] T.kind = "map"   ->
         LET entry == [p \in v |-> Join(encodings[T.key][p[1]], encodings[T.val][p[2]])]
         IN  Join({AppendUvarint[Cardinality(v)]}, UNION {Items(entry, s) : s \in Orders(v)})

Encodings[t \in TypeIds] == [v \in Values[t] |-> EncodingsOf(Types[t], v, Encodings)]

-----------------------------------------------------------------------------
(* Decoding: the values that may be read with what is left after each, so  *)
(* that an error is the empty set.                                         *)

\* binary.Uvarint, with k bytes to go.
Uvarint[k \in 1..MaxLen] ==
  [data \in Seq(Byte) |->
     IF data = <<>> \/ (k = 1 /\ data[1] > 1) THEN {}
     ELSE IF data[1] < Half THEN {<<data[1], Tail(data)>>}
     ELSE {<<(data[1] % Half) + Half * r[1], r[2]>> : r \in Uvarint[k - 1][Tail(data)]}]

ReadUvarint(data) == Uvarint[MaxLen][data]

ZigzagDecode(u) == IF u % 2 = 0 THEN u \div 2 ELSE -((u + 1) \div 2)

ReadBytes(n, data) ==
  IF n > Len(data) THEN {} ELSE {<<SubSeq(data, 1, n), SubSeq(data, n + 1, Len(data))>>}

\* The results of dec, one after the other, n times.
ReadItems(dec, n, data) ==
  LET read[i \in Nat] ==
        IF i = 0 THEN {<<<<>>, data>>}
        ELSE UNION {{<<Append(r[1], x[1]), x[2]>> : x \in dec[r[2]]} : r \in read[i - 1]}
  IN  read[n]

\* A value of each, one after the other.
ReadPair(dec1, dec2, data) ==
  UNION {{<<<<r[1], x[1]>>, x[2]>> : x \in dec2[r[2]]} : r \in dec1[data]}

(* The length of a slice or map, which must fit an int.                    *)
ReadLength(data) == {r \in ReadUvarint(data) : r[1] <= MaxInt}

\* Of entries with the same key the last one is kept.
MapFrom(entries) ==
  {entries[i] : i \in {i \in DOMAIN entries :
     \A j \in DOMAIN entries : entries[j][1] = entries[i][1] => j <= i}}

\* Mutant: an unsigned integer is accepted at any width.
MutantFits(T, x) == T.kind = "uint" \/ x \in (-T.limit)..(T.limit - 1)

\* OverflowInt and OverflowUint.
Fits(T, x) == x \in (IF T.kind = "uint" THEN 0 ELSE -T.limit)..(T.limit - 1)

DecodingsOf(T, data, decodings) ==
  CASE T.kind = "bool"  -> IF data = <<>> \/ data[1] > 1 THEN {}
                           ELSE {<<data[1] = 1, Tail(data)>>}
    [] T.kind = "int"   -> {<<ZigzagDecode(r[1]), r[2]>> :
                              r \in {r \in ReadUvarint(data) : Fits(T, ZigzagDecode(r[1]))}}
    [] T.kind = "uint"  -> {r \in ReadUvarint(data) : Fits(T, r[1])}
    [] T.kind = "bytes" -> UNION {ReadBytes(r[1], r[2]) : r \in ReadLength(data)}
    [] T.kind = "empty" -> {<<<<>>, data>>}
    [] T.kind = "pair"  -> ReadPair(decodings[T.first], decodings[T.rest], data)
    [] T.kind = "slice" -> UNION {ReadItems(decodings[T.of], r[1], r[2]) :
                                    r \in ReadLength(data)}
    [] T.kind = "array" -> UNION {ReadItems(decodings[T.of], r[1], r[2]) :
                                    r \in {r \in ReadUvarint(data) : r[1] = T.len}}
    [] T.kind = "map"   ->
         LET entry == [d \in Seq(Byte) |-> ReadPair(decodings[T.key], decodings[T.val], d)]
         IN  UNION {{<<MapFrom(e[1]), e[2]>> : e \in ReadItems(entry, r[1], r[2])} :
                      r \in ReadLength(data)}

Decodings[t \in TypeIds] == [data \in Seq(Byte) |-> DecodingsOf(Types[t], data, Decodings)]

\* Mutant: bytes after the value are ignored.
MutantDecodeAll(t, data) == {r[1] : r \in Decodings[t][data]}

\* Decode of the package.
DecodeAll(t, data) == {r[1] : r \in {r \in Decodings[t][data] : r[2] = <<>>}}

-----------------------------------------------------------------------------
(* A slice of elements other than bytes is allocated at the length that is *)
(* read, before any element is: reflect.MakeSlice panics when the memory   *)
(* lacks, which is not before the length exceeds the bytes that are left.  *)

\* What is read of d, then of the rest.
EitherOverlong(over1, over2, dec1, d) == over1[d] \/ \E r \in dec1[d] : over2[r[2]]

\* Or of one of n items.
SomeOverlong(over, dec, n, d) ==
  \E i \in 0..(n - 1) : \E r \in ReadItems(dec, i, d) : over[r[2]]

OverlongIn(T, data, over) ==
  CASE T.kind = "pair"  -> EitherOverlong(over[T.first], over[T.rest], Decodings[T.first], data)
    [] T.kind = "slice" -> \E r \in ReadLength(data) :
                             \/ r[1] > Len(r[2])
                             \/ SomeOverlong(over[T.of], Decodings[T.of], r[1], r[2])
    [] T.kind = "array" -> \E r \in ReadUvarint(data) :
                             r[1] = T.len /\ SomeOverlong(over[T.of], Decodings[T.of], r[1], r[2])
    [] T.kind = "map"   ->
         LET entry == [d \in Seq(Byte) |->
                         EitherOverlong(over[T.key], over[T.val], Decodings[T.key], d)]
             read  == [d \in Seq(Byte) |-> ReadPair(Decodings[T.key], Decodings[T.val], d)]
         IN  \E r \in ReadLength(data) : SomeOverlong(entry, read, r[1], r[2])
    [] OTHER -> FALSE

\* Reading a value of type t gets to such a slice.
Overlong[t \in TypeIds] == [data \in Seq(Byte) |-> OverlongIn(Types[t], data, Overlong)]

-----------------------------------------------------------------------------
(* VarintScalarWireSize.                                                   *)
Total(size, S) == FoldFunctionOnSet(+, 0, size, S)

\* Mutant: a length prefix always counts as one byte.
MutantSizeOfLength(n) == 1

SizeOfLength(n) == UvarintLen[n]

SizeOf(T, v, size) ==
  CASE T.kind = "bool"  -> 1
    [] T.kind = "int"   -> UvarintLen[Zigzag(v)]
    [] T.kind = "uint"  -> UvarintLen[v]
    [] T.kind = "bytes" -> SizeOfLength(Len(v)) + Len(v)
    [] T.kind = "empty" -> 0
    [] T.kind = "pair"  -> size[T.first][v[1]] + size[T.rest][v[2]]
    [] T.kind \in {"slice", "array"} ->
         SizeOfLength(Len(v)) + Total([i \in DOMAIN v |-> size[T.of][v[i]]], DOMAIN v)
    [] T.kind = "map"   ->
         SizeOfLength(Cardinality(v))
           + Total([p \in v |-> size[T.key][p[1]] + size[T.val][p[2]]], v)

Size[t \in TypeIds] == [v \in Values[t] |-> SizeOf(Types[t], v, Size)]
=============================================================================
