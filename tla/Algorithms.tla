------------------------------ MODULE Algorithms ------------------------------
(***************************************************************************)
(* Calls of the pure functions of field.go, interpolate.go and msgpack.go, *)
(* one call a behaviour: a task is drawn, the code's answer computed, and  *)
(* compared with what the task means.                                      *)
(***************************************************************************)
EXTENDS ReedSolomon, Msgpack

CONSTANTS
  DecodeTasks,   \* points to decode, with the degree and the variant
  EncodeTasks,   \* values to encode
  ParseTasks     \* bytes to read a value from

ASSUME TaskAssumption ==
  /\ DecodeTasks \subseteq [kind : {"decode"}, degree : Nat, strict : BOOLEAN,
                            points : Seq(Elem \X Elem)]
  /\ \A x \in EncodeTasks :
       x \in [kind : {"encode"}, type : TypeIds, value : Values[x.type]]
  /\ ParseTasks \subseteq [kind : {"parse"}, type : TypeIds, data : Seq(Byte)]

VARIABLES task, answer

vars == <<task, answer>>
None == [kind |-> "none"]

-----------------------------------------------------------------------------
FieldTasks == [kind : {"field"}, a : Uint, b : Uint]

Init ==
  /\ task \in FieldTasks \/ task \in DecodeTasks \/ task \in EncodeTasks \/ task \in ParseTasks
  /\ answer = None

\* The int whose bits are those of the word w.
AsInt(w) == IF w < Word \div 2 THEN w ELSE w - Word

FieldAnswer(a, b) ==
  [kind |-> "field",
   add |-> ModAdd(a, b), sub |-> ModSub(a, b), mul |-> ModMul(a, b),
   inv |-> ModInv(a), div |-> ModDiv(a, b), pow |-> ModPow(a, b),
   fromInt |-> Uint64FromInt(AsInt(a)), fromUint |-> Uint64FromUint64(b)]

DecoderAnswer(points, degree, strict) ==
  [kind |-> "decode", value |-> Decode(points, degree, strict),
   exported |-> ReconstructPolynomialValueAtZero(points, degree)]

EncoderAnswer(t, v) ==
  [kind |-> "encode", data |-> Encodings[t][v], size |-> Size[t][v]]

ParserAnswer(t, data) == [kind |-> "parse", values |-> DecodeAll(t, data)]

FieldCall ==
  /\ answer = None /\ task.kind = "field"
  /\ answer' = FieldAnswer(task.a, task.b)
  /\ UNCHANGED task

DecodeCall ==
  /\ answer = None /\ task.kind = "decode"
  /\ answer' = DecoderAnswer(task.points, task.degree, task.strict)
  /\ UNCHANGED task

EncodeCall ==
  /\ answer = None /\ task.kind = "encode"
  /\ answer' = EncoderAnswer(task.type, task.value)
  /\ UNCHANGED task

ParseCall ==
  /\ answer = None /\ task.kind = "parse"
  /\ answer' = ParserAnswer(task.type, task.data)
  /\ UNCHANGED task

\* No answer: how long is too long depends on the memory.
ParsePanic ==
  /\ answer = None /\ task.kind = "parse" /\ Overlong[task.type][task.data]
  /\ answer' = [kind |-> "panic"]
  /\ UNCHANGED task

Done == answer # None /\ UNCHANGED vars

Next == FieldCall \/ DecodeCall \/ EncodeCall \/ ParseCall \/ ParsePanic \/ Done

Spec == Init /\ [][Next]_vars

-----------------------------------------------------------------------------
\* b to the power n modulo P, by n multiplications.
RaisedTo(b, n) ==
  LET power[i \in Nat] == IF i = 0 THEN 1 ELSE (b * power[i - 1]) % P
  IN  power[n]

(* The machine-word operations of field.go are those of the integers       *)
(* modulo P on all words, the inverse and the quotient are the solutions   *)
(* of their equations, and a negative number is taken to its residue or,   *)
(* when that is zero, to P.                                                *)
FieldExact ==
  answer.kind = "field" =>
    LET a == task.a % P
        b == task.b % P
    IN  /\ answer.add = (a + b) % P /\ answer.sub = (a - b) % P
        /\ answer.mul = (a * b) % P
        /\ answer.inv = {v \in Elem : (v * a) % P = 1}
        /\ answer.div = {v \in Elem : b # 0 /\ (v * b) % P = a}
        /\ answer.pow = RaisedTo(a, task.b)
        /\ answer.fromInt \in 0..P /\ answer.fromInt % P = AsInt(task.a) % P
        /\ answer.fromUint = b

(* The value at x of the polynomial with the coefficients c[0] .. c[d], by *)
(* Horner's rule.                                                          *)
ValueAt(c, d, x) ==
  LET value[i \in 0..d] == IF i = 0 THEN c[d] ELSE (c[d - i] + x * value[i - 1]) % P
  IN  value[d]

(* The polynomials within the unique decoding radius of the points.        *)
Codewords(points, degree) ==
  {c \in [0..degree -> Elem] :
     2 * Cardinality({k \in DOMAIN points : ValueAt(c, degree, points[k][1]) # points[k][2]})
       + degree < Len(points)}

Distinct(points) == \A j, k \in DOMAIN points : j # k => points[j][1] # points[k][1]
Increasing(points) == \A k \in 2..Len(points) : points[k - 1][1] < points[k][1]

(* The decoder of interpolate.go answers with the value at zero of the one *)
(* polynomial that more than half of the redundant points allow, and with  *)
(* an error when there is none, with duplicate points, and, for the strict *)
(* variant, with unsorted ones; never two values; the exported function    *)
(* does the same.                                                          *)
DecoderExact ==
  answer.kind = "decode" =>
    LET meant == {c[0] : c \in Codewords(task.points, task.degree)} IN
    /\ Cardinality(answer.value) <= 1
    /\ answer.value = (IF IF task.strict THEN Increasing(task.points)
                                         ELSE Distinct(task.points)
                       THEN meant ELSE {})
    /\ answer.exported = (IF Distinct(task.points) THEN meant ELSE {})

(* Every encoding of a value decodes to it and has the size that           *)
(* VarintScalarWireSize reports.                                           *)
RoundTrip ==
  answer.kind = "encode" =>
    /\ answer.data # {}
    /\ \A e \in answer.data :
         Len(e) = answer.size /\ DecodeAll(task.type, e) = {task.value}

(* No message cut short and no message with bytes to spare is accepted.    *)
WholeMessagesOnly ==
  answer.kind = "encode" =>
    \A e \in answer.data :
      /\ \A n \in 0..(Len(e) - 1) : DecodeAll(task.type, SubSeq(e, 1, n)) = {}
      /\ \A b \in Byte : DecodeAll(task.type, Append(e, b)) = {}

(* Whatever bytes are accepted, they are accepted for one value of the     *)
(* target's type, and sending that value on yields it again, in no more    *)
(* bytes: a varint too wide, for a word or for its field, is refused.      *)
AcceptedIsValue ==
  answer.kind = "parse" =>
    /\ Cardinality(answer.values) <= 1
    /\ \A v \in answer.values :
         /\ v \in Values[task.type]
         /\ \A e \in Encodings[task.type][v] :
              Len(e) <= Len(task.data) /\ DecodeAll(task.type, e) = {v}
=============================================================================
