----------------------------- MODULE MCAlgorithms -----------------------------
(***************************************************************************)
(* The calls of Algorithms, on a table of types, some of their values, and *)
(* all short byte strings.                                                 *)
(***************************************************************************)
EXTENDS Algorithms

-----------------------------------------------------------------------------
(* The tasks.                                                              *)

\* Words: six points of degree 1 with the first two values of a line.
Words ==
  {[kind |-> "decode", degree |-> 1, strict |-> TRUE,
    points |-> [k \in 1..6 |-> <<k, IF k = 1 THEN 0 ELSE IF k = 2 THEN s ELSE w[k]>>]] :
     s \in {0, 3}, w \in [3..6 -> Elem]}

\* Few points, in any order, one x perhaps twice, for the degrees around them.
PointLists == {<<2>>, <<2, 5>>, <<4, 1, 3>>, <<1, 3, 4, 6>>, <<6, 2, 5, 1>>, <<3, 1, 3>>}

Lists ==
  UNION {{[kind |-> "decode", degree |-> d, strict |-> s,
           points |-> [k \in DOMAIN xs |-> <<xs[k], IF k = 1 THEN 5 ELSE y[k]>>]] :
            d \in 0..2, s \in BOOLEAN, y \in [2..Len(xs) -> Elem]} :
         xs \in PointLists}

SomeTypes ==
  <<Bool, Int_(2), Int_(MaxInt + 1), Uint_(Half + 1), Uint_(Wide), Bytes,
    Slice(5), Empty, Pair(1, 8), Pair(7, 9), Pair(2, 10), MapOf(4, 1), Array(2, 5)>>

Signed  == 3
Narrow  == 4
Text    == 6
Message == 11   \* a struct of a number, a slice of words, and a flag
Table   == 12
Couple  == 13
Targets == {Signed, Narrow, Text, Message, Table, Couple}

Texts(S, n) == UNION {[1..m -> S] : m \in 0..n}

SomeValues(t) ==
  CASE t = Signed  -> (-MaxInt - 1)..MaxInt
    [] t = Narrow  -> 0..Half
    [] t = Text    -> Texts({0, Half}, Half + 1)
    [] t = Message -> {<<i, <<s, <<b, <<>>>>>>>> : i \in -2..1, b \in BOOLEAN,
                         s \in Texts({0, Half, Wide - 1}, 2)}
    [] t = Table   -> UNION {{{<<k, f[k]>> : k \in K} : f \in [K -> BOOLEAN]} :
                               K \in SUBSET {0, 1, Half}}
    [] t = Couple  -> [1..2 -> {0, Half, Wide - 1}]

SomeEncodeTasks ==
  UNION {[kind : {"encode"}, type : {t}, value : SomeValues(t)] : t \in Targets}
SomeParseTasks == [kind : {"parse"}, type : Targets, data : Texts(Byte, 3)]

SomeDecodeTasks == Words \cup Lists
=============================================================================
