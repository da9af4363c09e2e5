------------------------------ MODULE LazySeq ------------------------------
(***************************************************************************)
(* Lazy sequences: what next(), copies and seq::at do for each class of    *)
(* rc::Seq.  All shrinking goes through them.                              *)
(*                                                                         *)
(* Next is one call of next(), which never throws: an exception ends the   *)
(* sequence.  Elements is the list that the documentation of a combinator  *)
(* or of a shrinking algorithm describes, up to the first exception,       *)
(* against which the calls are checked.                                    *)
(***************************************************************************)
EXTENDS ShrinkTrees, SequencesExt

CONSTANT Horizon    \* bound: elements listed of an endless sequence

ASSUME SizesAssumption == Width \in Nat \ {0} /\ Horizon \in Nat

\* Mutant: the implementation survives its exception.
Thrown_KeepsImpl(s) == [value |-> Nothing, rest |-> s]

\* The catch of Seq::next, with the implementation as the exception left it.
Thrown(s) == [value |-> Nothing, rest |-> Empty]

Got(value, s) == [value |-> value, rest |-> s]

-----------------------------------------------------------------------------
(* operator()() of each implementation.  A loop goes around by Next of the
   implementation as its body leaves it. *)

RECURSIVE Next(_)

RepeatSeq(s) == Got(Just(s.value), s)

JustSeq(s) ==
    IF s.next >= Len(s.values) THEN Got(Nothing, s)
    ELSE Got(Just(s.values[s.next + 1]), [s EXCEPT !.next = @ + 1])

\* Mutant: the position is not counted, only the iterator.
ContainerSeq_NoPosition(s) ==
    IF s.iterator = Len(s.container) THEN Got(Nothing, s)
    ELSE Got(Just(s.container[s.iterator + 1]), [s EXCEPT !.iterator = @ + 1])

ContainerSeq(s) ==
    IF s.iterator = Len(s.container) THEN Got(Nothing, s)
    ELSE Got(Just(s.container[s.iterator + 1]),
             [s EXCEPT !.iterator = @ + 1, !.position = @ + 1])

\* The next value is computed at once: if that throws, this one is lost too.
IterateSeq(s) ==
    IF Throws(s.mapper, s.value) THEN Thrown(s)
    ELSE Got(Just(s.value), [s EXCEPT !.value = Result(s.mapper, s.value)])

RangeSeq(s) ==
    IF s.current = s.end THEN Got(Nothing, s)
    ELSE Got(Just(s.current),
             [s EXCEPT !.current = IF s.current < s.end THEN @ + 1 ELSE @ - 1])

DropSeq(s) ==
    LET r == Next(s.seq)
    IN IF s.drop = 0 THEN Got(r.value, [s EXCEPT !.seq = r.rest])
       ELSE IF r.value = Nothing THEN Got(Nothing, [s EXCEPT !.seq = Empty, !.drop = 0])
       ELSE Next([s EXCEPT !.seq = r.rest, !.drop = @ - 1])

TakeSeq(s) ==
    LET r == Next(s.seq)
    IN IF s.take = 0 THEN Got(Nothing, s)
       ELSE Got(r.value, [s EXCEPT !.take = @ - 1, !.seq = r.rest])

DropWhileSeq(s) ==
    LET r == Next(s.seq)
        after == [s EXCEPT !.seq = r.rest]
    IN IF s.dropped THEN Got(r.value, after)
       ELSE IF r.value = Nothing THEN Got(Nothing, [s EXCEPT !.dropped = TRUE, !.seq = Empty])
       ELSE IF Throws(s.pred, r.value[1]) THEN Thrown(after)
       ELSE IF Result(s.pred, r.value[1]) THEN Next(after)
       ELSE Got(r.value, [after EXCEPT !.dropped = TRUE])

TakeWhileSeq(s) ==
    LET r == Next(s.seq)
        after == [s EXCEPT !.seq = r.rest]
    IN IF r.value = Nothing THEN Got(Nothing, after)
       ELSE IF Throws(s.pred, r.value[1]) THEN Thrown(after)
       ELSE IF Result(s.pred, r.value[1]) THEN Got(r.value, after)
       ELSE Got(Nothing, [s EXCEPT !.seq = Empty])

MapSeq(s) ==
    LET r == Next(s.seq)
        after == [s EXCEPT !.seq = r.rest]
    IN IF r.value = Nothing THEN Got(Nothing, [s EXCEPT !.seq = Empty])
       ELSE IF Throws(s.mapper, r.value[1]) THEN Thrown(after)
       ELSE Got(Just(Result(s.mapper, r.value[1])), after)

\* All sequences are pulled from before any result is looked at.
ZipWithSeq(s) ==
    LET rs == [k \in DOMAIN s.seqs |-> Next(s.seqs[k])]
        after == [s EXCEPT !.seqs = [k \in DOMAIN rs |-> rs[k].rest]]
        args == [k \in DOMAIN rs |-> rs[k].value[1]]
    IN IF \E k \in DOMAIN rs : rs[k].value = Nothing
         THEN Got(Nothing, [s EXCEPT !.seqs = [k \in DOMAIN rs |-> Empty]])
       ELSE IF Throws(s.zipper, args) THEN Thrown(after)
       ELSE Got(Just(Result(s.zipper, args)), after)

FilterSeq(s) ==
    LET r == Next(s.seq)
        after == [s EXCEPT !.seq = r.rest]
    IN IF r.value = Nothing THEN Got(Nothing, [s EXCEPT !.seq = Empty])
       ELSE IF Throws(s.pred, r.value[1]) THEN Thrown(after)
       ELSE IF Result(s.pred, r.value[1]) THEN Got(r.value, after)
       ELSE Next(after)

JoinSeq(s) ==
    LET r     == Next(s.seq)
        outer == Next(s.seqs)
    IN IF r.value # Nothing THEN Got(r.value, [s EXCEPT !.seq = r.rest])
       ELSE IF outer.value = Nothing THEN Got(Nothing, [s EXCEPT !.seq = Empty, !.seqs = Empty])
       ELSE Next([s EXCEPT !.seq = outer.value[1], !.seqs = outer.rest])

\* Mutant: an empty part ends the whole.
ConcatSeq_EndsAtEmpty(s) ==
    LET r == Next(s.seqs[s.i + 1])
    IN IF s.i >= Len(s.seqs) THEN Got(Nothing, s)
       ELSE IF r.value # Nothing THEN Got(r.value, [s EXCEPT !.seqs[s.i + 1] = r.rest])
       ELSE Got(Nothing, [s EXCEPT !.i = @ + 1])

ConcatSeq(s) ==
    LET r == Next(s.seqs[s.i + 1])
    IN IF s.i >= Len(s.seqs) THEN Got(Nothing, s)
       ELSE IF r.value # Nothing THEN Got(r.value, [s EXCEPT !.seqs[s.i + 1] = r.rest])
       ELSE Next([s EXCEPT !.seqs[s.i + 1] = r.rest, !.i = @ + 1])

MapcatSeq(s) ==
    LET u == Next(s.seqU)
        t == Next(s.seqT)
        after == [s EXCEPT !.seqT = t.rest, !.seqU = u.rest]
    IN IF u.value # Nothing THEN Got(u.value, [s EXCEPT !.seqU = u.rest])
       ELSE IF t.value = Nothing THEN Got(Nothing, [s EXCEPT !.seqT = Empty, !.seqU = Empty])
       ELSE IF Throws(s.mapper, t.value[1]) THEN Thrown(after)
       ELSE Next([after EXCEPT !.seqU = Result(s.mapper, t.value[1])])

-----------------------------------------------------------------------------
(* The sequences of shrink/Shrink.hpp and gen/Tuple.hpp *)

\* Mutant: the adjacent number is not tried.
TowardsSeq_StopsAtOne(s) ==
    IF s.diff <= 1 THEN Got(Nothing, s)
    ELSE Got(Just(IF s.down THEN s.value - s.diff ELSE s.value + s.diff),
             [s EXCEPT !.diff = @ \div 2])

TowardsSeq(s) ==
    IF s.diff = 0 THEN Got(Nothing, s)
    ELSE Got(Just(IF s.down THEN s.value - s.diff ELSE s.value + s.diff),
             [s EXCEPT !.diff = @ \div 2])

Without(elements, start, size) ==
    SubSeq(elements, 1, start) \o SubSeq(elements, start + size + 1, Len(elements))

\* Mutant: after the last chunk of a size, the same size is gone through again.
RemoveChunksSeq_KeepsSize(s) ==
    IF s.size = 0 THEN Got(Nothing, s)
    ELSE Got(Just(Without(s.elements, s.start, s.size)),
             IF s.size + s.start >= Len(s.elements)
               THEN [s EXCEPT !.start = 0]
               ELSE [s EXCEPT !.start = @ + 1])

RemoveChunksSeq(s) ==
    IF s.size = 0 THEN Got(Nothing, s)
    ELSE Got(Just(Without(s.elements, s.start, s.size)),
             IF s.size + s.start >= Len(s.elements)
               THEN [s EXCEPT !.size = @ - 1, !.start = 0]
               ELSE [s EXCEPT !.start = @ + 1])

EachElementSeq(s) ==
    LET r == Next(s.shrinks)
    IN IF r.value # Nothing
         THEN Got(Just([s.elements EXCEPT ![s.i] = r.value[1]]),
                  [s EXCEPT !.shrinks = r.rest])
       ELSE IF s.i >= Len(s.elements) THEN Got(Nothing, [s EXCEPT !.shrinks = r.rest])
       ELSE IF Throws(s.shrink, s.elements[s.i + 1]) THEN Thrown(s)
       ELSE Next([s EXCEPT !.shrinks = Result(s.shrink, s.elements[s.i + 1]), !.i = @ + 1])

TupleShrinkSeq(s) ==
    LET r == Next(s.shrinks)
    IN IF r.value = Nothing THEN Got(Nothing, [s EXCEPT !.shrinks = Empty])
       ELSE Got(Just(tuple([s.original EXCEPT ![s.i] = r.value[1]])),
                [s EXCEPT !.shrinks = r.rest])

-----------------------------------------------------------------------------
\* Seq::next
Next(s) ==
    CASE s.class = "empty"        -> Got(Nothing, Empty)
      [] s.class = "repeat"       -> RepeatSeq(s)
      [] s.class = "just"         -> JustSeq(s)
      [] s.class = "container"    -> ContainerSeq(s)
      [] s.class = "iterate"      -> IterateSeq(s)
      [] s.class = "range"        -> RangeSeq(s)
      [] s.class = "drop"         -> DropSeq(s)
      [] s.class = "take"         -> TakeSeq(s)
      [] s.class = "dropWhile"    -> DropWhileSeq(s)
      [] s.class = "takeWhile"    -> TakeWhileSeq(s)
      [] s.class = "map"          -> MapSeq(s)
      [] s.class = "zipWith"      -> ZipWithSeq(s)
      [] s.class = "filter"       -> FilterSeq(s)
      [] s.class = "join"         -> JoinSeq(s)
      [] s.class = "concat"       -> ConcatSeq(s)
      [] s.class = "mapcat"       -> MapcatSeq(s)
      [] s.class = "towards"      -> TowardsSeq(s)
      [] s.class = "removeChunks" -> RemoveChunksSeq(s)
      [] s.class = "eachElement"  -> EachElementSeq(s)
      [] s.class = "tupleShrinks" -> TupleShrinkSeq(s)

-----------------------------------------------------------------------------
(* Copies: member by member, but an iterator is found again by its position *)

RECURSIVE Copied(_)
Copied(s) ==
    CASE s.class \in {"empty", "repeat", "just", "iterate", "range", "towards",
                      "removeChunks"} -> s
      [] s.class = "container" -> [s EXCEPT !.iterator = s.position]
      [] s.class \in {"drop", "take", "dropWhile", "takeWhile", "map", "filter"} ->
           [s EXCEPT !.seq = Copied(@)]
      [] s.class \in {"zipWith", "concat"} ->
           [s EXCEPT !.seqs = [k \in DOMAIN @ |-> Copied(@[k])]]
      [] s.class = "join"   -> [s EXCEPT !.seqs = Copied(@), !.seq = Copied(@)]
      [] s.class = "mapcat" -> [s EXCEPT !.seqT = Copied(@), !.seqU = Copied(@)]
      [] s.class \in {"eachElement", "tupleShrinks"} -> [s EXCEPT !.shrinks = Copied(@)]

-----------------------------------------------------------------------------
(* What takes a sequence by value and pulls from its copy *)

RECURSIVE length(_), forEach(_), last(_), contains(_, _), equal(_, _)
RECURSIVE all(_, _), any(_, _)

length(s) == LET r == Next(s) IN IF r.value = Nothing THEN 0 ELSE 1 + length(r.rest)

\* The values that the callable is called with.
forEach(s) == LET r == Next(s) IN r.value \o IF r.value = Nothing THEN <<>> ELSE forEach(r.rest)

last(s) ==
    LET r == Next(s)
    IN IF r.value = Nothing \/ Next(r.rest).value = Nothing THEN r.value ELSE last(r.rest)

contains(s, x) ==
    LET r == Next(s) IN r.value # Nothing /\ (r.value[1] = x \/ contains(r.rest, x))

all(s, p) ==
    LET r == Next(s) IN r.value = Nothing \/ (Result(p, r.value[1]) /\ all(r.rest, p))

any(s, p) ==
    LET r == Next(s) IN r.value # Nothing /\ (Result(p, r.value[1]) \/ any(r.rest, p))

\* Mutant: the longer one is not looked at to its end.
RECURSIVE equal_Prefix(_, _)
equal_Prefix(s, t) ==
    LET a == Next(s)
        b == Next(t)
    IN \/ a.value = Nothing
       \/ a.value = b.value /\ equal_Prefix(a.rest, b.rest)

equal(s, t) ==
    LET a == Next(s)
        b == Next(t)
    IN /\ a.value = b.value
       /\ a.value = Nothing \/ equal(a.rest, b.rest)

\* An iterator is one value ahead of its sequence; all ends are the same.
SeqIterator(s) == LET r == Next(s) IN [current |-> r.value, seq |-> r.rest]
Increment(it)  == SeqIterator(it.seq)
IsEnd(it)      == it.current = Nothing

\* for (const auto &x : seq)
RECURSIVE RangeFor(_)
RangeFor(it) == IF IsEnd(it) THEN <<>> ELSE it.current \o RangeFor(Increment(it))

immediateShrinks(t) == map(ShrinksOf(t), [callable |-> "valueOf"])

-----------------------------------------------------------------------------
(* seq::at *)

\* Mutant: the loop goes around once too often.
RECURSIVE at_SkipsOneMore(_, _)
at_SkipsOneMore(s, index) ==
    LET r == Next(s)
    IN IF index < 0 \/ r.value = Nothing THEN r.value
       ELSE at_SkipsOneMore(r.rest, index - 1)

RECURSIVE at(_, _)
at(s, index) ==
    LET r == Next(s)
    IN IF index = 0 \/ r.value = Nothing THEN r.value ELSE at(r.rest, index - 1)

-----------------------------------------------------------------------------
(* The list that a sequence, as it was made, stands for *)

Before(list, Test(_)) ==
    LET i == SelectInSeq(list, Test) IN IF i = 0 THEN list ELSE SubSeq(list, 1, i - 1)

\* What comes before a callable first throws, and what it makes of that.
Unthrown(f, list) == Before(list, LAMBDA v : Throws(f, v))
Image(f, list)    == LET good == Unthrown(f, list)
                     IN [i \in DOMAIN good |-> Result(f, good[i])]

Fails(p, v) == Throws(p, v) \/ ~Result(p, v)

DroppedWhile(p, list) ==
    LET i == SelectInSeq(list, LAMBDA v : Fails(p, v))
    IN IF i = 0 \/ Throws(p, list[i]) THEN <<>> ELSE SubSeq(list, i, Len(list))

\* v, f(v), f(f(v)) ... up to the last one whose successor exists.
Iterated(v, f) ==
    LET x[n \in 0..Horizon] ==
          IF n = 0 THEN Just(v)
          ELSE LET y == x[n - 1] IN IF y = Nothing THEN Nothing ELSE Call(f, y[1])
    IN [i \in 1..Cardinality({n \in 1..Horizon : x[n] # Nothing}) |-> x[i - 1][1]]

Shortest(lists) == CHOOSE n \in {Len(lists[k]) : k \in DOMAIN lists} :
                     \A k \in DOMAIN lists : n <= Len(lists[k])

Zipped(lists) ==
    [i \in 1..Shortest(lists) |-> [k \in DOMAIN lists |-> lists[k][i]]]

\* The shrinking algorithms: half the way, a quarter, ... from the value; chunks
\* from large to small, each from left to right; one element after the other.
RECURSIVE Elements(_)
Elements(s) ==
    LET All(list) == [i \in DOMAIN list |-> Elements(list[i])]
    IN CASE s.class = "empty"     -> <<>>
         [] s.class = "repeat"    -> [i \in 1..Horizon |-> s.value]
         [] s.class = "just"      -> s.values
         [] s.class = "container" -> s.container
         [] s.class = "iterate"   -> Iterated(s.value, s.mapper)
         [] s.class = "range"     ->
              IF s.current < s.end
                THEN [i \in 1..(s.end - s.current) |-> s.current + i - 1]
                ELSE [i \in 1..(s.current - s.end) |-> s.current - i + 1]
         [] s.class = "drop"      -> LET list == Elements(s.seq)
                                     IN SubSeq(list, s.drop + 1, Len(list))
         [] s.class = "take"      -> LET list == Elements(s.seq)
                                     IN IF s.take >= Len(list) THEN list
                                        ELSE SubSeq(list, 1, s.take)
         [] s.class = "dropWhile" -> DroppedWhile(s.pred, Elements(s.seq))
         [] s.class = "takeWhile" -> Before(Elements(s.seq), LAMBDA v : Fails(s.pred, v))
         [] s.class = "map"       -> Image(s.mapper, Elements(s.seq))
         [] s.class = "zipWith"   -> Image(s.zipper, Zipped(All(s.seqs)))
         [] s.class = "filter"    -> SelectSeq(Unthrown(s.pred, Elements(s.seq)),
                                               LAMBDA v : Result(s.pred, v))
         [] s.class = "join"      -> FlattenSeq(All(Elements(s.seqs)))
         [] s.class = "concat"    -> FlattenSeq(All(s.seqs))
         [] s.class = "mapcat"    -> FlattenSeq(All(Image(s.mapper, Elements(s.seqT))))
         [] s.class = "towards" ->
              [i \in 1..Cardinality({k \in 0..Width : s.diff \div (2 ^ k) > 0}) |->
                 IF s.down THEN s.value - s.diff \div (2 ^ (i - 1))
                           ELSE s.value + s.diff \div (2 ^ (i - 1))]
         [] s.class = "removeChunks" ->
              FlattenSeq([n \in 1..Len(s.elements) |->
                [k \in 1..n |-> Without(s.elements, k - 1, Len(s.elements) - n + 1)]])
         [] s.class = "eachElement" ->
              LET good == Unthrown(s.shrink, s.elements)
              IN FlattenSeq([i \in DOMAIN good |->
                   LET list == Elements(Result(s.shrink, good[i]))
                   IN [k \in DOMAIN list |-> [s.elements EXCEPT ![i] = list[k]]]])
         [] s.class = "tupleShrinks" ->
              LET list == Elements(s.shrinks)
              IN [k \in DOMAIN list |-> tuple([s.original EXCEPT ![s.i] = list[k]])]
=============================================================================
