----------------------------- MODULE SeqCreate -----------------------------
(***************************************************************************)
(* The functions of seq/Create.hpp and seq/Transform.hpp that make lazy    *)
(* sequences.  A Seq is Empty or the state of its implementation; LazySeq  *)
(* says what next() makes of it.                                           *)
(*                                                                         *)
(* A Maybe is a sequence of at most one element.  A callable is a record   *)
(* that names what is called and holds what it has captured.               *)
(***************************************************************************)
EXTENDS Integers, Sequences

Nothing == <<>>
Just(v) == <<v>>

\* A Seq without an implementation.
Empty == [class |-> "empty"]

repeat(v)        == [class |-> "repeat", value |-> v]
just(vs)         == [class |-> "just", values |-> vs, next |-> 0]
iterate(v, f)    == [class |-> "iterate", value |-> v, mapper |-> f]
dropWhile(s, p)  == [class |-> "dropWhile", seq |-> s, pred |-> p, dropped |-> FALSE]
takeWhile(s, p)  == [class |-> "takeWhile", seq |-> s, pred |-> p]
map(s, f)        == [class |-> "map", seq |-> s, mapper |-> f]
zipWith(f, s, t) == [class |-> "zipWith", zipper |-> f, seqs |-> <<s, t>>]
filter(s, p)     == [class |-> "filter", seq |-> s, pred |-> p]
join(ss)         == [class |-> "join", seqs |-> ss, seq |-> Empty]
concat(ss)       == [class |-> "concat", seqs |-> ss, i |-> 0]
mapcat(s, f)     == [class |-> "mapcat", seqT |-> s, mapper |-> f, seqU |-> Empty]

fromContainer(c) ==
    IF c = <<>> THEN Empty
    ELSE [class |-> "container", container |-> c, iterator |-> 0, position |-> 0]

range(start, end) ==
    IF start = end THEN Empty ELSE [class |-> "range", current |-> start, end |-> end]

drop(n, s) == IF n = 0 THEN s ELSE [class |-> "drop", drop |-> n, seq |-> s]
take(n, s) == IF n = 0 THEN Empty ELSE [class |-> "take", take |-> n, seq |-> s]

mapMaybe(s, f) ==
    map(filter(map(s, f), [callable |-> "isJust"]), [callable |-> "unwrap"])

cycle(s) == join(repeat(s))

subranges(start, end) ==
    IF start = end THEN Empty
    ELSE mapcat(range(end - start, 0),
                [callable |-> "rangesOfSize", start |-> start, end |-> end])
=============================================================================
