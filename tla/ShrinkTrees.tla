---------------------------- MODULE ShrinkTrees ----------------------------
(***************************************************************************)
(* Shrinkables: trees of values whose children are a lazy sequence.        *)
(* shrinkable/Create.hpp makes them, shrinkable/Transform.hpp, gen/Tuple   *)
(* and gen/Container combine them.  A tree is a record of what its         *)
(* implementation holds; ValueOf and ShrinksOf are value() and shrinks().  *)
(***************************************************************************)
EXTENDS ShrinkSeqs

-----------------------------------------------------------------------------
(* Making trees.  shrinkf is the callable from a value to the Seq of what it
   shrinks to. *)

justTree(value, shrinks)        == [tree |-> "just", value |-> value, shrinks |-> shrinks]
shrinkRecur(value, shrinkf)  == [tree |-> "recur", value |-> value, shrinkf |-> shrinkf]
mapTree(t, f)                == [tree |-> "map", of |-> t, mapper |-> f]
mapShrinks(t, f)             == [tree |-> "mapShrinks", of |-> t, mapper |-> f]
mapcatTree(t, f)             == [tree |-> "mapcat", of |-> t, mapper |-> f]
tuple(ts)                    == [tree |-> "tuple", trees |-> ts]

pair(t1, t2) ==
    mapTree(shrinkRecur(<<t1, t2>>, [callable |-> "shrinksOfPair"]), [callable |-> "values"])

postShrink(t, f) == mapcatTree(t, [callable |-> "shrinkRecur", shrinkf |-> f])

noShrink(t) == mapShrinks(t, [callable |-> "noShrinks"])

-----------------------------------------------------------------------------
(* Containers.  A strategy says which of the shrinks of an element are kept: *)
(* those whose key is new, or that of the element itself.                    *)

Collection    == [strategy |-> "collection"]
SetStrategy   == [strategy |-> "set"]
MapStrategy   == [strategy |-> "map"]
UniqueBy(key) == [strategy |-> "unique", key |-> key]

\* With a size of its own, and with a fixed count.
container(strategy, ts) ==
    mapTree(shrinkRecur(ts, [callable |-> "shrinksOfContainer", strategy |-> strategy]),
            [callable |-> "toContainer", strategy |-> strategy])

containerOf(strategy, ts) ==
    mapTree(shrinkRecur(ts, [callable |-> "shrinkElements", strategy |-> strategy]),
            [callable |-> "toContainer", strategy |-> strategy])

array(ts) ==
    mapTree(shrinkRecur(ts, [callable |-> "shrinkElements", strategy |-> Collection]),
            [callable |-> "values"])

-----------------------------------------------------------------------------
(* Callables *)

\* What a callable returns, Nothing when it throws: any function of the user's,
\* as a table of Maybes, and the lambdas of the library.
RECURSIVE Call(_, _)

Table(f) == [callable |-> "table", table |-> f]

Throws(f, v) == Call(f, v) = Nothing
Result(f, v) == Call(f, v)[1]

-----------------------------------------------------------------------------
(* value() and shrinks() *)

RECURSIVE ValueOf(_)
ValueOf(t) ==
    CASE t.tree \in {"just", "recur"} -> t.value
      [] t.tree = "map"        -> Result(t.mapper, ValueOf(t.of))
      [] t.tree = "mapShrinks" -> ValueOf(t.of)
      [] t.tree = "mapcat"     -> ValueOf(Result(t.mapper, ValueOf(t.of)))
      [] t.tree = "tuple"      -> [i \in DOMAIN t.trees |-> ValueOf(t.trees[i])]

\* Mutant: shrinks are not filtered in their turn.
filterTree_OnlyRoot(t, p) ==
    IF Throws(p, ValueOf(t)) THEN Nothing
    ELSE Just(IF Result(p, ValueOf(t)) THEN Just(t) ELSE Nothing)

\* shrinkable::filter as Call gives it: the outer Maybe says whether pred throws.
filterTree(t, p) ==
    IF Throws(p, ValueOf(t)) THEN Nothing
    ELSE Just(IF Result(p, ValueOf(t))
                THEN Just(mapShrinks(t, [callable |-> "filterShrinks", pred |-> p]))
                ELSE Nothing)

\* gen::maybe
prependNothing(t) == mapShrinks(t, [callable |-> "prependNothing"])

tupleShrinks(ts, i, shrinks) ==
    [class |-> "tupleShrinks", original |-> ts, i |-> i, shrinks |-> shrinks]

RECURSIVE ShrinksOf(_)
ShrinksOf(t) ==
    CASE t.tree = "just"       -> t.shrinks
      [] t.tree = "recur"      -> map(Result(t.shrinkf, t.value),
                                      [callable |-> "shrinkRecur", shrinkf |-> t.shrinkf])
      [] t.tree = "map"        -> map(ShrinksOf(t.of),
                                      [callable |-> "mapTree", mapper |-> t.mapper])
      [] t.tree = "mapShrinks" -> Result(t.mapper, ShrinksOf(t.of))
      [] t.tree = "mapcat"     ->
           concat(<<map(ShrinksOf(t.of), [callable |-> "mapcatTree", mapper |-> t.mapper]),
                    ShrinksOf(Result(t.mapper, ValueOf(t.of)))>>)
      [] t.tree = "tuple"      ->
           concat([i \in DOMAIN t.trees |-> tupleShrinks(t.trees, i, ShrinksOf(t.trees[i]))])

shrinksOfPair(p) ==
    concat(<<map(ShrinksOf(p[1]), [callable |-> "pairWithSecond", second |-> p[2]]),
             map(ShrinksOf(p[2]), [callable |-> "pairWithFirst", first |-> p[1]])>>)

ElementValues(ts) == [i \in DOMAIN ts |-> ValueOf(ts[i])]

Key(strategy, value) ==
    CASE strategy.strategy = "set"    -> value
      [] strategy.strategy = "map"    -> value[1]
      [] strategy.strategy = "unique" -> Result(strategy.key, value)

Keys(strategy, values) == {Key(strategy, values[i]) : i \in DOMAIN values}

\* Inserting what is there already does nothing.
toContainer(strategy, v) ==
    IF strategy.strategy \in {"set", "map"}
      THEN {v[i] : i \in {j \in DOMAIN v :
              Key(strategy, v[j]) \notin Keys(strategy, SubSeq(v, 1, j - 1))}}
      ELSE v

\* The keys that a shrink of the element may have again: of a set, not even
\* the element's own.
OwnKey(strategy, t) ==
    IF strategy.strategy = "set" THEN {} ELSE {Key(strategy, ValueOf(t))}

\* Mutant: the shrinks of a set's element are not filtered.
shrinkElements_AnyOfSet(strategy, ts) ==
    eachElement(ts, IF strategy.strategy \in {"collection", "set"}
                      THEN [callable |-> "shrinksOf"]
                      ELSE [callable |-> "newShrinks", strategy |-> strategy,
                            keys |-> Keys(strategy, ElementValues(ts))])

shrinkElements(strategy, ts) ==
    eachElement(ts, IF strategy.strategy = "collection" THEN [callable |-> "shrinksOf"]
                    ELSE [callable |-> "newShrinks", strategy |-> strategy,
                          keys |-> Keys(strategy, ElementValues(ts))])

isNew(strategy, keys, t) == Key(strategy, ValueOf(t)) \notin keys

newShrinks(strategy, keys, t) ==
    filter(ShrinksOf(t), [callable |-> "isNew", strategy |-> strategy,
                          keys |-> keys \ OwnKey(strategy, t)])

Call(f, v) ==
    CASE f.callable = "table"              -> f.table[v]
      [] f.callable = "isJust"             -> Just(v # Nothing)
      [] f.callable = "unwrap"             -> v
      [] f.callable = "rangesOfSize"       ->
           Just(map(range(f.start, f.end - v + 1), [callable |-> "rangeFrom", size |-> v]))
      [] f.callable = "rangeFrom"          -> Just(<<v, v + f.size>>)
      [] f.callable = "isNot"              -> Just(v # f.value)
      [] f.callable = "shrinkRecur"        -> Just(shrinkRecur(v, f.shrinkf))
      [] f.callable = "mapTree"            -> Just(mapTree(v, f.mapper))
      [] f.callable = "mapcatTree"         -> Just(mapcatTree(v, f.mapper))
      [] f.callable = "filterShrinks"      ->
           Just(mapMaybe(v, [callable |-> "filterTree", pred |-> f.pred]))
      [] f.callable = "filterTree"         -> filterTree(v, f.pred)
      [] f.callable = "prependNothing"     ->
           Just(concat(<<just(<<justTree(Nothing, Empty)>>),
                         map(v, [callable |-> "prependNothingTo"])>>))
      [] f.callable = "prependNothingTo"   -> Just(prependNothing(v))
      [] f.callable = "toMaybe"            -> Just(Just(v))
      [] f.callable = "pairWithSecond"     -> Just(<<v, f.second>>)
      [] f.callable = "pairWithFirst"      -> Just(<<f.first, v>>)
      [] f.callable = "shrinksOfPair"      -> Just(shrinksOfPair(v))
      [] f.callable = "shrinksOf"          -> Just(ShrinksOf(v))
      [] f.callable = "valueOf"            -> Just(ValueOf(v))
      [] f.callable = "values"             -> Just(ElementValues(v))
      [] f.callable = "toContainer"        -> Just(toContainer(f.strategy, ElementValues(v)))
      [] f.callable = "shrinksOfContainer" ->
           Just(concat(<<removeChunks(v), shrinkElements(f.strategy, v)>>))
      [] f.callable = "shrinkElements"     -> Just(shrinkElements(f.strategy, v))
      [] f.callable = "newShrinks"         -> Just(newShrinks(f.strategy, f.keys, v))
      [] f.callable = "isNew"              -> Just(isNew(f.strategy, f.keys, v))
      [] f.callable = "noShrinks"          -> Just(Empty)
      [] f.callable = "shrinksOfString"    ->
           Just(concat(<<removeChunks(v), eachElement(v, [callable |-> "character"])>>))
      [] f.callable = "signed"             -> Just(integralSigned(v))
      [] f.callable = "unsigned"           -> Just(integralUnsigned(v))
      [] f.callable = "towards"            -> Just(towards(v, f.target))
      [] f.callable = "real"               -> Just(real(v))
      [] f.callable = "boolean"            -> Just(boolean(v))
      [] f.callable = "character"          -> Just(character(v))
=============================================================================
