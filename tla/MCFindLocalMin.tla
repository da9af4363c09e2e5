--------------------------- MODULE MCFindLocalMin ---------------------------
EXTENDS FindLocalMin

(* Sequences of every class, with callables that may throw *)

Values  == 0..2
Maybes  == {Nothing} \cup {Just(v) : v \in Values}
Preds   == {Table(p) : p \in [Values -> {Nothing, Just(TRUE), Just(FALSE)}]}
Mappers == {Table(f) : f \in [Values -> Maybes]}

\* Mappers to a Maybe, where the first Just says that they do not throw.
MaybeMappers == {Table(f) : f \in [Values -> {Nothing, Just(Nothing), Just(Just(1))}]}

Adds  == Table([t \in Values \X Values |-> IF t = <<2, 0>> THEN Nothing ELSE Just(t[1] + t[2])])
Inner == [v \in Values |-> Just(IF v = 1 THEN Empty ELSE range(v, 2 * v + 1))]

FiniteSeqs == {fromContainer(<<0, 1, 2>>), range(2, -1), just(<<1, 1, 0>>), Empty}
Cycles     == {cycle(just(<<2, 0>>)), cycle(fromContainer(<<0, 1>>))}
Sources    == FiniteSeqs \cup Cycles \cup {repeat(1)}

Seqs ==
    UNION {Sources,
      {iterate(0, f) : f \in Mappers},
      {drop(n, s) : n \in 0..4, s \in Sources} \cup {take(n, s) : n \in 0..4, s \in Sources},
      {map(s, f) : s \in Sources, f \in Mappers},
      {filter(s, p) : s \in FiniteSeqs, p \in Preds},
      {takeWhile(s, p) : s \in Sources, p \in Preds},
      {dropWhile(s, p) : s \in FiniteSeqs, p \in Preds},
      {mapMaybe(s, f) : s \in FiniteSeqs, f \in MaybeMappers},
      {zipWith(Adds, s, t) : s \in Sources, t \in Sources},
      {concat(<<s, t, u>>) : s \in FiniteSeqs, t \in FiniteSeqs, u \in Sources},
      {mapcat(s, Table([Inner EXCEPT ![v] = Nothing])) : s \in FiniteSeqs, v \in Values},
      {mapcat(s, Table(Inner)) : s \in FiniteSeqs \cup Cycles},
      {join(fromContainer(<<s, t, take(1, s)>>)) : s \in FiniteSeqs, t \in FiniteSeqs},
      {subranges(n, 3) : n \in 0..3}}

(* Trees *)

MCFamilies == {"seq", "signed", "unsigned", "inRange", "real", "boolean", "character",
               "string", "container", "array", "maybe", "filter", "map", "mapcat",
               "pair", "tuple", "postShrink", "noShrink",
               "set", "setOf", "mapContainer", "unique", "uniqueOf"}

RangeMin == -7
Chars == {"a", "b", "c", "d", "A", "B", "C", "D", "1", "2", "3", "9", " ", "\n"}

Recur(v, f) == shrinkRecur(v, [callable |-> f])
InRange(v, min) == shrinkRecur(v, [callable |-> "towards", target |-> min])

Vectors(S, n) == UNION {[1..k -> S] : k \in 0..n}
Trees(v, f) == [i \in DOMAIN v |-> Recur(v[i], f)]

Distinct(v) == \A i, j \in DOMAIN v : v[i] = v[j] => i = j

\* Vectors of numbers with different remainders, and pairs with different keys.
Remainder(n)  == n % 3
MCUnique      == UniqueBy(Table([n \in Signed |-> Just(Remainder(n))]))
Remainders(v) == [i \in DOMAIN v |-> Remainder(v[i])]
Pairs(v)      == [i \in DOMAIN v |-> pair(Recur(v[i][1], "unsigned"), Recur(v[i][2], "signed"))]
FirstOf(v)    == [i \in DOMAIN v |-> v[i][1]]

IsOdd(n)  == n % 2 = 1
Odd       == Table([n \in Signed |-> Just(IsOdd(n))])
Twice     == Table([n \in Unsigned |-> Just(2 * n)])
\* A dependent generator: n, and a number between 0 and n.
Dependent == Table([n \in 0..5 |-> Just(mapTree(InRange((3 * n) % (n + 1), 0),
                     Table([m \in 0..5 |-> Just(<<n, m>>)])))])

SomeTrees(k) ==
    CASE k = "signed"     -> {Recur(n, "signed") : n \in Signed}
      [] k = "unsigned"   -> {Recur(n, "unsigned") : n \in Unsigned}
      [] k = "inRange"    -> {InRange(n, RangeMin) : n \in RangeMin..Highest}
      [] k = "real"       -> {Recur(h, "real") : h \in -5..5}
      [] k = "boolean"    -> {Recur(b, "boolean") : b \in BOOLEAN}
      [] k = "character"  -> {Recur(c, "character") : c \in Chars}
      [] k = "string"     -> {Recur(s, "shrinksOfString") : s \in Vectors({"b", "D", "9"}, 3)}
      [] k = "noShrink"   -> {noShrink(Recur(n, "signed")) : n \in Signed}
      [] k = "container"  -> {container(Collection, Trees(v, "signed")) : v \in Vectors({-2, 0, 3}, 3)}
      [] k = "set"        -> {container(SetStrategy, Trees(v, "signed")) :
                                v \in {w \in Vectors({-2, 0, 3}, 3) : Distinct(w)}}
      [] k = "setOf"      -> {containerOf(SetStrategy, Trees(v, "signed")) :
                                v \in {w \in [1..2 -> {-3, 0, 2, 5}] : Distinct(w)}}
      [] k = "mapContainer" -> {container(MapStrategy, Pairs(v)) :
                                v \in {w \in Vectors({0, 1, 3} \X {-1, 2}, 2) : Distinct(FirstOf(w))}}
      [] k = "unique"     -> {container(MCUnique, Trees(v, "signed")) :
                                v \in {w \in Vectors({-3, 0, 2, 4}, 3) : Distinct(Remainders(w))}}
      [] k = "uniqueOf"   -> {containerOf(MCUnique, Trees(v, "signed")) :
                                v \in {w \in [1..2 -> {-3, -2, 2, 4, 7}] : Distinct(Remainders(w))}}
      [] k = "array"      -> {array(Trees(v, "signed")) : v \in [1..2 -> {-2, 3, Lowest}]}
      [] k = "maybe"      -> {prependNothing(mapTree(Recur(n, "signed"), [callable |-> "toMaybe"])) :
                                n \in Signed}
      [] k = "filter"     -> UNION {{t[1] : t \in {filterTree(Recur(n, "signed"), Odd)[1]} \ {Nothing}} :
                                n \in Signed}
      [] k = "map"        -> {mapTree(Recur(n, "unsigned"), Twice) : n \in Unsigned}
      [] k = "mapcat"     -> {mapcatTree(InRange(n, 0), Dependent) : n \in 0..5}
      [] k = "pair"       -> {pair(Recur(m, "signed"), InRange(n, RangeMin)) :
                                m \in {-3, 5}, n \in {-2, 6}}
      [] k = "tuple"      -> {tuple(Trees(v, "signed")) : v \in [1..3 -> {-3, 0, 4}]}
      [] k = "postShrink" -> {postShrink(InRange(n, 4), [callable |-> "signed"]) : n \in 4..Highest}

\* Sequences of all classes, and of the values that the trees of the other
\* families shrink to.
MCRoots(k) ==
    IF k # "seq" THEN SomeTrees(k)
    ELSE {justTree(Nothing, s) : s \in Seqs \cup
           UNION {{immediateShrinks(t) : t \in SomeTrees(f)} :
                    f \in MCFamilies \ {"seq"}}}

\* Everything outside of an interval; thresholds are among these.
Gap(a, b)     == [name |-> "gap", from |-> a, to |-> b]
AtLeast(n)    == [name |-> "atLeast", n |-> n]
SumAtLeast(n) == [name |-> "sumAtLeast", n |-> n]
OneOf(S)      == [name |-> "oneOf", values |-> S]
NotOneOf(S)   == [name |-> "notOneOf", values |-> S]
Has(c)        == [name |-> "has", element |-> c]

SizedAtLeast(n) == [name |-> "sizedAtLeast", n |-> n]
Reaches(n)      == [name |-> "reaches", n |-> n]

Gaps(S) == UNION {{Gap(a, b) : b \in {x \in S : x >= a}} : a \in S}

Lowermost(S)  == CHOOSE x \in S : \A y \in S : x <= y
Thresholds(S) == {Gap(Lowermost(S), n) : n \in S} \cup {Gap(n, n) : n \in S}

MCPredicates(k) ==
    CASE k = "seq"       -> {OneOf({})}
      [] k = "boolean"   -> {OneOf(S) : S \in SUBSET BOOLEAN}
      [] k = "character" -> {OneOf({x, y}) : x \in Chars, y \in Chars}
      [] k = "string"    -> {AtLeast(n) : n \in 0..3} \cup {Has("9"), Has("b")}
      [] k = "container" -> {AtLeast(n) : n \in 0..3} \cup {SumAtLeast(n) : n \in 1..4}
      [] k \in {"set", "setOf", "mapContainer"} ->
                            {SizedAtLeast(n) : n \in 0..3} \cup {Reaches(n) : n \in 1..3}
      [] k \in {"unique", "uniqueOf"} -> {AtLeast(n) : n \in 0..3} \cup {SumAtLeast(n) : n \in -2..4}
      [] k = "maybe"     -> {NotOneOf({}), NotOneOf({Nothing})}
                       \cup {NotOneOf({Nothing, Just(n)}) : n \in Signed}
      [] k \in {"array", "mapcat", "pair", "tuple"} -> {SumAtLeast(n) : n \in -9..4}
      [] k = "real"      -> Gaps(-5..5)
      [] k = "signed"    -> Gaps(Signed)
      [] k = "unsigned"  -> Thresholds(Unsigned)
      [] k = "map"       -> Thresholds({2 * n : n \in Unsigned})
      [] OTHER           -> Thresholds(Signed)

MCSatisfies(p, v) ==
    CASE p.name = "gap"        -> v < p.from \/ v > p.to
      [] p.name = "atLeast"    -> Len(v) >= p.n
      [] p.name = "sumAtLeast" -> FoldLeft(LAMBDA a, b : a + b, 0, v) >= p.n
      [] p.name = "sizedAtLeast" -> Cardinality(v) >= p.n
      [] p.name = "reaches"    -> \E x \in v : (IF family = "mapContainer" THEN x[1] + x[2] ELSE x) >= p.n
      [] p.name = "oneOf"      -> v \in p.values
      [] p.name = "notOneOf"   -> v \notin p.values
      [] p.name = "has"        -> p.element \in Range(v)

MCInDomain(k, v) ==
    CASE k = "signed"     -> v \in Signed
      [] k = "unsigned"   -> v \in Unsigned
      [] k = "inRange"    -> v \in RangeMin..Highest
      [] k = "real"       -> v \in -5..5
      [] k = "boolean"    -> v \in BOOLEAN
      [] k = "character"  -> v \in Chars
      [] k = "string"     -> Len(v) <= 3 /\ Range(v) \subseteq Chars
      [] k = "container"  -> Len(v) <= 3 /\ Range(v) \subseteq Signed
      [] k = "noShrink"   -> v \in Signed
      [] k = "set"        -> v \subseteq Signed
      [] k = "setOf"      -> v \subseteq Signed /\ Cardinality(v) = 2
      [] k = "mapContainer" -> /\ v \subseteq Unsigned \X Signed
                             /\ \A x, y \in v : x[1] = y[1] => x = y
      [] k = "unique"     -> Range(v) \subseteq Signed /\ Distinct(Remainders(v))
      [] k = "uniqueOf"   -> Len(v) = 2 /\ Range(v) \subseteq Signed /\ Distinct(Remainders(v))
      [] k = "array"      -> Len(v) = 2 /\ Range(v) \subseteq Signed
      [] k = "maybe"      -> v = Nothing \/ v[1] \in Signed
      [] k = "filter"     -> v \in Signed /\ IsOdd(v)
      [] k = "map"        -> v \div 2 \in Unsigned /\ ~IsOdd(v)
      [] k = "mapcat"     -> v[2] \in 0..v[1] /\ v[1] \in 0..5
      [] k = "pair"       -> v[1] \in Signed /\ v[2] \in RangeMin..Highest
      [] k = "tuple"      -> Len(v) = 3 /\ Range(v) \subseteq Signed
      [] k = "postShrink" -> v \in Signed

(* Shrinks that the tests of shrink/ShrinkTests.cpp look for: the adjacent
   number, the positive one, a vector with one element less *)

SimplerInt(n) == CASE n = 0 -> {}
                   [] n > 0 -> {0, n - 1}
                   [] n < 0 -> {0, n + 1} \cup ({-n} \cap Signed)

SimplerInRange(n, min) == IF n = min THEN {} ELSE {min, n - 1}

SimplerChar(c) == IF c = "a" THEN {} ELSE {"a", ToLower(c)} \ {c}

Shorter(v) == {RemoveAt(v, i) : i \in DOMAIN v}

\* A set with one element simpler, and a map with one key or one value simpler.
SimplerIn(v, S(_)) == UNION {{(v \ {x}) \cup {y} : y \in S(x) \ v} : x \in v}

SimplerPair(v, x) ==
         {<<k, x[2]>> : k \in SimplerInRange(x[1], 0) \ {y[1] : y \in v}}
    \cup {<<x[1], n>> : n \in SimplerInt(x[2])}

SimplerAt(v, S(_)) == UNION {{[v EXCEPT ![i] = x] : x \in S(v[i])} : i \in DOMAIN v}

MCSimpler(k, v) ==
    CASE k = "signed"     -> SimplerInt(v)
      [] k = "unsigned"   -> SimplerInRange(v, 0)
      [] k = "inRange"    -> SimplerInRange(v, RangeMin)
      [] k = "real"       -> (IF v < 0 THEN {-v} ELSE {}) \cup ({0, Trunc(v)} \ {v})
      [] k = "boolean"    -> {FALSE} \ {v}
      [] k = "character"  -> SimplerChar(v)
      [] k = "string"     -> Shorter(v) \cup SimplerAt(v, SimplerChar)
      [] k = "container"  -> Shorter(v) \cup SimplerAt(v, SimplerInt)
      [] k = "noShrink"   -> {}
      [] k = "set"        -> {v \ {x} : x \in v} \cup SimplerIn(v, SimplerInt)
      [] k = "setOf"      -> SimplerIn(v, SimplerInt)
      [] k = "mapContainer" -> {v \ {x} : x \in v}
                        \cup SimplerIn(v, LAMBDA x : SimplerPair(v, x))
      [] k = "unique"     -> Shorter(v) \cup {w \in SimplerAt(v, SimplerInt) : Distinct(Remainders(w))}
      [] k = "uniqueOf"   -> {w \in SimplerAt(v, SimplerInt) : Distinct(Remainders(w))}
      [] k \in {"array", "tuple"} -> SimplerAt(v, SimplerInt)
      [] k = "maybe"      -> IF v = Nothing THEN {}
                             ELSE {Nothing} \cup {Just(n) : n \in SimplerInt(v[1])}
      [] k = "filter"     -> {n \in SimplerInt(v) : IsOdd(n)}
      [] k = "map"        -> IF v = 0 THEN {} ELSE {0, v - 2}
      [] k = "mapcat"     -> {<<v[1], m>> : m \in SimplerInRange(v[2], 0)}
      [] k = "pair"       -> {<<m, v[2]>> : m \in SimplerInt(v[1])}
                        \cup {<<v[1], n>> : n \in SimplerInRange(v[2], RangeMin)}
      [] k = "postShrink" -> SimplerInt(v)
=============================================================================
