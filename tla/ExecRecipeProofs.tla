-------------------------- MODULE ExecRecipeProofs --------------------------
(***************************************************************************)
(* Replay from a Recipe, for every callable, any number of values it draws *)
(* and any depth of the shrink tree: the runs of one case agree, each draw *)
(* gets a value of its own generator and of its own split, and between a   *)
(* case and its shrink one value was shrunk.                               *)
(*                                                                         *)
(* The argument is that a recipe is known: the callable has once drawn all *)
(* of it, up to the value that was shrunk, and that one was drawn from the *)
(* same generator.  A callable that does what it did before cannot but     *)
(* draw it all again, and what it draws after that depends only on how     *)
(* many values it has drawn, so two runs on a recipe do not come apart.    *)
(***************************************************************************)
EXTENDS ExecRecipe, SequenceTheorems, TLAPS

IsSeq(s) == s \in Seq({s[k] : k \in DOMAIN s})

Prefix(s, n) == [k \in 1..n |-> s[k]]

\* The callable cs draws s, as far as that goes.
Draws(cs, s) ==
    \A k \in DOMAIN s : Prefix(s, k - 1) \in DOMAIN cs /\ cs[Prefix(s, k - 1)] = s[k].gen

\* The k-th ingredient of a recipe comes from the k-th split.
IsNode(node, k) ==
    \E g \in Gens : \E path : node = [gen |-> g, random |-> k - 1, path |-> path]

Nodes(s) == IsSeq(s) /\ \A k \in DOMAIN s : IsNode(s[k], k)

\* What is drawn with a recipe of ingredients r: first these, then anew.
Follows(s, r) ==
    /\ Len(r) <= Len(s)
    /\ \A k \in 1..Len(r) : s[k] = r[k]
    /\ \A k \in (Len(r) + 1)..Len(s) : s[k] = Fresh(s[k].gen, k - 1)

Types ==
    /\ pc \in {"value", "shrinks", "expanded", "failed"}
    /\ Nodes(recipe.ingredients) /\ Draws(calls, recipe.ingredients)
    /\ Nodes(result.ingredients)
    /\ Nodes(seen) /\ Draws(calls, seen)
    /\ \E n \in Nat : \E s : recipe = [ingredients |-> s, numFixed |-> n]
    /\ \E n \in Nat : \E s : result = [ingredients |-> s, numFixed |-> n]

\* The run under way: first the recipe is replayed, then it grows.
Runs ==
    Running =>
      /\ splits = Len(seen) /\ m_it = Len(seen) + 1
      /\ \/ /\ Len(seen) < Len(recipe.ingredients)
            /\ result.ingredients = recipe.ingredients
            /\ \A k \in 1..Len(seen) : seen[k] = recipe.ingredients[k]
         \/ result.ingredients = seen /\ Follows(seen, recipe.ingredients)

\* Where a run ends, and whether its value comes out of it.
Ends(s)    == s \in DOMAIN calls /\ calls[s] \in {"return", "throw"}
Returns(s) == calls[s] = "return" \/ Caught(s)

\* What the run for the value drew.
Drawn(s) ==
    /\ Nodes(s) /\ Draws(calls, s) /\ Follows(s, recipe.ingredients) /\ Ends(s)
    /\ shown = IF Returns(s) THEN {s} ELSE {}

\* The run for the shrinks is on the way of the one for the value.
Replays ==
    /\ pc = "value" => shown = {}
    /\ pc = "shrinks" =>
         \E s : /\ Drawn(s) /\ Len(seen) <= Len(s)
                /\ \A k \in 1..Len(seen) : seen[k] = s[k]
    /\ pc = "expanded" =>
         /\ result.ingredients = seen /\ shown = {seen} /\ Follows(seen, recipe.ingredients)
    /\ pc = "failed" => shown = {}

\* The recipe is a shrunk one of the parent's ingredients.
FromParent ==
    \A old \in parent :
      \E i \in DOMAIN old :
        /\ IsSeq(old) /\ i = Len(recipe.ingredients)
        /\ \A k \in 1..(i - 1) : recipe.ingredients[k] = old[k]
        /\ recipe.ingredients[i] \in Shrinks(old[i])

\* The callable is not called where its arguments have thrown, and a property has a
\* result everywhere else.
Results ==
    /\ \A s \in DOMAIN calls : ArgsThrew(s) => calls[s] = "throw"
    /\ adapted /\ pc \in {"expanded", "failed"} => (shown = {} <=> ArgsThrew(seen))

IInv == Types /\ Runs /\ Replays /\ FromParent /\ Results

-----------------------------------------------------------------------------
(* Sequences *)

LEMMA SeqFacts ==
    ASSUME NEW s, IsSeq(s)
    PROVE  Len(s) \in Nat /\ DOMAIN s = 1..Len(s)
BY LenProperties DEF IsSeq

LEMMA IsSeqOf ==
    ASSUME NEW S, NEW s \in Seq(S)
    PROVE  IsSeq(s)
<1>1. s \in [1..Len(s) -> S] /\ Len(s) \in Nat /\ DOMAIN s = 1..Len(s)
  BY LenProperties
<1> DEFINE T == {s[k] : k \in DOMAIN s}
<1>2. s \in [1..Len(s) -> T]
  BY <1>1
<1>3. s \in Seq(T)
  <2> HIDE DEF T
  <2> QED
    BY <1>1, <1>2
<1> QED
  BY <1>3 DEF IsSeq

\* Append: the sequence, and one more.
LEMMA Appended ==
    ASSUME NEW s, IsSeq(s), NEW e
    PROVE  /\ IsSeq(Append(s, e)) /\ Len(Append(s, e)) = Len(s) + 1
           /\ \A k \in 1..Len(s) : Append(s, e)[k] = s[k]
           /\ Append(s, e)[Len(s) + 1] = e
<1> DEFINE S == {s[k] : k \in DOMAIN s} \cup {e}
           a == Append(s, e)
<1>1. s \in Seq(S)
  <2>1. s \in [1..Len(s) -> S] /\ Len(s) \in Nat
    BY LenProperties DEF IsSeq
  <2> QED
    BY <2>1 DEF IsSeq
<1>2. /\ a \in Seq(S) /\ Len(a) = Len(s) + 1
      /\ \A k \in 1..Len(s) : a[k] = s[k]
      /\ a[Len(s) + 1] = e
  BY <1>1, AppendProperties
<1>3. IsSeq(a)
  BY <1>2, IsSeqOf
<1> QED
  BY <1>2, <1>3

\* Sequences of the same length with the same elements are the same.
LEMMA SameSeq ==
    ASSUME NEW s, NEW t, IsSeq(s), IsSeq(t), Len(s) = Len(t),
           \A k \in 1..Len(s) : s[k] = t[k]
    PROVE  s = t
<1> DEFINE S == {s[k] : k \in DOMAIN s}
<1>1. s \in [1..Len(s) -> S] /\ Len(s) \in Nat
  BY LenProperties DEF IsSeq
<1>2. t \in [1..Len(t) -> {t[k] : k \in DOMAIN t}]
  BY LenProperties DEF IsSeq
<1> QED
  BY <1>1, <1>2

\* What comes before an element, as the properties say it.
LEMMA PrefixSubSeq ==
    ASSUME NEW s, IsSeq(s), NEW n \in 0..Len(s)
    PROVE  /\ SubSeq(s, 1, n) = Prefix(s, n)
           /\ IsSeq(SubSeq(s, 1, n)) /\ Len(SubSeq(s, 1, n)) = n
           /\ \A k \in 1..n : SubSeq(s, 1, n)[k] = s[k]
<1> DEFINE p == SubSeq(s, 1, n)
           S == {s[k] : k \in DOMAIN s}
<1>1. Len(s) \in Nat /\ DOMAIN s = 1..Len(s)
  BY SeqFacts
<1>2. \A k \in 1..n : s[k] \in S
  BY <1>1
<1>3. /\ p \in Seq(S) /\ Len(p) = IF 1 <= n THEN n - 1 + 1 ELSE 0
      /\ \A k \in 1..(n - 1 + 1) : p[k] = s[1 + k - 1]
  <2> HIDE DEF S
  <2> QED
    BY <1>1, <1>2, SubSeqProperties
<1>4. Len(p) = n /\ \A k \in 1..n : p[k] = s[k]
  BY <1>1, <1>3
<1>5. p \in [1..n -> S]
  BY <1>3, <1>4, LenProperties
<1>6. IsSeq(p)
  BY <1>3, IsSeqOf
<1> HIDE DEF p, S
<1>7. p = [k \in 1..n |-> s[k]]
  BY <1>4, <1>5
<1> QED
  BY <1>4, <1>6, <1>7 DEF p, Prefix

\* A sequence that agrees with another as far as it goes is a prefix of it.
LEMMA IsPrefix ==
    ASSUME NEW s, NEW t, IsSeq(s), \A k \in 1..Len(s) : s[k] = t[k]
    PROVE  s = Prefix(t, Len(s))
<1>1. s \in [1..Len(s) -> {s[k] : k \in DOMAIN s}]
  BY LenProperties DEF IsSeq
<1> QED
  BY <1>1 DEF Prefix

-----------------------------------------------------------------------------
(* Steps of a run *)

\* What was drawn next once is drawn next again.
Grows == \A s \in DOMAIN calls : s \in DOMAIN calls' /\ calls'[s] = calls[s]

LEMMA DoesNext ==
    ASSUME NEW c, Does(c)
    PROVE  /\ Grows /\ Running /\ c \in NextCall(seen)
           /\ seen \in DOMAIN calls' /\ calls'[seen] = c
           /\ seen \in DOMAIN calls => calls[seen] = c
BY DEF Does, Grows, NextCall

\* Drawing the arguments throws whenever it has, and nothing comes after that.
LEMMA ArgsStay ==
    ASSUME Results, NEW c, Does(c), UNCHANGED form
    PROVE  \A s \in DOMAIN calls' : ArgsThrew(s)' => calls'[s] = "throw"
<1>1. \A s : ArgsThrew(s)' = ArgsThrew(s)
  BY DEF ArgsThrew, form
<1>2. /\ DOMAIN calls' = DOMAIN calls \cup {seen}
      /\ \A s \in DOMAIN calls' : calls'[s] = IF s = seen THEN c ELSE calls[s]
  BY DEF Does
<1>3. ArgsThrew(seen) => c = "throw"
  BY DEF Does, NextCall, Results
<1> QED
  BY <1>1, <1>2, <1>3 DEF Results

LEMMA DrawsMore ==
    ASSUME Grows
    PROVE  \A s : Draws(calls, s) => Draws(calls', s)
BY DEF Grows, Draws

\* Once more is drawn.
LEMMA DrawsNext ==
    ASSUME NEW cs, NEW s, IsSeq(s), Draws(cs, s), NEW e,
           s \in DOMAIN cs, cs[s] = e.gen
    PROVE  Draws(cs, Append(s, e))
<1> DEFINE a == Append(s, e)
<1>1. /\ IsSeq(a) /\ Len(a) = Len(s) + 1
      /\ \A k \in 1..Len(s) : a[k] = s[k]
      /\ a[Len(s) + 1] = e
  BY Appended
<1>2. DOMAIN a = 1..(Len(s) + 1) /\ DOMAIN s = 1..Len(s) /\ Len(s) \in Nat
  BY <1>1, SeqFacts
<1> HIDE DEF a
<1>3. ASSUME NEW k \in DOMAIN a
      PROVE  Prefix(a, k - 1) \in DOMAIN cs /\ cs[Prefix(a, k - 1)] = a[k].gen
  <2>1. CASE k \in 1..Len(s)
    <3>1. Prefix(a, k - 1) = Prefix(s, k - 1)
      BY <1>1, <1>2, <2>1 DEF Prefix
    <3> QED
      BY <1>1, <1>2, <2>1, <3>1 DEF Draws
  <2>2. CASE k = Len(s) + 1
    <3>1. s = Prefix(a, Len(s))
      BY <1>1, IsPrefix
    <3>2. Prefix(a, k - 1) = s
      BY <1>2, <2>2, <3>1
    <3> QED
      BY <1>1, <2>2, <3>2
  <2> QED
    BY <1>2, <1>3, <2>1, <2>2
<1>4. Draws(cs, a)
  BY <1>3 DEF Draws
<1> QED
  BY <1>4 DEF a

LEMMA NodesNext ==
    ASSUME NEW s, Nodes(s), NEW e, IsNode(e, Len(s) + 1)
    PROVE  Nodes(Append(s, e))
<1> DEFINE a == Append(s, e)
<1>1. /\ IsSeq(a) /\ Len(a) = Len(s) + 1
      /\ \A k \in 1..Len(s) : a[k] = s[k]
      /\ a[Len(s) + 1] = e
  BY Appended DEF Nodes
<1>2. DOMAIN a = 1..(Len(s) + 1) /\ DOMAIN s = 1..Len(s) /\ Len(s) \in Nat
  BY <1>1, SeqFacts DEF Nodes
<1> HIDE DEF a
<1>3. \A k \in DOMAIN a : IsNode(a[k], k)
  BY <1>1, <1>2 DEF Nodes
<1>4. Nodes(a)
  BY <1>1, <1>3 DEF Nodes
<1> QED
  BY <1>4 DEF a

\* An operation that draws nothing ends the run: the recipe has been replayed.
LEMMA NothingDrawn ==
    ASSUME IInv, NEW c \in {"return", "throw"}, Does(c)
    PROVE  result.ingredients = seen /\ Follows(seen, recipe.ingredients)
<1> DEFINE r == recipe.ingredients
<1>1. SUFFICES ASSUME Len(seen) < Len(r), \A k \in 1..Len(seen) : seen[k] = r[k]
               PROVE  FALSE
  BY DoesNext DEF IInv, Runs
<1>2. Nodes(r) /\ Draws(calls, r) /\ IsSeq(seen) /\ IsSeq(r)
  BY DEF IInv, Types, Nodes
<1>3. Len(seen) \in Nat /\ Len(r) \in Nat /\ DOMAIN r = 1..Len(r)
  BY <1>2, SeqFacts
<1> HIDE DEF r
<1>4. seen = Prefix(r, Len(seen))
  BY <1>1, <1>2, IsPrefix
<1>5. Len(seen) + 1 \in DOMAIN r /\ (Len(seen) + 1) - 1 = Len(seen)
  BY <1>1, <1>3
<1>6. seen \in DOMAIN calls /\ calls[seen] = r[Len(seen) + 1].gen
  BY <1>2, <1>4, <1>5 DEF Draws
<1>7. r[Len(seen) + 1].gen \in Gens
  BY <1>2, <1>5 DEF Nodes, IsNode
<1> QED
  BY <1>6, <1>7, DoesNext, ExecAssumption
\* A run begins with a fresh copy of the recipe.
LEMMA RunBegins ==
    ASSUME NEW p \in {"value", "shrinks"}, Exec(recipe', p),
           Nodes(recipe.ingredients)'
    PROVE  /\ Runs' /\ Nodes(seen)' /\ Nodes(result.ingredients)'
           /\ seen' = <<>> /\ Draws(calls', seen')
<1>1. result' = recipe' /\ m_it' = 1 /\ splits' = 0 /\ seen' = <<>> /\ pc' = p
  BY DEF Exec
<1>2. <<>> \in Seq({}) /\ Len(<<>>) = 0 /\ DOMAIN <<>> = {}
  OBVIOUS
<1>3. IsSeq(<<>>)
  BY <1>2, IsSeqOf
<1>4. Nodes(seen)' /\ Draws(calls', seen')
  BY <1>1, <1>2, <1>3 DEF Nodes, Draws
<1>5. Nodes(result.ingredients)'
  BY <1>1 DEF Nodes, IsNode
<1>6. Runs'
  <2> DEFINE r == recipe'.ingredients
  <2>1. IsSeq(r) /\ Len(r) \in Nat
    BY SeqFacts DEF Nodes
  <2>2. CASE 0 < Len(r)
    BY <1>1, <1>2, <2>2 DEF Runs
  <2>3. CASE Len(r) = 0
    <3>1. r = <<>>
      <4> HIDE DEF r
      <4> QED
        BY <1>2, <1>3, <2>1, <2>3, SameSeq
    <3>2. Follows(<<>>, r)
      BY <1>2, <3>1 DEF Follows
    <3> QED
      BY <1>1, <1>2, <3>1, <3>2 DEF Runs
  <2> QED
    BY <2>1, <2>2, <2>3
<1> QED
  BY <1>1, <1>4, <1>5, <1>6

\* What was drawn for the value stays drawn.
LEMMA DrawnStays ==
    ASSUME Grows, UNCHANGED <<form, recipe, shown>>, NEW s, Drawn(s)
    PROVE  Drawn(s)'
<1>1. s \in DOMAIN calls' /\ calls'[s] = calls[s]
  BY DEF Grows, Drawn, Ends
<1>2. Ends(s)' /\ Returns(s)' = Returns(s)
  BY <1>1 DEF Drawn, Ends, Returns, Caught, ArgsThrew, form
<1>3. Draws(calls', s)
  BY DrawsMore DEF Drawn
<1> QED
  BY <1>2, <1>3 DEF Drawn, Nodes, IsNode, Follows, Fresh

LEMMA FromParentStays ==
    ASSUME FromParent, UNCHANGED <<recipe, parent>>
    PROVE  FromParent'
BY DEF FromParent, Shrinks

\* Two runs on a recipe, the second on the way of the first: what one does next the
\* other did too.
LEMMA InStep ==
    ASSUME IInv, NEW c, Does(c), NEW s, Drawn(s), Len(seen) <= Len(s),
           \A k \in 1..Len(seen) : seen[k] = s[k]
    PROVE  \/ /\ c \in {"return", "throw"} /\ s = seen /\ calls[s] = c
           \/ /\ c \in Gens /\ Len(seen) < Len(s) /\ s[Len(seen) + 1].gen = c
<1> DEFINE n == Len(seen)
<1>1. IsSeq(seen) /\ IsSeq(s) /\ Draws(calls, s) /\ \A k \in DOMAIN s : IsNode(s[k], k)
  BY DEF IInv, Types, Drawn, Nodes
<1>2. n \in Nat /\ Len(s) \in Nat /\ DOMAIN s = 1..Len(s)
  BY <1>1, SeqFacts
<1>3. c \in Gens \cup {"return", "throw"}
  <2>1. c \in NextCall(seen)
    BY DoesNext
  <2>2. CASE n = Len(s)
    <3>1. seen = s
      BY <1>1, <2>2, SameSeq
    <3> QED
      BY <3>1, DoesNext DEF Drawn, Ends
  <2>3. CASE n < Len(s)
    <3>1. seen = Prefix(s, n)
      BY <1>1, IsPrefix
    <3>2. n + 1 \in DOMAIN s /\ (n + 1) - 1 = n
      BY <1>2, <2>3
    <3>3. seen \in DOMAIN calls /\ calls[seen] = s[n + 1].gen
      BY <1>1, <3>1, <3>2 DEF Draws
    <3>4. s[n + 1].gen \in Gens
      BY <1>1, <3>2 DEF IsNode
    <3> QED
      BY <3>3, <3>4, DoesNext
  <2> QED
    BY <1>2, <2>2, <2>3
<1>4. CASE n = Len(s)
  <2>1. seen = s
    BY <1>1, <1>4, SameSeq
  <2>2. calls[s] = c /\ c \in {"return", "throw"}
    BY <2>1, DoesNext DEF Drawn, Ends
  <2> QED
    BY <2>1, <2>2
<1>5. CASE n < Len(s)
  <2>1. seen = Prefix(s, n)
    BY <1>1, IsPrefix
  <2>2. n + 1 \in DOMAIN s /\ (n + 1) - 1 = n
    BY <1>2, <1>5
  <2>3. seen \in DOMAIN calls /\ calls[seen] = s[n + 1].gen
    BY <1>1, <2>1, <2>2 DEF Draws
  <2>4. s[n + 1].gen \in Gens
    BY <1>1, <2>2 DEF IsNode
  <2> QED
    BY <1>5, <2>3, <2>4, DoesNext
<1> QED
  BY <1>2, <1>4, <1>5

\* ExecHandler::onGenerate.
LEMMA GenerateStep ==
    ASSUME IInv, NEW g \in Gens, Generate(g)
    PROVE  IInv'
<1> DEFINE r == recipe.ingredients
           n == Len(seen)
<1>1. /\ Does(g) /\ Grows /\ Running
      /\ result' = [result EXCEPT !.ingredients = Ingredients(g)]
      /\ m_it' = m_it + 1 /\ splits' = splits + 1
      /\ seen' = Append(seen, Ingredients(g)[m_it])
      /\ UNCHANGED <<form, recipe, pc, shown, parent>>
  BY DoesNext DEF Generate, SplitsAfter
<1>2. /\ Nodes(r) /\ Draws(calls, r) /\ Nodes(seen) /\ Draws(calls, seen)
      /\ IsSeq(r) /\ IsSeq(seen)
      /\ Len(r) \in Nat /\ DOMAIN r = 1..Len(r) /\ n \in Nat /\ DOMAIN seen = 1..n
      /\ splits = n /\ m_it = n + 1
  BY <1>1, SeqFacts DEF IInv, Types, Runs, Nodes
<1>3. /\ result'.ingredients = Ingredients(g)
      /\ \E m \in Nat : \E s : result' = [ingredients |-> s, numFixed |-> m]
  <2>1. PICK m \in Nat : \E s : result = [ingredients |-> s, numFixed |-> m]
    BY DEF IInv, Types
  <2>2. result' = [ingredients |-> Ingredients(g), numFixed |-> m]
    BY <1>1, <2>1
  <2> QED
    BY <2>2
\* The value is the recipe's, or is generated after all of them.
<1>4. PICK e : /\ IsNode(e, n + 1) /\ e.gen = g
               /\ seen' = Append(seen, e)
               /\ \/ /\ n < Len(r) /\ e = r[n + 1] /\ result'.ingredients = r
                     /\ \A k \in 1..n : seen[k] = r[k]
                  \/ /\ Follows(seen, r) /\ e = Fresh(g, n)
                     /\ result'.ingredients = Append(seen, e)
  <2>1. CASE n < Len(r) /\ result.ingredients = r /\ \A k \in 1..n : seen[k] = r[k]
    <3>1. Ingredients(g) = r
      BY <1>2, <2>1 DEF Ingredients
    <3>2. seen = Prefix(r, n)
      BY <1>2, <2>1, IsPrefix
    <3>3. n + 1 \in DOMAIN r /\ (n + 1) - 1 = n
      BY <1>2, <2>1
    <3>4. seen \in DOMAIN calls /\ calls[seen] = r[n + 1].gen
      BY <1>2, <3>2, <3>3 DEF Draws
    <3>5. r[n + 1].gen = g
      BY <1>1, <3>4, DoesNext
    <3>6. IsNode(r[n + 1], n + 1)
      BY <1>2, <3>3 DEF Nodes
    <3>7. seen' = Append(seen, r[n + 1]) /\ result'.ingredients = r
      BY <1>1, <1>2, <1>3, <3>1
    <3> HIDE DEF r, n
    <3> QED
      BY <2>1, <3>5, <3>6, <3>7
  <2>2. CASE result.ingredients = seen /\ Follows(seen, r)
    <3> DEFINE e == Fresh(g, n)
    <3>1. Ingredients(g) = Append(seen, e)
      <4>1. m_it > Len(result.ingredients)
        BY <1>2, <2>2
      <4> QED
        BY <1>2, <2>2, <4>1 DEF Ingredients
    <3>2. Append(seen, e)[n + 1] = e
      <4> HIDE DEF e
      <4> QED
        BY <1>2, Appended
    <3>3. e = [gen |-> g, random |-> (n + 1) - 1, path |-> <<>>]
      BY <1>2 DEF Fresh
    <3> HIDE DEF e
    <3>4. IsNode(e, n + 1) /\ e.gen = g
      BY <3>3 DEF IsNode
    <3> QED
      BY <1>1, <1>2, <1>3, <2>2, <3>1, <3>2, <3>4 DEF e
  <2> QED
    BY <1>1, <2>1, <2>2 DEF IInv, Runs
<1>5. /\ IsSeq(seen') /\ Len(seen') = n + 1
      /\ \A k \in 1..n : seen'[k] = seen[k]
      /\ seen'[n + 1] = e
  BY <1>2, <1>4, Appended
<1>6. Nodes(seen')
  BY <1>2, <1>4, NodesNext
<1>7. Draws(calls', seen')
  <2>1. Draws(calls', seen)
    BY <1>1, <1>2, DrawsMore
  <2>2. seen \in DOMAIN calls' /\ calls'[seen] = e.gen
    BY <1>1, <1>4, DoesNext
  <2> QED
    BY <1>2, <1>4, <2>1, <2>2, DrawsNext
<1>8. result'.ingredients = r \/ result'.ingredients = seen'
  BY <1>4
<1>9. Types'
  <2>1. Draws(calls', r)
    BY <1>1, <1>2, DrawsMore
  <2>2. Nodes(result'.ingredients)
    BY <1>2, <1>6, <1>8
  <2>3. pc' \in {"value", "shrinks", "expanded", "failed"} /\ recipe' = recipe
    BY <1>1 DEF IInv, Types
  <2>4. \E m \in Nat : \E s : recipe' = [ingredients |-> s, numFixed |-> m]
    BY <2>3 DEF IInv, Types
  <2>5. /\ Nodes(recipe'.ingredients) /\ Nodes(result'.ingredients) /\ Nodes(seen')
        /\ Draws(calls', recipe'.ingredients) /\ Draws(calls', seen')
    BY <1>2, <1>6, <1>7, <2>1, <2>2, <2>3
  <2> QED
    BY <1>3, <2>3, <2>4, <2>5 DEF Types
<1>10. ASSUME n < Len(r), e = r[n + 1], result'.ingredients = r,
              \A k \in 1..n : seen[k] = r[k]
       PROVE  Runs'
  <2>1. \A k \in 1..(n + 1) : seen'[k] = r[k]
    <3> TAKE k \in 1..(n + 1)
    <3>1. CASE k \in 1..n
      BY <1>5, <1>10, <3>1
    <3>2. CASE k = n + 1
      BY <1>5, <1>10, <3>2
    <3> QED
      BY <1>2, <3>1, <3>2
  <2>2. CASE n + 1 < Len(r)
    <3>1. splits' = Len(seen') /\ m_it' = Len(seen') + 1
      BY <1>1, <1>2, <1>5
    <3>2. Len(seen') < Len(recipe'.ingredients) /\ result'.ingredients = recipe'.ingredients
      BY <1>1, <1>5, <1>10, <2>2
    <3>3. \A k \in 1..Len(seen') : seen'[k] = recipe'.ingredients[k]
      BY <1>1, <1>5, <2>1
    <3> QED
      BY <3>1, <3>2, <3>3 DEF Runs
  <2>3. CASE n + 1 = Len(r)
    <3>1. seen' = r
      BY <1>2, <1>5, <2>1, <2>3, SameSeq
    <3>2. splits' = Len(seen') /\ m_it' = Len(seen') + 1
      BY <1>1, <1>2, <1>5
    <3>3. result'.ingredients = seen' /\ recipe'.ingredients = r
      BY <1>1, <1>10, <3>1
    <3>4. Follows(seen', recipe'.ingredients)
      BY <1>2, <3>1, <3>3 DEF Follows
    <3> QED
      BY <3>2, <3>3, <3>4 DEF Runs, Follows, Fresh
  <2>4. n + 1 < Len(r) \/ n + 1 = Len(r)
    BY <1>2, <1>10
  <2> HIDE DEF n, r
  <2> QED
    BY <2>2, <2>3, <2>4
<1>11. ASSUME Follows(seen, r), e = Fresh(g, n), result'.ingredients = Append(seen, e)
       PROVE  Runs'
  <2>1. splits' = Len(seen') /\ m_it' = Len(seen') + 1
    BY <1>1, <1>2, <1>5
  <2>2. result'.ingredients = seen' /\ recipe'.ingredients = r
    BY <1>1, <1>4, <1>11
  <2>3. Follows(seen', r)
    <3>1. Len(r) <= n /\ \A k \in 1..Len(r) : seen[k] = r[k]
      BY <1>11 DEF Follows
    <3>2. Len(r) <= Len(seen') /\ \A k \in 1..Len(r) : seen'[k] = r[k]
      BY <1>2, <1>5, <3>1
    <3>3. ASSUME NEW k \in (Len(r) + 1)..Len(seen')
          PROVE  seen'[k] = Fresh(seen'[k].gen, k - 1)
      <4>1. CASE k \in 1..n
        BY <1>2, <1>5, <1>11, <3>3, <4>1 DEF Follows
      <4>2. CASE k = n + 1
        <5>1. k - 1 = n
          BY <1>2, <4>2
        <5> QED
          BY <1>4, <1>5, <1>11, <4>2, <5>1
      <4> QED
        BY <1>2, <1>5, <3>3, <4>1, <4>2
    <3> QED
      BY <3>2, <3>3 DEF Follows
  <2> QED
    BY <2>1, <2>2, <2>3 DEF Runs, Follows, Fresh
<1>12. Runs'
  BY <1>4, <1>10, <1>11
\* Where the run for the value has been, this one goes as well.
<1>13. ASSUME NEW s, Drawn(s), Len(seen) <= Len(s), \A k \in 1..Len(seen) : seen[k] = s[k]
       PROVE  Drawn(s)' /\ Len(seen') <= Len(s) /\ \A k \in 1..Len(seen') : seen'[k] = s[k]
  <2>1. n < Len(s) /\ s[n + 1].gen = g
    BY <1>1, <1>13, InStep, ExecAssumption
  <2>2. IsSeq(s) /\ Len(s) \in Nat /\ Follows(s, r)
    BY <1>13, SeqFacts DEF Drawn, Nodes
  <2>3. s[n + 1] = e
    <3>1. CASE n < Len(r) /\ e = r[n + 1]
      BY <1>2, <2>2, <3>1 DEF Follows
    <3>2. CASE Follows(seen, r) /\ e = Fresh(g, n)
      <4>1. n + 1 \in (Len(r) + 1)..Len(s) /\ (n + 1) - 1 = n
        BY <1>2, <2>1, <2>2, <3>2 DEF Follows
      <4> QED
        BY <2>1, <2>2, <3>2, <4>1 DEF Follows
    <3> QED
      BY <1>4, <3>1, <3>2
  <2>4. Drawn(s)'
    BY <1>1, <1>13, DrawnStays
  <2>5. \A k \in 1..(n + 1) : seen'[k] = s[k]
    <3> TAKE k \in 1..(n + 1)
    <3>1. CASE k \in 1..n
      BY <1>5, <1>13, <3>1
    <3>2. CASE k = n + 1
      BY <1>5, <2>3, <3>2
    <3> QED
      BY <1>2, <3>1, <3>2
  <2>6. n + 1 <= Len(s)
    BY <1>2, <2>1, <2>2
  <2> QED
    BY <1>5, <2>4, <2>5, <2>6
<1>14. Replays'
  <2>1. pc' \in {"value", "shrinks"} /\ pc' = pc /\ shown' = shown
    BY <1>1 DEF Running
  <2>2. CASE pc = "value"
    BY <2>1, <2>2 DEF IInv, Replays
  <2>3. CASE pc = "shrinks"
    <3>1. PICK s : /\ Drawn(s) /\ Len(seen) <= Len(s)
                   /\ \A k \in 1..Len(seen) : seen[k] = s[k]
      BY <2>3 DEF IInv, Replays
    <3>2. Drawn(s)' /\ Len(seen') <= Len(s) /\ \A k \in 1..Len(seen') : seen'[k] = s[k]
      BY <3>1, <1>13
    <3> QED
      BY <2>1, <2>3, <3>2 DEF Replays
  <2> QED
    BY <2>1, <2>2, <2>3
<1>15. FromParent'
  BY <1>1, FromParentStays DEF IInv
<1>16. Results'
  <2>1. pc' \in {"value", "shrinks"}
    BY <1>1 DEF Running
  <2>2. \A s \in DOMAIN calls' : ArgsThrew(s)' => calls'[s] = "throw"
    BY <1>1, ArgsStay DEF IInv
  <2> QED
    BY <2>1, <2>2 DEF Results
<1> QED
  BY <1>9, <1>12, <1>14, <1>15, <1>16 DEF IInv
\* execWithRecipe is over: the callable has returned or thrown.
LEMMA EndStep ==
    ASSUME IInv, NEW c \in {"return", "throw"}, Does(c),
           UNCHANGED <<form, recipe, parent>>,
           IF c = "return" \/ Caught(seen) THEN Finish ELSE Escape
    PROVE  IInv'
<1> DEFINE out == c = "return" \/ Caught(seen)
<1>1. /\ Grows /\ Running /\ seen \in DOMAIN calls' /\ calls'[seen] = c
      /\ result.ingredients = seen /\ Follows(seen, recipe.ingredients)
  BY DoesNext, NothingDrawn
<1>2. /\ Nodes(recipe.ingredients) /\ Draws(calls', recipe.ingredients)
      /\ Nodes(seen) /\ Draws(calls', seen) /\ IsSeq(seen) /\ Len(seen) \in Nat
      /\ \E n \in Nat : \E s : recipe = [ingredients |-> s, numFixed |-> n]
      /\ \E n \in Nat : \E s : result = [ingredients |-> s, numFixed |-> n]
  BY <1>1, DrawsMore, SeqFacts DEF IInv, Types, Nodes
<1>3. /\ FromParent'
      /\ \A s \in DOMAIN calls' : ArgsThrew(s)' => calls'[s] = "throw"
  BY FromParentStays, ArgsStay DEF IInv
\* The run for the value: the one for the shrinks begins.
<1>4. CASE pc = "value"
  <2>1. Exec(recipe, "shrinks") /\ shown = {} /\ shown' = IF out THEN {seen} ELSE {}
    BY <1>1, <1>4 DEF Finish, Escape, IInv, Replays
  <2>2. recipe' = recipe /\ Exec(recipe', "shrinks") /\ Nodes(recipe.ingredients)'
    BY <1>2, <2>1 DEF Nodes, IsNode
  <2>3. /\ Runs' /\ Nodes(seen)' /\ Nodes(result.ingredients)'
        /\ seen' = <<>> /\ Draws(calls', seen')
    BY <2>2, RunBegins
  <2>4. pc' = "shrinks" /\ result' = recipe
    BY <2>1 DEF Exec
  <2>5. Types'
    BY <1>2, <2>2, <2>3, <2>4 DEF Types
  <2>6. PICK s : s = seen
    OBVIOUS
  <2>7. Drawn(s)'
    <3>1. Ends(s)' /\ Returns(s)' = out
      BY <1>1, <2>6 DEF Ends, Returns, Caught, ArgsThrew, form
    <3>2. Follows(s, recipe'.ingredients) /\ Nodes(s) /\ Draws(calls', s)
      BY <1>1, <1>2, <2>2, <2>6
    <3> QED
      BY <2>1, <2>6, <3>1, <3>2 DEF Drawn, Follows, Fresh, Nodes, IsNode
  <2>8. Len(seen') = 0 /\ Len(s) \in Nat
    BY <1>2, <2>3, <2>6
  <2>9. Replays'
    BY <2>3, <2>4, <2>7, <2>8 DEF Replays
  <2>10. Results'
    BY <1>3, <2>4 DEF Results
  <2> QED
    BY <1>3, <2>3, <2>5, <2>9, <2>10 DEF IInv
\* The run for the shrinks: it has drawn the same and ended the same way.
<1>5. CASE pc = "shrinks"
  <2>1. /\ pc' = IF out THEN "expanded" ELSE "failed"
        /\ UNCHANGED <<result, m_it, splits, seen, shown>>
    BY <1>5 DEF Finish, Escape
  <2>2. Types'
    <3>1. pc' \in {"expanded", "failed"} /\ recipe' = recipe /\ result' = result /\ seen' = seen
      BY <2>1
    <3>2. /\ Nodes(recipe'.ingredients) /\ Nodes(result'.ingredients) /\ Nodes(seen')
          /\ Draws(calls', recipe'.ingredients) /\ Draws(calls', seen')
      BY <1>1, <1>2, <3>1
    <3> QED
      BY <1>2, <3>1, <3>2 DEF Types
  <2>3. PICK s : /\ Drawn(s) /\ Len(seen) <= Len(s)
                 /\ \A k \in 1..Len(seen) : seen[k] = s[k]
    BY <1>5 DEF IInv, Replays
  <2>4. s = seen /\ calls[s] = c
    BY <2>3, InStep, ExecAssumption
  <2>5. shown' = IF out THEN {seen} ELSE {}
    BY <2>1, <2>3, <2>4 DEF Drawn, Returns
  <2>6. Replays'
    BY <1>1, <2>1, <2>5 DEF Replays, Follows, Fresh
  <2>7. Runs'
    BY <2>1 DEF Runs, Running
  <2>8. Results'
    <3>1. ArgsThrew(seen)' = ArgsThrew(seen) /\ adapted' = adapted
      BY <2>1 DEF ArgsThrew, form
    <3>2. adapted => (out <=> ~ArgsThrew(seen))
      BY <1>1, <1>3, <3>1, <2>1 DEF Caught
    <3> QED
      BY <1>3, <2>5, <3>1, <3>2 DEF Results
  <2> QED
    BY <1>3, <2>2, <2>6, <2>7, <2>8 DEF IInv
<1> QED
  BY <1>1, <1>4, <1>5 DEF Running

\* What was shrunk is still a node.
LEMMA ShrunkNode ==
    ASSUME NEW node, NEW k, IsNode(node, k), NEW shrink \in Shrinks(node)
    PROVE  IsNode(shrink, k) /\ shrink.gen = node.gen
<1>1. PICK g \in Gens : \E path : node = [gen |-> g, random |-> k - 1, path |-> path]
  BY DEF IsNode
<1>2. PICK path : node = [gen |-> g, random |-> k - 1, path |-> path]
  BY <1>1
<1>3. PICK c : shrink = [node EXCEPT !.path = Append(@, c)]
  BY DEF Shrinks
<1>4. shrink = [gen |-> g, random |-> k - 1, path |-> Append(path, c)]
  BY <1>2, <1>3
<1> QED
  BY <1>2, <1>4 DEF IsNode

\* The walk goes on with a shrink.
LEMMA ShrinkStep ==
    ASSUME IInv, Shrink
    PROVE  IInv'
<1> DEFINE old == result.ingredients
<1>1. /\ pc = "expanded" /\ old = seen /\ IsSeq(old) /\ Nodes(old) /\ Draws(calls, old)
      /\ Len(old) \in Nat /\ DOMAIN old = 1..Len(old)
      /\ result.numFixed \in Nat
  <2>1. PICK n \in Nat : \E s : result = [ingredients |-> s, numFixed |-> n]
    BY DEF IInv, Types
  <2>2. result.numFixed = n
    BY <2>1
  <2> QED
    BY <2>2, SeqFacts DEF Shrink, IInv, Types, Replays, Nodes
<1>2. PICK i \in (result.numFixed + 1)..Len(old) :
        \E shrink \in Shrinks(old[i]) :
          /\ recipe' = ShrunkRecipe(i, shrink)
          /\ Exec(ShrunkRecipe(i, shrink), "value")
  BY DEF Shrink
<1>3. PICK shrink \in Shrinks(old[i]) :
        recipe' = ShrunkRecipe(i, shrink) /\ Exec(recipe', "value")
  BY <1>2
<1>4. /\ parent' = {old} /\ shown' = {} /\ UNCHANGED <<form, calls>>
      /\ i \in 1..Len(old) /\ i - 1 \in 0..Len(old)
  BY <1>1 DEF Shrink
<1> DEFINE p == SubSeq(old, 1, i - 1)
           r == recipe'.ingredients
<1>5. IsSeq(p) /\ Len(p) = i - 1 /\ \A k \in 1..(i - 1) : p[k] = old[k]
  BY <1>1, <1>4, PrefixSubSeq
<1>6. r = Append(p, shrink) /\ recipe' = [ingredients |-> r, numFixed |-> i - 1]
  BY <1>3 DEF ShrunkRecipe
<1>7. IsNode(shrink, i) /\ shrink.gen = old[i].gen
  <2>1. IsNode(old[i], i)
    BY <1>1, <1>4 DEF Nodes
  <2> QED
    BY <2>1, ShrunkNode
<1> HIDE DEF p, r, old
<1>8. /\ IsSeq(r) /\ Len(r) = i /\ r[i] = shrink
      /\ \A k \in 1..(i - 1) : r[k] = old[k]
  <2>1. /\ IsSeq(r) /\ Len(r) = Len(p) + 1 /\ r[Len(p) + 1] = shrink
        /\ \A k \in 1..Len(p) : r[k] = p[k]
    BY <1>5, <1>6, Appended
  <2>2. Len(p) + 1 = i
    BY <1>4, <1>5
  <2> QED
    BY <1>5, <2>1, <2>2
<1>9. DOMAIN r = 1..i
  BY <1>8, SeqFacts
<1>10. Nodes(r)
  <2>1. ASSUME NEW k \in 1..i PROVE IsNode(r[k], k)
    <3>1. CASE k \in 1..(i - 1)
      BY <1>1, <1>4, <1>8, <3>1 DEF Nodes
    <3>2. CASE k = i
      BY <1>7, <1>8, <3>2
    <3> QED
      BY <1>4, <3>1, <3>2
  <2> QED
    BY <1>8, <1>9, <2>1 DEF Nodes
<1>11. Draws(calls', r)
  <2>1. ASSUME NEW k \in 1..i
        PROVE  Prefix(r, k - 1) \in DOMAIN calls' /\ calls'[Prefix(r, k - 1)] = r[k].gen
    <3>1. Prefix(r, k - 1) = Prefix(old, k - 1)
      BY <1>4, <1>8 DEF Prefix
    <3>2. Prefix(old, k - 1) \in DOMAIN calls /\ calls[Prefix(old, k - 1)] = old[k].gen
      <4>1. k \in DOMAIN old /\ Draws(calls, old)
        BY <1>1, <1>4
      <4> QED
        BY <4>1 DEF Draws
    <3>3. r[k].gen = old[k].gen
      <4>1. CASE k \in 1..(i - 1)
        BY <1>8, <4>1
      <4>2. CASE k = i
        BY <1>7, <1>8, <4>2
      <4> QED
        BY <1>4, <4>1, <4>2
    <3> QED
      BY <1>4, <3>1, <3>2, <3>3
  <2> QED
    BY <1>9, <2>1 DEF Draws
<1>12. Nodes(recipe.ingredients)'
  BY <1>10 DEF r, Nodes, IsNode
<1>13. /\ Runs' /\ Nodes(seen)' /\ Nodes(result.ingredients)'
       /\ seen' = <<>> /\ Draws(calls', seen')
  BY <1>3, <1>12, RunBegins
<1>14. pc' = "value" /\ result' = recipe'
  BY <1>3 DEF Exec
<1>15. Types'
  <2>1. \E n \in Nat : \E s : recipe' = [ingredients |-> s, numFixed |-> n]
    <3>1. i - 1 \in Nat
      BY <1>1, <1>4
    <3> QED
      BY <1>6, <3>1
  <2> QED
    BY <1>11, <1>12, <1>13, <1>14, <2>1 DEF Types, r
<1>16. Replays'
  BY <1>4, <1>14 DEF Replays
<1>17. FromParent'
  <2> SUFFICES ASSUME NEW o \in parent'
               PROVE  \E j \in DOMAIN o :
                        /\ IsSeq(o) /\ j = Len(r)
                        /\ \A k \in 1..(j - 1) : r[k] = o[k]
                        /\ r[j] \in Shrinks(o[j])
    BY DEF FromParent, Shrinks, r
  <2>1. o = old
    BY <1>4
  <2>2. i \in DOMAIN o /\ IsSeq(o) /\ i = Len(r) /\ r[i] \in Shrinks(o[i])
    BY <1>1, <1>3, <1>4, <1>8, <2>1
  <2>3. \A k \in 1..(i - 1) : r[k] = o[k]
    BY <1>8, <2>1
  <2> QED
    BY <2>2, <2>3
<1>18. Results'
  BY <1>4, <1>14 DEF IInv, Results, ArgsThrew, form
<1> QED
  BY <1>13, <1>15, <1>16, <1>17, <1>18 DEF IInv
-----------------------------------------------------------------------------
\* IInv is an inductive invariant of the walks down a shrink tree.
THEOREM Invariance == Spec => []IInv
<1>1. Init => IInv
  <2> SUFFICES ASSUME Init PROVE IInv
    OBVIOUS
  <2>1. /\ recipe = [ingredients |-> <<>>, numFixed |-> 0] /\ result = recipe
        /\ m_it = 1 /\ splits = 0 /\ seen = <<>>
        /\ pc = "value" /\ shown = {} /\ parent = {}
    BY DEF Init, EmptyRecipe
  <2>2. <<>> \in Seq({}) /\ Len(<<>>) = 0 /\ DOMAIN <<>> = {}
    OBVIOUS
  <2>3. IsSeq(<<>>)
    BY <2>2, IsSeqOf
  <2>4. Nodes(<<>>) /\ Draws(calls, <<>>) /\ Follows(<<>>, <<>>)
    BY <2>2, <2>3 DEF Nodes, Draws, Follows
  <2>5. Types
    BY <2>1, <2>4 DEF Types
  <2>6. Runs
    BY <2>1, <2>2, <2>4 DEF Runs
  <2>7. Replays /\ FromParent /\ Results
    BY <2>1 DEF Replays, FromParent, Results, Init
  <2> QED
    BY <2>5, <2>6, <2>7 DEF IInv
<1>2. IInv /\ [Next]_vars => IInv'
  <2> SUFFICES ASSUME IInv, [Next]_vars PROVE IInv'
    OBVIOUS
  <2>1. CASE Shrink
    BY <2>1, ShrinkStep
  <2>2. CASE Return
    <3>1. Does("return") /\ Finish /\ UNCHANGED <<form, recipe, parent>>
      BY <2>2 DEF Return
    <3>2. PICK c : c = "return"
      OBVIOUS
    <3> QED
      BY <3>1, <3>2, EndStep
  <2>3. CASE Throw
    <3>1. /\ Does("throw") /\ UNCHANGED <<form, recipe, parent>>
          /\ IF Caught(seen) THEN Finish ELSE Escape
      BY <2>3 DEF Throw
    <3>2. PICK c : c = "throw"
      OBVIOUS
    <3> QED
      BY <3>1, <3>2, EndStep
  <2>4. CASE \E g \in Gens : Generate(g)
    BY <2>4, GenerateStep
  <2>5. CASE UNCHANGED vars
    <3>1. /\ UNCHANGED <<form, calls, recipe, result, m_it, splits, seen, pc, shown, parent>>
          /\ UNCHANGED <<adapted, hasArgs>>
      BY <2>5 DEF vars, form
    <3>2. Types'
      <4>1. /\ Nodes(recipe'.ingredients) /\ Nodes(result'.ingredients) /\ Nodes(seen')
            /\ Draws(calls', recipe'.ingredients) /\ Draws(calls', seen')
        BY <3>1 DEF IInv, Types
      <4> QED
        BY <3>1, <4>1 DEF IInv, Types
    <3>3. Runs'
      BY <3>1 DEF IInv, Runs, Running, Follows, Fresh
    <3>4. ASSUME NEW s, Drawn(s) PROVE Drawn(s)'
      BY <3>1, <3>4, DrawnStays DEF Grows
    <3>5. Replays'
      BY <3>1, <3>4 DEF IInv, Replays, Follows, Fresh
    <3>6. FromParent'
      BY <3>1, FromParentStays DEF IInv
    <3>7. Results'
      BY <3>1 DEF IInv, Results, ArgsThrew
    <3> QED
      BY <3>2, <3>3, <3>5, <3>6, <3>7 DEF IInv
  <2> QED
    BY <2>1, <2>2, <2>3, <2>4, <2>5 DEF Next
<1> QED
  BY <1>1, <1>2, PTL DEF Spec

\* The run that the shrinks come from drew what the run that made the value drew,
\* whatever callable it is and whether it throws (execWithRecipe), and a property has a
\* result unless its arguments could not be drawn (PropertyAdapter).
THEOREM RunsAgree == Spec => []ReplaysAgree
<1>1. IInv => ReplaysAgree
  BY DEF IInv, Replays, Results, ReplaysAgree
<1> QED
  BY <1>1, Invariance, PTL

\* Every value the callable gets is one of the generator it asked for, and the
\* ingredients that are shrunk and printed are what it drew
\* (ExecHandler::onGenerate, shrinkRecipe).
THEOREM EachDrawFits == Spec => []IngredientsFit
<1>1. IInv => IngredientsFit
  <2> SUFFICES ASSUME IInv PROVE IngredientsFit
    OBVIOUS
  <2>1. IsSeq(seen) /\ Draws(calls, seen) /\ DOMAIN seen = 1..Len(seen) /\ Len(seen) \in Nat
    BY SeqFacts DEF IInv, Types, Nodes
  <2>2. ASSUME NEW k \in DOMAIN seen PROVE seen[k].gen = calls[SubSeq(seen, 1, k - 1)]
    <3>1. SubSeq(seen, 1, k - 1) = Prefix(seen, k - 1)
      <4>1. k - 1 \in 0..Len(seen)
        BY <2>1
      <4> QED
        BY <2>1, <4>1, PrefixSubSeq
    <3> QED
      BY <2>1, <3>1 DEF Draws
  <2>3. pc = "expanded" => result.ingredients = seen
    BY DEF IInv, Replays
  <2> QED
    BY <2>2, <2>3 DEF IngredientsFit
<1> QED
  BY <1>1, Invariance, PTL

\* However many of them were replayed, no two values of a run come from the same
\* split of the Random (ExecHandler::onGenerate).
THEOREM NoSplitTwice == Spec => []SplitsAreSeparate
<1>1. IInv => SplitsAreSeparate
  <2> SUFFICES ASSUME IInv, NEW j \in DOMAIN result.ingredients,
                      NEW k \in DOMAIN result.ingredients, j # k
               PROVE  result.ingredients[j].random # result.ingredients[k].random
    BY DEF SplitsAreSeparate
  <2>1. Nodes(result.ingredients) /\ DOMAIN result.ingredients = 1..Len(result.ingredients)
    BY SeqFacts DEF IInv, Types, Nodes
  <2>2. /\ result.ingredients[j].random = j - 1
        /\ result.ingredients[k].random = k - 1
    <3>1. \A node, n : IsNode(node, n) => node.random = n - 1
      BY DEF IsNode
    <3>2. IsNode(result.ingredients[j], j) /\ IsNode(result.ingredients[k], k)
      BY <2>1 DEF Nodes
    <3> QED
      BY <3>1, <3>2
  <2>3. Len(result.ingredients) \in Nat
    BY SeqFacts DEF IInv, Types, Nodes
  <2> QED
    BY <2>1, <2>2, <2>3
<1> QED
  BY <1>1, Invariance, PTL

\* A shrink is its parent with one value shrunk by a step; those before it are the
\* same and those after it are generated anew (shrinkRecipe, execWithRecipe).
THEOREM OneIsShrunk == Spec => []ShrinksReplaceOne
<1>1. IInv => ShrinksReplaceOne
  <2> DEFINE new == result.ingredients
             r   == recipe.ingredients
  <2> SUFFICES ASSUME IInv, pc = "expanded", NEW old \in parent
               PROVE  IsShrinkOf(new, old)
    BY DEF ShrinksReplaceOne
  <2>1. Follows(new, r) /\ IsSeq(new) /\ IsSeq(r)
    BY DEF IInv, Types, Replays, Nodes
  <2>2. PICK i \in DOMAIN old :
          /\ IsSeq(old) /\ i = Len(r)
          /\ \A k \in 1..(i - 1) : r[k] = old[k]
          /\ r[i] \in Shrinks(old[i])
    BY DEF IInv, FromParent
  <2>3. /\ Len(new) \in Nat /\ Len(old) \in Nat /\ i \in 1..Len(old)
        /\ i <= Len(new) /\ \A k \in 1..i : new[k] = r[k]
        /\ \A k \in (i + 1)..Len(new) : new[k] = Fresh(new[k].gen, k - 1)
    BY <2>1, <2>2, SeqFacts DEF Follows
  <2> HIDE DEF new, r
  <2>4. SubSeq(new, 1, i - 1) = SubSeq(old, 1, i - 1)
    <3>1. i - 1 \in 0..Len(new) /\ i - 1 \in 0..Len(old)
      BY <2>3
    <3>2. /\ SubSeq(new, 1, i - 1) = Prefix(new, i - 1)
          /\ SubSeq(old, 1, i - 1) = Prefix(old, i - 1)
      BY <2>1, <2>2, <3>1, PrefixSubSeq
    <3>3. Prefix(new, i - 1) = Prefix(old, i - 1)
      BY <2>2, <2>3 DEF Prefix
    <3> QED
      BY <3>2, <3>3
  <2>5. new[i] \in Shrinks(old[i])
    BY <2>2, <2>3
  <2>6. \A k \in (i + 1)..Len(new) : new[k].path = <<>>
    <3>1. \A g, random : Fresh(g, random).path = <<>>
      BY DEF Fresh
    <3> QED
      BY <2>3, <3>1
  <2> QED
    BY <2>2, <2>3, <2>4, <2>5, <2>6 DEF IsShrinkOf
<1> QED
  BY <1>1, Invariance, PTL
=============================================================================
