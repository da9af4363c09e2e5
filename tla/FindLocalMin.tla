---------------------------- MODULE FindLocalMin ----------------------------
(***************************************************************************)
(* The descent into a shrink tree: shrinkable::findLocalMin, which is what *)
(* shrinkTestCase does with a property as its predicate, and walkPath,     *)
(* which finds the same place again from the path that was recorded.       *)
(*                                                                         *)
(* One step is one call of next().  With a predicate that is never true, a *)
(* sequence is pulled to its end; after that, next() may be called again.  *)
(* At any moment the Seq may be replaced by a copy.                        *)
(***************************************************************************)
EXTENDS LazySeq

CONSTANTS
    Families,           \* of trees, one type of values to each
    Roots(_),           \* the trees of a family
    Predicates(_),      \* the predicates over its values,
    Satisfies(_, _),    \* and what they are true of
    InDomain(_, _),     \* whether a family has a value
    Simpler(_, _),      \* values that a value is sure to shrink to
    MaxPulled, MaxPath  \* bounds: shrinks pulled in a row, shrinks accepted

ASSUME BoundsAssumption ==
    "seq" \in Families /\ MaxPulled \in Nat /\ MaxPath \in Nat

\* The family "seq" has any sequences for shrinks, also endless ones and ones
\* that are not trees; they are only pulled from.
Simplifying == Families \ {"seq"}

VARIABLES
    family, root, pred,     \* what is shrunk, and the predicate
    tree,                   \* the last one accepted
    shrinks,                \* the Seq
    path,                   \* which shrink was accepted at each level, from 0
    pulled,                 \* the shrinks of tree that were rejected
    ended                   \* whether next() has returned Nothing

vars == <<family, root, pred, tree, shrinks, path, pulled, ended>>

-----------------------------------------------------------------------------
Init ==
    /\ family \in Families
    /\ root \in Roots(family)
    /\ pred \in Predicates(family)
    /\ tree = root
    /\ shrinks = ShrinksOf(root)
    /\ path = <<>> /\ pulled = <<>> /\ ended = FALSE

IsAccepted(t) == family \in Simplifying /\ Satisfies(pred, ValueOf(t))

Accept ==
    LET r == Next(shrinks)
    IN /\ ~ended /\ Len(path) < MaxPath
       /\ r.value # Nothing /\ IsAccepted(r.value[1])
       /\ tree' = r.value[1]
       /\ shrinks' = ShrinksOf(tree')
       /\ path' = Append(path, Len(pulled))
       /\ pulled' = <<>>
       /\ UNCHANGED <<family, root, pred, ended>>

Reject ==
    LET r == Next(shrinks)
    IN /\ Len(pulled) < MaxPulled
       /\ r.value # Nothing /\ ~IsAccepted(r.value[1])
       /\ pulled' = Append(pulled, r.value[1])
       /\ shrinks' = r.rest
       /\ UNCHANGED <<family, root, pred, tree, path, ended>>

End ==
    LET r == Next(shrinks)
    IN /\ r.value = Nothing
       /\ ended' = TRUE
       /\ shrinks' = r.rest
       /\ UNCHANGED <<family, root, pred, tree, path, pulled>>

GoOnWithCopy ==
    /\ shrinks' = Copied(shrinks)
    /\ UNCHANGED <<family, root, pred, tree, path, pulled, ended>>

NextStep == Accept \/ Reject \/ End \/ GoOnWithCopy

Spec == Init /\ [][NextStep]_vars

-----------------------------------------------------------------------------
RECURSIVE walkPath(_, _)
walkPath(t, indices) ==
    IF indices = <<>> THEN Just(t)
    ELSE LET s == at(ShrinksOf(t), Head(indices))
         IN IF s = Nothing THEN Nothing ELSE walkPath(s[1], Tail(indices))

-----------------------------------------------------------------------------
(* Properties *)

Tried == {ValueOf(pulled[i]) : i \in DOMAIN pulled}

\* Values stay values of their family: inside their type, inside the range or
\* the predicate that the generator was made with.
TypeOK ==
    /\ family \in Families /\ ended \in BOOLEAN
    /\ path \in Seq(Nat) /\ Len(path) <= MaxPath /\ Len(pulled) <= MaxPulled
    /\ family \in Simplifying =>
         \A v \in {ValueOf(tree)} \cup Tried : InDomain(family, v)

\* next() yields the list that the documentation of each combinator and
\* algorithm describes, cut where a callable throws, also through copies.
YieldsElements ==
    LET list == Elements(ShrinksOf(tree))
    IN IsPrefix(pulled, list) /\ (ended => pulled = list)

\* The elements of the Seq s have been list, of which left remain.
ConsumersSee(s, list, left) ==
    LET IsNot(x) == [callable |-> "isNot", value |-> x]
    IN /\ length(s) = Len(left)
       /\ last(s) = (IF left = <<>> THEN Nothing ELSE Just(Last(left)))
       /\ forEach(s) = left
       /\ RangeFor(SeqIterator(s)) = left
       /\ \A x \in {list[i] : i \in {1, Len(list)} \cap DOMAIN list} :
            /\ contains(s, x) <=> x \in Range(left)
            /\ all(s, IsNot(x)) <=> x \notin Range(left)
            /\ any(s, IsNot(x)) <=> Range(left) \ {x} # {}
       /\ \A other \in {left, list, left \o left} :
            equal(s, fromContainer(other)) <=> other = left

\* Every consumer of a sequence that has been pulled from sees what is left of
\* it, and each exactly that: the length, the last one, what is in it, whether
\* it equals another, and what a range-based loop goes through.
ConsumersAgree ==
    family = "seq" =>
      \A list \in {Elements(ShrinksOf(tree))} :
        Len(list) < MaxPulled =>
          ConsumersSee(shrinks, list, SubSeq(list, Len(pulled) + 1, Len(list)))

\* When the descent ends, the next simpler values do not satisfy the
\* predicate, so for one that is upward closed the minimum has been found.
OneStepMinimal ==
    family \in Simplifying /\ ended =>
        \A v \in Simpler(family, ValueOf(tree)) : ~Satisfies(pred, v)

\* The path recorded on the way down leads from the root to the tree again,
\* which is how reproduceProperty finds the failing case.
PathLeadsBack == walkPath(root, path) = Just(tree)

\* There is no infinite descent, whatever the predicate: neither the values
\* pulled in a row nor the shrinks accepted ever reach their bounds.
DescentEnds ==
    family \in Simplifying => Len(path) < MaxPath /\ Len(pulled) < MaxPulled
=============================================================================
