----------------------------- MODULE ExecRecipe -----------------------------
(***************************************************************************)
(* gen::exec and the body of every property (gen/detail/ExecRaw.hpp,       *)
(* src/gen/detail/ExecHandler.cpp, src/gen/detail/Recipe.cpp): a callable  *)
(* that draws values with operator* is run again for its value, for its    *)
(* shrinks and for every shrink, and what it drew is replayed from a       *)
(* Recipe.  A behaviour is a walk down one path of the shrink tree.        *)
(*                                                                         *)
(* The callable is any function from the values drawn so far to what it    *)
(* does next; what it does where it has not been yet is decided when it    *)
(* gets there and remembered in calls, so every such function is met.      *)
(***************************************************************************)
EXTENDS Integers, Sequences

CONSTANTS
    Gens,       \* the generators the callable may draw from
    Faulty,     \* those whose shrinkable throws from value()
    Partial,    \* those whose shrinkable has a shrink that does, the last one
    MaxCalls,   \* bound: values the callable draws in one run
    MaxPath,    \* bound: depth of the shrink tree of a generated value
    Width       \* bound: shrinks of one value

ASSUME ExecAssumption ==
    /\ Faulty \subseteq Gens /\ Partial \subseteq Gens
    /\ MaxCalls \in Nat /\ MaxPath \in Nat /\ Width \in Nat
    /\ "return" \notin Gens /\ "throw" \notin Gens

\* The root of the shrink tree of a generated value.  A node, which is the value
\* itself too: the generator, the split of the recipe's Random it ran with, and the
\* path from the root.
Fresh(g, random) == [gen |-> g, random |-> random, path |-> <<>>]

\* A Faulty generator's is the shrinkable that Gen::operator() makes of an exception,
\* with no shrinks.
Shrinks(node) ==
    IF node.gen \in Faulty \/ Len(node.path) >= MaxPath THEN {}
    ELSE {[node EXCEPT !.path = Append(@, c)] : c \in 1..Width}

\* value() of the node throws; of a Partial one's shrink, because a callable that it
\* was mapped with does.
Throws(node) ==
    \/ node.gen \in Faulty
    \/ /\ node.gen \in Partial /\ node.path # <<>>
       /\ node.path[Len(node.path)] = Width

VARIABLES
    adapted,    \* whether the callable is a PropertyAdapter, which catches all
    hasArgs,    \* whether it has arguments, drawn as a tuple before it is called
    calls,      \* the callable, as far as it was run: values drawn |-> next call
    recipe,     \* the Recipe that this shrinkable of the tree holds: its nodes
                \* (ingredients), and how many from the front are fixed (numFixed)
    result,     \* resultRecipe of the run going on, or of the last one
    m_it,       \* ExecHandler::m_it, counted from 1
    splits,     \* the splits of ExecHandler::m_random so far
    seen,       \* the values drawn in this run
    pc,         \* "value", "shrinks": running for it; "expanded", "failed"
    shown,      \* the ingredients value() returned with: at most one sequence
    parent      \* those of the case this one is a shrink of: at most one

form == <<adapted, hasArgs>>
vars == <<form, calls, recipe, result, m_it, splits, seen, pc, shown, parent>>

-----------------------------------------------------------------------------
\* Mutant: the handler skips the fixed ingredients.
Exec_FromFixed(r, p) ==
    /\ result' = r /\ m_it' = r.numFixed + 1 /\ splits' = 0 /\ seen' = <<>> /\ pc' = p

\* Mutant: the handler splits the Random of the recipe, not a copy of it.
Exec_KeepsRandom(r, p) ==
    /\ result' = r /\ m_it' = 1 /\ UNCHANGED splits /\ seen' = <<>> /\ pc' = p

\* execWithRecipe: a fresh copy of the recipe, and a handler at its start.
Exec(r, p) ==
    /\ result' = r /\ m_it' = 1 /\ splits' = 0 /\ seen' = <<>> /\ pc' = p

\* Drawing the arguments has thrown: the callable is never called.
ArgsThrew(s) == hasArgs /\ Len(s) = 1 /\ Throws(s[1])

\* What the callable may do next after drawing s: what it did before, or anything.
NextCall(s) ==
    IF s \in DOMAIN calls THEN {calls[s]}
    ELSE IF ArgsThrew(s) THEN {"throw"}
    ELSE (IF Len(s) < MaxCalls THEN Gens ELSE {})
         \cup (IF hasArgs /\ s = <<>> THEN {} ELSE {"return", "throw"})

Running == pc \in {"value", "shrinks"}

\* The callable does c next, now and in every later run.
Does(c) ==
    /\ Running /\ c \in NextCall(seen)
    /\ calls' = [s \in DOMAIN calls \cup {seen} |-> IF s = seen THEN c ELSE calls[s]]

\* execWithRecipe is over: value() has its pair, or shrinks() the recipe to
\* shrink (JustShrinkShrinkable).
Finish ==
    \/ pc = "value" /\ shown' = {result.ingredients} /\ Exec(recipe, "shrinks")
    \/ pc = "shrinks" /\ pc' = "expanded" /\ UNCHANGED <<result, m_it, splits, seen, shown>>

\* An exception leaves execWithRecipe: value() throws, shrinks() catches it and
\* returns nothing.
Escape ==
    \/ pc = "value" /\ Exec(recipe, "shrinks") /\ UNCHANGED shown
    \/ pc = "shrinks" /\ pc' = "failed" /\ UNCHANGED <<result, m_it, splits, seen, shown>>

\* Mutant: the handler splits only for a new ingredient.
SplitsAfter_NewOnly == IF m_it > Len(result.ingredients) THEN splits + 1 ELSE splits

\* m_random.split() comes first, whether the ingredient is new or not.
SplitsAfter == splits + 1

\* The ingredients once the one at m_it is there.
Ingredients(g) ==
    IF m_it > Len(result.ingredients)
    THEN Append(result.ingredients, Fresh(g, splits))
    ELSE result.ingredients

\* ExecHandler::onGenerate; the iterator is past the ingredient when its value()
\* throws, and the callable may catch that and go on.
Generate(g) ==
    /\ Does(g)
    /\ result' = [result EXCEPT !.ingredients = Ingredients(g)]
    /\ m_it' = m_it + 1 /\ splits' = SplitsAfter
    /\ seen' = Append(seen, Ingredients(g)[m_it])
    /\ UNCHANGED <<form, recipe, pc, shown, parent>>

Return == Does("return") /\ Finish /\ UNCHANGED <<form, recipe, parent>>

\* Mutant: the arguments are drawn inside the adapter.
Caught_WithArgs(s) == adapted

\* A PropertyAdapter makes a result of what is thrown after drawing s.
Caught(s) == adapted /\ ~ArgsThrew(s)

\* The callable throws.
Throw ==
    /\ Does("throw")
    /\ IF Caught(seen) THEN Finish ELSE Escape
    /\ UNCHANGED <<form, recipe, parent>>

\* Mutant: the ingredients after the shrunk one stay.
ShrunkRecipe_NoErase(i, shrink) ==
    [ingredients |-> [result.ingredients EXCEPT ![i] = shrink], numFixed |-> i - 1]

\* Mutant: the erase begins at the shrunk ingredient.
ShrunkRecipe_EraseAll(i, shrink) ==
    [ingredients |-> SubSeq(result.ingredients, 1, i - 1), numFixed |-> i - 1]

\* A recipe of shrinkRecipe: ingredient i replaced by one of its shrinks.
ShrunkRecipe(i, shrink) ==
    [ingredients |-> Append(SubSeq(result.ingredients, 1, i - 1), shrink),
     numFixed |-> i - 1]

\* The walk goes on with one of the shrinks (shrinkRecipe).
Shrink ==
    /\ pc = "expanded"
    /\ \E i \in (result.numFixed + 1)..Len(result.ingredients) :
         \E shrink \in Shrinks(result.ingredients[i]) :
           /\ recipe' = ShrunkRecipe(i, shrink)
           /\ Exec(ShrunkRecipe(i, shrink), "value")
    /\ parent' = {result.ingredients}
    /\ shown' = {}
    /\ UNCHANGED <<form, calls>>

\* execRaw: a recipe with a Random and a size and nothing else.
EmptyRecipe == [ingredients |-> <<>>, numFixed |-> 0]

Init ==
    /\ adapted \in BOOLEAN /\ hasArgs \in BOOLEAN
    /\ calls = [s \in {} |-> "return"]
    /\ recipe = EmptyRecipe /\ result = EmptyRecipe
    /\ m_it = 1 /\ splits = 0 /\ seen = <<>>
    /\ pc = "value" /\ shown = {} /\ parent = {}

Next == Shrink \/ Return \/ Throw \/ \E g \in Gens : Generate(g)

\* The walk does not stop while there is something left to shrink.
Spec == Init /\ [][Next]_vars /\ WF_vars(Next)

-----------------------------------------------------------------------------
(* Properties *)

\* The run that the shrinks come from drew what the run that made the value drew:
\* a shrink is a shrink of the case that was seen to fail (execWithRecipe).  A
\* property has a result for every case, whatever its body throws, unless it was the
\* arguments that threw, replayed, fresh or shrunk: such a case has none, and the
\* exception leaves value() (execWithArguments, PropertyAdapter).
ReplaysAgree ==
    /\ pc = "expanded" => shown = {result.ingredients}
    /\ pc = "failed" => shown = {}
    /\ adapted /\ pc \in {"expanded", "failed"} => (shown = {} <=> ArgsThrew(seen))

\* Every value the callable gets is one of the generator it asked for, so that
\* get<T>() of Gen::operator* finds a T; and the ingredients, which are printed as
\* the counterexample, are what the callable drew, and nothing it did not get to
\* (ExecHandler::onGenerate, shrinkRecipe).
IngredientsFit ==
    /\ \A k \in DOMAIN seen : seen[k].gen = calls[SubSeq(seen, 1, k - 1)]
    /\ pc = "expanded" => result.ingredients = seen

\* No two values of one run come from the same split of the Random, however many
\* of them were replayed (ExecHandler::onGenerate).
SplitsAreSeparate ==
    \A j, k \in DOMAIN result.ingredients :
      j # k => result.ingredients[j].random # result.ingredients[k].random

\* A shrink is its parent up to an ingredient that is a shrink of the parent's,
\* and fresh after it.
IsShrinkOf(new, old) ==
    \E i \in DOMAIN old :
      /\ i <= Len(new)
      /\ SubSeq(new, 1, i - 1) = SubSeq(old, 1, i - 1)
      /\ new[i] \in Shrinks(old[i])
      /\ \A k \in (i + 1)..Len(new) : new[k].path = <<>>

\* Between a case and the next one down the tree one value was shrunk by a step,
\* those before it are the same and those after it were generated anew.
ShrinksReplaceOne ==
    pc = "expanded" => \A old \in parent : IsShrinkOf(result.ingredients, old)

\* A walk that keeps shrinking ends, though a shrink regenerates all the values
\* after it unshrunk.
NothingToShrink ==
    \A i \in (result.numFixed + 1)..Len(result.ingredients) :
      Shrinks(result.ingredients[i]) = {}

Termination == <>(pc = "failed" \/ (pc = "expanded" /\ NothingToShrink))
=============================================================================
