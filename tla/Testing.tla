------------------------------ MODULE Testing ------------------------------
(***************************************************************************)
(* The engine of src/src/detail/Testing.cpp: the search for a failing test *)
(* case, the greedy descent through its shrinks, the final run of the      *)
(* minimal case, and the later process that walks the recorded path again  *)
(* (reproduce mode, entered from src/src/Check.cpp).                       *)
(*                                                                         *)
(* The property under test is a lazily built tree.  What evaluating a      *)
(* node, or listing its shrinks, yields is chosen the first time it is     *)
(* asked for and never changes after that: a property is a pure function   *)
(* of its random state and size.  The developer may edit the program       *)
(* between the two processes, so nodes carry the build they belong to.     *)
(***************************************************************************)
EXTENDS Integers, Sequences, FiniteSets

CONSTANTS
    MaxSuccess,       \* TestParams::maxSuccess
    MaxSize,          \* TestParams::maxSize
    MaxDiscardRatio,  \* TestParams::maxDiscardRatio
    TagVectors,       \* the tag vectors a test case may end with; <<>> is none
    MaxShrinks,       \* bound: shrinks of one node
    MaxDepth,         \* bound: successive shrinks; shrink trees are finite
    Nothing           \* an empty Maybe

Builds == {"original", "edited"}

Node == [build : Builds, random : Nat, size : Nat, path : Seq(Nat)]

Failure   == [shrinkable : Node, size : Nat, random : Nat]
Reproduce == [random : Nat, size : Nat, shrinkPath : Seq(Nat)]
Remaining == [of : Node, next : Nat]   \* a Seq of shrinks, partly consumed
TestResult ==
    [type : {"Success", "GaveUp", "Failure"}, numSuccess : Nat,
     reproduce : Reproduce \cup {Nothing}, counterExample : Node \cup {Nothing}]

ASSUME ParamsAssumption ==
    /\ MaxSuccess \in Nat /\ MaxSize \in Nat /\ MaxDiscardRatio \in Nat
    /\ MaxShrinks \in Nat /\ MaxDepth \in Nat

ASSUME ValuesAssumption ==
    /\ <<>> \in TagVectors
    /\ Nothing \notin Node /\ Nothing \notin Failure /\ Nothing \notin Reproduce
    /\ Nothing \notin Remaining /\ Nothing \notin TestResult

VARIABLES
    outcome,          \* node -> what its value() yields, once evaluated
    width,            \* node -> how many shrinks it has, once listed
    noshrink,         \* TestParams::disableShrinking of the running process
    phase,            \* where the engine is
    splits,           \* how often the search's generator r has been split
    numSuccess, numDiscarded, recentDiscards, tags, failure,  \* searchProperty
    best, shrinks, path, i,   \* shrinkTestCase; shrinks is what is left of a Seq
    result,           \* the TestResult of testProperty
    current, step, replay   \* walkPath and the result of reproduceProperty

memo       == <<outcome, width>>
searchVars == <<splits, numSuccess, numDiscarded, recentDiscards, tags, failure>>
shrinkVars == <<best, shrinks, path, i>>
replayVars == <<current, step, replay>>
vars == <<memo, searchVars, shrinkVars, replayVars, noshrink, phase, result>>

-----------------------------------------------------------------------------
(* The property under test *)

Types       == {"Success", "Failure", "Discard"}
Description == [type : Types, tags : TagVectors]

Root(b, r, s) == [build |-> b, random |-> r, size |-> s, path |-> <<>>]
Child(n, k)   == [n EXCEPT !.path = Append(n.path, k)]

Learn(f, n, v) == [m \in DOMAIN f \cup {n} |-> IF m = n THEN v ELSE f[m]]

\* shrinkable.value() of n yields d.
Value(n, d) ==
    /\ d \in IF n \in DOMAIN outcome THEN {outcome[n]} ELSE Description
    /\ outcome' = Learn(outcome, n, d)

\* The sequence n.shrinks() has w elements.
Shrinks(n, w) ==
    /\ w \in IF n \in DOMAIN width THEN {width[n]}
             ELSE IF Len(n.path) < MaxDepth THEN 0..MaxShrinks ELSE {0}
    /\ width' = Learn(width, n, w)

FailsIn(f, n) == n \in DOMAIN f /\ f[n].type = "Failure"
Fails(n)      == FailsIn(outcome, n)

-----------------------------------------------------------------------------
(* searchProperty *)

\* Mutant: the largest size is not counted.
numSizes_WithoutMax == IF MaxSize = 0 THEN 1 ELSE MaxSize

numSizes   == MaxSize + 1
numRegular == (MaxSuccess \div numSizes) * numSizes
numRest    == MaxSuccess - numRegular

SizeFor(n) ==
    IF n < numRegular THEN n % numSizes
    ELSE IF numRest = 1 THEN 0
    ELSE ((n % numSizes) * MaxSize) \div (numRest - 1)

maxDiscard == MaxDiscardRatio * MaxSuccess

\* Mutant: discards in a row never raise the size.
NextCase_FixedSize == Root("original", splits, SizeFor(numSuccess))

\* The shrinkable the next round of the loop generates.
NextCase ==
    Root("original", splits, SizeFor(numSuccess) + (recentDiscards \div 10))

\* What every round does: r.split(), property(random, size), value().
RunCase(d) ==
    /\ phase = "search" /\ numSuccess < MaxSuccess
    /\ splits' = splits + 1
    /\ Value(NextCase, d)
    /\ UNCHANGED <<width, shrinkVars, replayVars, noshrink>>

CaseSucceeds ==
    \E d \in Description :
      /\ RunCase(d) /\ d.type = "Success"
      /\ numSuccess' = numSuccess + 1
      /\ recentDiscards' = 0
      /\ tags' = IF d.tags = <<>> THEN tags ELSE Append(tags, d.tags)
      /\ UNCHANGED <<numDiscarded, failure, phase, result>>

\* Mutant: gives up when the budget is reached instead of exceeded.
CaseDiscarded_AtBudget ==
    \E d \in Description :
      /\ RunCase(d) /\ d.type = "Discard"
      /\ numDiscarded' = numDiscarded + 1
      /\ recentDiscards' = recentDiscards + 1
      /\ IF numDiscarded' >= maxDiscard
           THEN /\ failure' = [shrinkable |-> NextCase, size |-> NextCase.size,
                               random |-> splits]
                /\ phase' = "finished"
                /\ result' = [type |-> "GaveUp", numSuccess |-> numSuccess,
                              reproduce |-> Nothing, counterExample |-> Nothing]
           ELSE UNCHANGED <<failure, phase, result>>
      /\ UNCHANGED <<numSuccess, tags>>

\* Mutant: collects the tags of discarded cases too.
CaseDiscarded_KeepsTags ==
    \E d \in Description :
      /\ RunCase(d) /\ d.type = "Discard" /\ numDiscarded < maxDiscard
      /\ numDiscarded' = numDiscarded + 1
      /\ recentDiscards' = recentDiscards + 1
      /\ tags' = IF d.tags = <<>> THEN tags ELSE Append(tags, d.tags)
      /\ UNCHANGED <<numSuccess, failure, phase, result>>

CaseDiscarded ==
    \E d \in Description :
      /\ RunCase(d) /\ d.type = "Discard"
      /\ numDiscarded' = numDiscarded + 1
      /\ recentDiscards' = recentDiscards + 1
      /\ IF numDiscarded' > maxDiscard
           THEN /\ failure' = [shrinkable |-> NextCase, size |-> NextCase.size,
                               random |-> splits]
                /\ phase' = "finished"
                /\ result' = [type |-> "GaveUp", numSuccess |-> numSuccess,
                              reproduce |-> Nothing, counterExample |-> Nothing]
           ELSE UNCHANGED <<failure, phase, result>>
      /\ UNCHANGED <<numSuccess, tags>>

\* A failing case ends the search; doTestProperty shrinks it unless told not to,
\* which starts with a look at its shrinks.
CaseFails ==
    \E d \in Description :
      /\ RunCase(d) /\ d.type = "Failure"
      /\ failure' = [shrinkable |-> NextCase, size |-> NextCase.size,
                     random |-> splits]
      /\ phase' = "failed"
      /\ UNCHANGED <<numSuccess, numDiscarded, recentDiscards, tags, result>>

Succeed ==
    /\ phase = "search" /\ numSuccess = MaxSuccess
    /\ phase' = "finished"
    /\ result' = [type |-> "Success", numSuccess |-> numSuccess,
                  reproduce |-> Nothing, counterExample |-> Nothing]
    /\ UNCHANGED <<memo, searchVars, shrinkVars, replayVars, noshrink>>

\* SuccessResult::distribution: how often each tag vector was collected.
distribution == [t \in TagVectors \ {<<>>} |->
                   Cardinality({k \in DOMAIN tags : tags[k] = t})]

-----------------------------------------------------------------------------
(* shrinkTestCase and the end of doTestProperty *)

\* shrinks = n.shrinks(), from its first element.
ListShrinks(n) ==
    /\ \E w \in 0..MaxShrinks : Shrinks(n, w)
    /\ shrinks' = [of |-> n, next |-> 0]

StartShrinking ==
    /\ phase = "failed"
    /\ best' = failure.shrinkable
    /\ path' = <<>> /\ i' = 0
    /\ IF noshrink
         THEN phase' = "minimal" /\ UNCHANGED <<shrinks, width>>
         ELSE phase' = "shrink" /\ ListShrinks(best')
    /\ UNCHANGED <<outcome, searchVars, replayVars, noshrink, result>>

\* shrinks.next() yields a shrink, whose value() is d.
TryShrink(d) ==
    /\ phase = "shrink" /\ shrinks.next < width[shrinks.of]
    /\ Value(Child(shrinks.of, shrinks.next), d)
    /\ UNCHANGED <<searchVars, replayVars, noshrink, phase, result>>

\* Mutant: i is not reset.
AcceptShrink_KeepsIndex ==
    \E d \in Description :
      /\ TryShrink(d) /\ d.type = "Failure"
      /\ best' = Child(shrinks.of, shrinks.next)
      /\ ListShrinks(best')
      /\ path' = Append(path, i) /\ i' = i

\* Mutant: goes on with the siblings of the accepted shrink.
AcceptShrink_KeepsShrinks ==
    \E d \in Description :
      /\ TryShrink(d) /\ d.type = "Failure"
      /\ best' = Child(shrinks.of, shrinks.next)
      /\ \E w \in 0..MaxShrinks : Shrinks(best', w)
      /\ shrinks' = [shrinks EXCEPT !.next = @ + 1]
      /\ path' = Append(path, i) /\ i' = 0

\* Mutant: anything that does not succeed is taken for a failure.
AcceptShrink_Discards ==
    \E d \in Description :
      /\ TryShrink(d) /\ d.type # "Success"
      /\ best' = Child(shrinks.of, shrinks.next)
      /\ ListShrinks(best')
      /\ path' = Append(path, i) /\ i' = 0

AcceptShrink ==
    \E d \in Description :
      /\ TryShrink(d) /\ d.type = "Failure"
      /\ best' = Child(shrinks.of, shrinks.next)
      /\ ListShrinks(best')
      /\ path' = Append(path, i)
      /\ i' = 0

\* Mutant: lists the shrinks of the best case again.
RejectShrink_StartsOver ==
    \E d \in Description :
      /\ TryShrink(d) /\ d.type # "Failure"
      /\ ListShrinks(best)
      /\ UNCHANGED <<best, path, i>>

RejectShrink ==
    \E d \in Description :
      /\ TryShrink(d) /\ d.type # "Failure"
      /\ shrinks' = [shrinks EXCEPT !.next = @ + 1]
      /\ i' = i + 1
      /\ UNCHANGED <<best, path, width>>

NoMoreShrinks ==
    /\ phase = "shrink" /\ shrinks.next >= width[shrinks.of]
    /\ phase' = "minimal"
    /\ UNCHANGED <<memo, searchVars, shrinkVars, replayVars, noshrink, result>>

\* beforeMinimalTestCase(), then the minimal case once more for its description.
RunMinimal ==
    /\ phase = "minimal"
    /\ \E d \in Description : Value(best, d)
    /\ phase' = "finished"
    /\ result' = [type |-> "Failure", numSuccess |-> numSuccess,
                  reproduce |-> [random |-> failure.random,
                                 size |-> failure.size, shrinkPath |-> path],
                  counterExample |-> best]
    /\ UNCHANGED <<width, searchVars, shrinkVars, replayVars, noshrink>>

-----------------------------------------------------------------------------
(* A later process, given the reproduce string *)

\* result.match(failure): only a FailureResult has anything to reproduce.
Failed == result # Nothing /\ result.type = "Failure"

\* Mutant: the path survives noshrink.
walked_WithNoShrink == result.reproduce.shrinkPath

\* checkProperty drops the path when that process runs with noshrink=1.
walked == IF noshrink THEN <<>> ELSE result.reproduce.shrinkPath

StartReproducing ==
    /\ phase = "finished" /\ Failed
    /\ noshrink' \in BOOLEAN
    /\ phase' = "walk"
    /\ \E b \in Builds :
         current' = Root(b, result.reproduce.random, result.reproduce.size)
    /\ step' = 0
    /\ UNCHANGED <<memo, searchVars, shrinkVars, replay, result>>

\* Mutant: the case that the path breaks off at is judged.
WalkStep_Nearest ==
    /\ phase = "walk" /\ step < Len(walked)
    /\ \E w \in 0..MaxShrinks :
         /\ Shrinks(current, w)
         /\ IF walked[step + 1] < w
              THEN /\ current' = Child(current, walked[step + 1])
                   /\ step' = step + 1
                   /\ UNCHANGED <<outcome, phase, replay>>
              ELSE /\ \E d \in Description :
                        /\ Value(current, d)
                        /\ replay' = IF d.type = "Failure" THEN "Failure" ELSE "NotAFailure"
                   /\ phase' = "done" /\ UNCHANGED <<current, step>>
    /\ UNCHANGED <<searchVars, shrinkVars, noshrink, result>>

\* Mutant: one shrink too far is taken for the last one.
WalkStep_PastEnd ==
    /\ phase = "walk" /\ step < Len(walked)
    /\ \E w \in 0..MaxShrinks :
         /\ Shrinks(current, w)
         /\ IF walked[step + 1] <= w
              THEN /\ current' = Child(current, walked[step + 1])
                   /\ step' = step + 1
                   /\ UNCHANGED <<phase, replay>>
              ELSE /\ phase' = "done"
                   /\ replay' = "Unreachable"
                   /\ UNCHANGED <<current, step>>
    /\ UNCHANGED <<outcome, searchVars, shrinkVars, noshrink, result>>

\* seq::at(current.shrinks(), i): Nothing when there are too few shrinks.
WalkStep ==
    /\ phase = "walk" /\ step < Len(walked)
    /\ \E w \in 0..MaxShrinks :
         /\ Shrinks(current, w)
         /\ IF walked[step + 1] < w
              THEN /\ current' = Child(current, walked[step + 1])
                   /\ step' = step + 1
                   /\ UNCHANGED <<phase, replay>>
              ELSE /\ phase' = "done"
                   /\ replay' = "Unreachable"
                   /\ UNCHANGED <<current, step>>
    /\ UNCHANGED <<outcome, searchVars, shrinkVars, noshrink, result>>

RunReproduced ==
    /\ phase = "walk" /\ step = Len(walked)
    /\ \E d \in Description :
         /\ Value(current, d)
         /\ replay' = IF d.type = "Failure" THEN "Failure" ELSE "NotAFailure"
    /\ phase' = "done"
    /\ UNCHANGED <<width, searchVars, shrinkVars, current, step, noshrink, result>>

-----------------------------------------------------------------------------
Init ==
    /\ outcome = << >> /\ width = << >>
    /\ noshrink \in BOOLEAN
    /\ phase = "search"
    /\ splits = 0 /\ numSuccess = 0 /\ numDiscarded = 0 /\ recentDiscards = 0
    /\ tags = <<>> /\ failure = Nothing
    /\ best = Nothing /\ shrinks = Nothing /\ path = <<>> /\ i = 0
    /\ result = Nothing
    /\ current = Nothing /\ step = 0 /\ replay = "none"

Next ==
    \/ CaseSucceeds \/ CaseDiscarded \/ CaseFails \/ Succeed
    \/ StartShrinking \/ AcceptShrink \/ RejectShrink \/ NoMoreShrinks
    \/ RunMinimal
    \/ StartReproducing \/ WalkStep \/ RunReproduced

\* One thread runs the loop: while it can take a step, it does.  That a single
\* evaluation returns is the property's own business and is assumed.
Fairness == WF_vars(Next)

Spec == Init /\ [][Next]_vars /\ Fairness

-----------------------------------------------------------------------------
(* Invariants *)

Phases == {"search", "failed", "shrink", "minimal", "finished", "walk", "done"}

\* Nothing yet; a failure again; "Unable to reproduce minimum value"; "Reproduced
\* result is not a failure".
Replays == {"none", "Failure", "Unreachable", "NotAFailure"}

\* Every variable has the type its C++ counterpart has.
TypeOK ==
    /\ DOMAIN outcome \subseteq Node /\ outcome \in [DOMAIN outcome -> Description]
    /\ DOMAIN width \subseteq Node /\ width \in [DOMAIN width -> 0..MaxShrinks]
    /\ noshrink \in BOOLEAN /\ phase \in Phases
    /\ splits \in Nat /\ numSuccess \in Nat /\ numDiscarded \in Nat
    /\ recentDiscards \in Nat /\ tags \in Seq(TagVectors)
    /\ failure \in Failure \cup {Nothing}
    /\ best \in Node \cup {Nothing}
    /\ shrinks \in Remaining \cup {Nothing}
    /\ path \in Seq(Nat) /\ i \in Nat
    /\ result \in TestResult \cup {Nothing}
    /\ current \in Node \cup {Nothing} /\ step \in Nat /\ replay \in Replays

\* The node reached from a root by the first k steps of a path.
Ancestor(root, p, k) == [root EXCEPT !.path = SubSeq(p, 1, k)]

\* With listings g: the first m steps of p stay within the shrinks that were listed.
Inside(g, root, p, m) ==
    \A k \in 1..m : /\ Ancestor(root, p, k - 1) \in DOMAIN g
                    /\ p[k] < g[Ancestor(root, p, k - 1)]

\* With answers f and listings g: the nodes from a failing root down to n along
\* p all fail, and p stays within the shrinks that were listed.
Descent(f, g, root, p, n) ==
    /\ n = Ancestor(root, p, Len(p))
    /\ \A k \in 0..Len(p) : FailsIn(f, Ancestor(root, p, k))
    /\ Inside(g, root, p, Len(p))

\* With answers f: the first m shrinks of n were tried and do not fail.
RuledOut(f, n, m) ==
    \A k \in 0..(m - 1) : Child(n, k) \in DOMAIN f /\ ~FailsIn(f, Child(n, k))

\* What a FailureResult stores is enough to find the counterexample again:
\* generating from the stored random state and size and following the stored
\* indices stays inside the tree, meets only failing cases, and ends at the
\* reported one (FailureResult::reproduce, Testing.cpp:142-149).
FailureIsReproducible ==
    Failed =>
      Descent(outcome, width,
              Root("original", result.reproduce.random, result.reproduce.size),
              result.reproduce.shrinkPath, result.counterExample)

\* The reported case is a local minimum: every one of its shrinks was tried and
\* none of them failed (the loop of shrinkTestCase runs out of shrinks).
LocallyMinimal ==
    (Failed /\ phase = "finished" /\ ~noshrink) =>
      LET n == result.counterExample
      IN n \in DOMAIN width /\ RuledOut(outcome, n, width[n])

\* Reproducing gives the verdict on one case, whatever became of the program: the
\* one at the very end of the recorded path, in the tree that the program has now.
\* It fails or does not; or the path leaves that tree and no case is judged in its
\* place.  The unedited program fails again, with the counterexample of the original
\* run, or with the unshrunk case when noshrink is set (walkPath, reproduceProperty;
\* Check.cpp:25-29).
ReplayAgrees ==
    phase = "done" =>
      LET root == Root(current.build, result.reproduce.random, result.reproduce.size)
      IN /\ current = Ancestor(root, walked, step) /\ Inside(width, root, walked, step)
         /\ IF replay = "Unreachable"
              THEN /\ step < Len(walked)
                   /\ current \in DOMAIN width /\ width[current] <= walked[step + 1]
              ELSE /\ step = Len(walked)
                   /\ current \in DOMAIN outcome /\ (replay = "Failure" <=> Fails(current))
         /\ current.build = "original" =>
              /\ replay = "Failure"
              /\ current = IF noshrink THEN root ELSE result.counterExample

\* The cases the search generated, by what became of them.
Cases(type) == {n \in DOMAIN outcome : /\ n.build = "original" /\ n.path = <<>>
                                       /\ outcome[n].type = type}

\* The verdict follows from the cases that ran: success means MaxSuccess
\* successes within the discard budget, giving up means one discard more than
\* the budget, and a failure is the only failing case.  The reported distribution
\* counts exactly the tagged successful cases: no discarded or failing one
\* contributes (searchProperty; doTestProperty).
VerdictMatchesCases ==
    result # Nothing =>
      /\ Cardinality(Cases("Success")) = result.numSuccess
      /\ result.type = "Success" =>
           /\ result.numSuccess = MaxSuccess
           /\ Cardinality(Cases("Discard")) <= maxDiscard
           /\ Cases("Failure") = {}
           /\ \A t \in TagVectors \ {<<>>} :
                distribution[t] = Cardinality({n \in Cases("Success") : outcome[n].tags = t})
      /\ result.type = "GaveUp" =>
           /\ result.numSuccess < MaxSuccess
           /\ Cardinality(Cases("Discard")) = maxDiscard + 1
      /\ result.type = "Failure" =>
           Cases("Failure") = {Root("original", result.reproduce.random,
                                    result.reproduce.size)}

\* A property that holds was tried at the maximum size whenever it was tried more
\* than once, and the sizes between are missed by less than an even spread of the
\* cases would: at none, when there are more cases than sizes
\* (sizeFor; the claims tested in TestingTests.cpp:129-151).
EverySizeTested ==
    (result # Nothing /\ result.type = "Success" /\ numDiscarded < 10 /\ MaxSuccess > 1) =>
      LET sizes == {n.size : n \in Cases("Success")}
      IN /\ MaxSize \in sizes
         /\ \A s \in 0..MaxSize :
              \E t \in sizes :
                t <= s /\ (t = s \/ (s - t) * (MaxSuccess - 1) < MaxSize)

\* With a discard ratio of ten or more a property is never given up on before
\* a larger size was tried, so one that merely discards size 0 gets its chance
\* (recentDiscards / 10; the claim tested in TestingTests.cpp:153-159).
GivesUpOnlyAfterGrowing ==
    (result # Nothing /\ result.type = "GaveUp" /\ MaxDiscardRatio >= 10) =>
      \E n \in Cases("Discard") : n.size > 0

(* The inductive invariant *)

\* What the engine knows in each phase.
FailedInv ==
    phase \in {"failed", "shrink", "minimal"} =>
      /\ failure \in Failure
      /\ failure.shrinkable = Root("original", failure.random, failure.size)
      /\ Fails(failure.shrinkable)

ShrinkInv ==
    /\ phase \in {"shrink", "minimal"} =>
         Descent(outcome, width, failure.shrinkable, path, best)
    /\ phase = "shrink" =>
         /\ shrinks \in Remaining
         /\ shrinks.of = best /\ best \in DOMAIN width
         /\ i = shrinks.next /\ RuledOut(outcome, best, i)
    /\ (phase = "minimal" /\ ~noshrink) =>
         best \in DOMAIN width /\ RuledOut(outcome, best, width[best])

ResultInv ==
    /\ phase \in {"search", "failed", "shrink", "minimal"} => result = Nothing
    /\ phase \in {"walk", "done"} => Failed
    /\ Failed => result.reproduce # Nothing /\ result.counterExample # Nothing
    /\ FailureIsReproducible

WalkInv ==
    /\ phase \in {"walk", "done"} => current \in Node
    /\ phase = "walk" =>
         /\ step <= Len(walked)
         /\ LET root == Root(current.build, result.reproduce.random, result.reproduce.size)
            IN current = Ancestor(root, walked, step) /\ Inside(width, root, walked, step)

IInv == /\ TypeOK /\ FailedInv /\ ShrinkInv /\ ResultInv /\ WalkInv
        /\ LocallyMinimal /\ ReplayAgrees

(* Liveness *)

\* Every run of a property with finite shrink trees ends in a verdict, and so
\* does reproducing a failure.
Termination ==
    <>(phase = "done" \/ (phase = "finished" /\ result.type # "Failure"))

(* Refinement *)

\* Testing implements the abstract promise of LocalMinimum: a counterexample is
\* found, improved only to one of its own failing shrinks, and declared when
\* none of them fails.
LM == INSTANCE LocalMinimum WITH
        example <- IF phase \in {"search", "failed"} THEN Nothing ELSE best,
        declared <- Failed,
        shrinking <- ~noshrink

\* Whatever the engine does on the way, its user sees that promise kept
\* (shrinkTestCase and doTestProperty, Testing.cpp:82-151).
DescendsToLocalMinimum == LM!Spec
=============================================================================
