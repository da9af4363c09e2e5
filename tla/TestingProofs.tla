--------------------------- MODULE TestingProofs ---------------------------
(***************************************************************************)
(* Theorems about Testing, for every value of its constants and for every  *)
(* property: its counterexamples are local minima that can be reproduced,  *)
(* it is a refinement of LocalMinimum, its verdict follows from the cases  *)
(* that ran, and it neither gives up early nor leaves out sizes.           *)
(***************************************************************************)
EXTENDS Testing, FiniteSetTheorems, SequenceTheorems, TLAPS

-----------------------------------------------------------------------------
(* Nodes and paths *)

LEMMA NodeTypes ==
    /\ \A b \in Builds, r, s \in Nat : Root(b, r, s) \in Node
    /\ \A n \in Node, k \in Nat : Child(n, k) \in Node
<1>1. ASSUME NEW b \in Builds, NEW r \in Nat, NEW s \in Nat
      PROVE  Root(b, r, s) \in Node
  BY EmptySeq DEF Node, Root
<1>2. ASSUME NEW n \in Node, NEW k \in Nat
      PROVE  Child(n, k) \in Node
  <2>1. Append(n.path, k) \in Seq(Nat)
    BY AppendProperties DEF Node
  <2> QED  BY <2>1 DEF Node, Child
<1> QED  BY <1>1, <1>2

\* An ancestor is a node; the zeroth one is the root itself; and each is a child
\* of the one before it.
LEMMA AncestorSteps ==
    ASSUME NEW root \in Node, root.path = <<>>, NEW p \in Seq(Nat)
    PROVE  /\ Ancestor(root, p, 0) = root
           /\ \A k \in 0..Len(p) : Ancestor(root, p, k) \in Node
           /\ \A k \in 1..Len(p) :
                Ancestor(root, p, k) = Child(Ancestor(root, p, k - 1), p[k])
<1>1. SubSeq(p, 1, 0) = <<>>
  BY SubSeqEmpty
<1>2. ASSUME NEW k \in 0..Len(p)
      PROVE  /\ SubSeq(p, 1, k) \in Seq(Nat)
             /\ Len(SubSeq(p, 1, k)) = k
             /\ \A j \in 1..k : SubSeq(p, 1, k)[j] = p[j]
  BY SubSeqProperties
<1>3. ASSUME NEW k \in 1..Len(p)
      PROVE  SubSeq(p, 1, k) = Append(SubSeq(p, 1, k - 1), p[k])
  <2> DEFINE s == SubSeq(p, 1, k)
             t == Append(SubSeq(p, 1, k - 1), p[k])
  <2>1. /\ s \in Seq(Nat) /\ Len(s) = k
        /\ \A j \in 1..k : s[j] = p[j]
    BY <1>2
  <2>2. /\ t \in Seq(Nat) /\ Len(t) = k
        /\ \A j \in 1..k : t[j] = p[j]
    <3>1. SubSeq(p, 1, k - 1) \in Seq(Nat) /\ p[k] \in Nat
      BY <1>2
    <3>2. Len(SubSeq(p, 1, k - 1)) = k - 1
      BY <1>2
    <3>3. \A j \in 1..(k - 1) : SubSeq(p, 1, k - 1)[j] = p[j]
      BY <1>2
    <3> HIDE DEF s
    <3> QED  BY SMTT(20), <3>1, <3>2, <3>3, AppendProperties
  <2> HIDE DEF s, t
  <2>3. s = t
    BY <2>1, <2>2, SeqEqual
  <2> QED  BY <2>3 DEF s, t
<1>4. Ancestor(root, p, 0) = root
  BY <1>1 DEF Ancestor, Node
<1>5. \A k \in 0..Len(p) : Ancestor(root, p, k) \in Node
  BY <1>2 DEF Ancestor, Node
<1>6. \A k \in 1..Len(p) :
        Ancestor(root, p, k) = Child(Ancestor(root, p, k - 1), p[k])
  BY <1>3 DEF Ancestor, Child, Node
<1> QED  BY <1>4, <1>5, <1>6

\* Appending to a path leaves the ancestors it had.
LEMMA AncestorAppend ==
    ASSUME NEW root \in Node, NEW p \in Seq(Nat), NEW x \in Nat,
           NEW k \in 0..Len(p)
    PROVE  Ancestor(root, Append(p, x), k) = Ancestor(root, p, k)
<1> DEFINE s == SubSeq(p, 1, k)
           t == SubSeq(Append(p, x), 1, k)
<1>1. /\ Append(p, x) \in Seq(Nat) /\ Len(Append(p, x)) = Len(p) + 1
      /\ \A j \in 1..Len(p) : Append(p, x)[j] = p[j]
  BY AppendProperties
<1>2. s \in Seq(Nat) /\ Len(s) = k /\ \A j \in 1..k : s[j] = p[j]
  BY SubSeqProperties
<1>3. t \in Seq(Nat) /\ Len(t) = k /\ \A j \in 1..k : t[j] = p[j]
  BY <1>1, SubSeqProperties
<1> HIDE DEF s, t
<1>4. s = t
  BY <1>2, <1>3, SeqEqual
<1> QED  BY <1>4 DEF Ancestor, s, t

-----------------------------------------------------------------------------
(* The answers of the property under test *)

\* value() adds the answer to the memo and changes no other answer.
LEMMA ValueLearns ==
    ASSUME TypeOK, NEW n \in Node, NEW d \in Description, Value(n, d)
    PROVE  /\ DOMAIN outcome' = DOMAIN outcome \cup {n}
           /\ outcome' \in [DOMAIN outcome' -> Description]
           /\ \A m \in DOMAIN outcome : outcome'[m] = outcome[m]
           /\ outcome'[n] = d
<1> DEFINE new == DOMAIN outcome \cup {n}
<1>1. outcome' = [m \in new |-> IF m = n THEN d ELSE outcome[m]]
  BY DEF Value, Learn
<1>2. DOMAIN outcome' = new
  BY <1>1
<1>3. outcome'[n] = d
  BY <1>1
<1>4. ASSUME NEW m \in DOMAIN outcome
      PROVE  outcome'[m] = outcome[m]
  BY <1>1 DEF Value
<1>5. ASSUME NEW m \in new
      PROVE  outcome'[m] \in Description
  BY <1>3, <1>4 DEF TypeOK
<1>6. outcome' \in [new -> Description]
  BY <1>1, <1>5
<1> QED  BY <1>2, <1>3, <1>4, <1>6

\* Listing shrinks adds the answer to the memo and changes no other answer.
LEMMA ShrinksLearns ==
    ASSUME TypeOK, NEW n \in Node, NEW w \in 0..MaxShrinks, Shrinks(n, w)
    PROVE  /\ DOMAIN width' = DOMAIN width \cup {n}
           /\ width' \in [DOMAIN width' -> 0..MaxShrinks]
           /\ \A m \in DOMAIN width : width'[m] = width[m]
           /\ width'[n] = w
<1> DEFINE new == DOMAIN width \cup {n}
<1>1. width' = [m \in new |-> IF m = n THEN w ELSE width[m]]
  BY DEF Shrinks, Learn
<1>2. DOMAIN width' = new
  BY <1>1
<1>3. width'[n] = w
  BY <1>1
<1>4. ASSUME NEW m \in DOMAIN width
      PROVE  width'[m] = width[m]
  BY <1>1 DEF Shrinks
<1>5. ASSUME NEW m \in new
      PROVE  width'[m] \in 0..MaxShrinks
  BY <1>3, <1>4 DEF TypeOK
<1>6. width' \in [new -> 0..MaxShrinks]
  BY <1>1, <1>5
<1> QED  BY <1>2, <1>3, <1>4, <1>6

\* The sizes handed to the property are natural numbers.
LEMMA SizeForType == \A n \in Nat : n < MaxSuccess => SizeFor(n) \in Nat
<1> SUFFICES ASSUME NEW n \in Nat, n < MaxSuccess
             PROVE  SizeFor(n) \in Nat
  OBVIOUS
<1>1. numSizes \in Nat \ {0}
  BY ParamsAssumption DEF numSizes
<1>2. n % numSizes \in Nat
  BY <1>1
<1> DEFINE q == MaxSuccess \div numSizes
<1>3. q \in Nat /\ q * numSizes <= MaxSuccess
  BY <1>1, ParamsAssumption
<1>4. q * numSizes \in Nat
  BY <1>1, <1>3
<1>5. numRegular \in Nat /\ numRest \in Nat
  BY <1>3, <1>4, ParamsAssumption DEF numRegular, numRest
<1>6. CASE n < numRegular \/ numRest = 1
  BY <1>2, <1>6 DEF SizeFor
<1>7. CASE ~(n < numRegular) /\ numRest # 1
  <2>1. (n % numSizes) * MaxSize \in Nat
    BY <1>2, ParamsAssumption
  <2>2. numRest - 1 \in Nat \ {0}
    BY <1>5, <1>7, ParamsAssumption DEF numRest
  <2> QED  BY <2>1, <2>2, <1>5, <1>7 DEF SizeFor
<1> QED  BY <1>5, <1>6, <1>7

\* The search generates its cases from nodes of the original build.
LEMMA NextCaseType ==
    ASSUME TypeOK, numSuccess < MaxSuccess
    PROVE  /\ NextCase \in Node /\ NextCase.size \in Nat /\ splits \in Nat
           /\ NextCase = Root("original", splits, NextCase.size)
           /\ NextCase.path = <<>>
<1>1. SizeFor(numSuccess) \in Nat
  BY SizeForType DEF TypeOK
<1>2. recentDiscards \div 10 \in Nat
  BY DEF TypeOK
<1>3. SizeFor(numSuccess) + (recentDiscards \div 10) \in Nat
  BY <1>1, <1>2
<1>4. "original" \in Builds /\ splits \in Nat
  BY DEF Builds, TypeOK
<1> QED  BY <1>3, <1>4, NodeTypes DEF NextCase, Root

\* The first loop, one iteration: the memo grows and nothing else of what the
\* invariant mentions moves, but the counters.
LEMMA SearchKeepsTypes ==
    ASSUME TypeOK, NEW d \in Description, RunCase(d)
    PROVE  /\ DOMAIN outcome' \subseteq Node
           /\ outcome' \in [DOMAIN outcome' -> Description]
           /\ splits' \in Nat
           /\ NextCase \in DOMAIN outcome' /\ outcome'[NextCase] = d
<1>1. NextCase \in Node
  BY NextCaseType DEF RunCase
<1>2. splits' \in Nat
  BY DEF TypeOK, RunCase
<1> QED  BY <1>1, <1>2, ValueLearns DEF RunCase, TypeOK

(* Growing memos *)

Extends(f, g) == DOMAIN f \subseteq DOMAIN g /\ \A n \in DOMAIN f : g[n] = f[n]

\* Later answers do not disturb a descent, nor what was ruled out.
LEMMA MemoGrowth ==
    ASSUME NEW f, NEW f2, NEW g, NEW g2, Extends(f, f2), Extends(g, g2)
    PROVE  /\ \A root, p, n : Descent(f, g, root, p, n) => Descent(f2, g2, root, p, n)
           /\ \A root, p, m : Inside(g, root, p, m) => Inside(g2, root, p, m)
           /\ \A n, m : RuledOut(f, n, m) => RuledOut(f2, n, m)
BY DEF Extends, Descent, Inside, RuledOut, FailsIn

\* A failing root is a descent of no steps.
LEMMA DescentStarts ==
    ASSUME NEW f, NEW g, NEW root \in Node, root.path = <<>>, FailsIn(f, root)
    PROVE  Descent(f, g, root, <<>>, root)
<1>1. <<>> \in Seq(Nat) /\ Len(<<>>) = 0
  BY EmptySeq
<1>2. Ancestor(root, <<>>, 0) = root
  BY <1>1, AncestorSteps
<1>3. /\ \A k \in 0..0 : k = 0
      /\ \A k \in 1..0 : FALSE
  OBVIOUS
<1> QED  BY <1>1, <1>2, <1>3 DEF Descent, Inside

\* A failing shrink of the end of a descent extends it by its index.
LEMMA DescentExtends ==
    ASSUME NEW f, NEW g, NEW root \in Node, root.path = <<>>,
           NEW p \in Seq(Nat), NEW x \in Nat, NEW n,
           Descent(f, g, root, p, n), n \in DOMAIN g, x < g[n],
           FailsIn(f, Child(n, x))
    PROVE  Descent(f, g, root, Append(p, x), Child(n, x))
<1> DEFINE q == Append(p, x)
<1>1. /\ q \in Seq(Nat) /\ Len(q) = Len(p) + 1 /\ Len(p) \in Nat
      /\ \A k \in 1..Len(p) : q[k] = p[k]
      /\ q[Len(p) + 1] = x
  BY AppendProperties
<1>2. \A k \in 0..Len(p) : Ancestor(root, q, k) = Ancestor(root, p, k)
  BY AncestorAppend
<1>3. Ancestor(root, q, Len(p)) = n
  BY <1>1, <1>2 DEF Descent, Inside
<1> HIDE DEF q
<1>4. Ancestor(root, q, Len(q)) = Child(n, x)
  <2>1. Len(q) \in 1..Len(q) /\ Len(q) - 1 = Len(p)
    BY <1>1
  <2>2. Ancestor(root, q, Len(q)) = Child(Ancestor(root, q, Len(q) - 1), q[Len(q)])
    BY <1>1, <2>1, AncestorSteps
  <2> QED  BY <1>1, <1>3, <2>1, <2>2
<1>5. \A k \in 0..Len(q) : FailsIn(f, Ancestor(root, q, k))
  BY <1>1, <1>2, <1>4 DEF Descent, Inside
<1>6. \A k \in 1..Len(q) : /\ Ancestor(root, q, k - 1) \in DOMAIN g
                           /\ q[k] < g[Ancestor(root, q, k - 1)]
  <2> SUFFICES ASSUME NEW k \in 1..Len(q)
               PROVE  /\ Ancestor(root, q, k - 1) \in DOMAIN g
                      /\ q[k] < g[Ancestor(root, q, k - 1)]
    OBVIOUS
  <2>1. CASE k \in 1..Len(p)
    <3>1. k - 1 \in 0..Len(p)
      BY <2>1, <1>1
    <3>2. Ancestor(root, q, k - 1) = Ancestor(root, p, k - 1)
      BY <3>1, <1>2
    <3>3. q[k] = p[k]
      BY <2>1, <1>1
    <3> QED  BY <2>1, <3>2, <3>3 DEF Descent, Inside
  <2>2. CASE k = Len(p) + 1
    BY <2>2, <1>1, <1>3
  <2> QED  BY <2>1, <2>2, <1>1
<1> QED  BY <1>4, <1>5, <1>6 DEF Descent, Inside, q

\* The memos only grow.
LEMMA ValueExtends ==
    ASSUME TypeOK, NEW n \in Node, NEW d \in Description, Value(n, d)
    PROVE  Extends(outcome, outcome') /\ outcome'[n] = d /\ n \in DOMAIN outcome'
BY ValueLearns DEF Extends

LEMMA ShrinksExtends ==
    ASSUME TypeOK, NEW n \in Node, NEW w \in 0..MaxShrinks, Shrinks(n, w)
    PROVE  Extends(width, width') /\ width'[n] = w /\ n \in DOMAIN width'
BY ShrinksLearns DEF Extends

-----------------------------------------------------------------------------
(* Each action preserves the invariant *)

\* While the search runs nothing is known yet that the invariant would mention.
LEMMA SearchStep ==
    ASSUME IInv, CaseSucceeds \/ CaseDiscarded \/ CaseFails \/ Succeed
    PROVE  IInv'
<1> USE DEF IInv
<1>0. phase = "search" /\ result = Nothing /\ ~Failed
  BY DEF CaseSucceeds, CaseDiscarded, CaseFails, Succeed, RunCase, ResultInv, Failed
<1>1. CASE CaseSucceeds
  <2>1. PICK d \in Description :
          /\ RunCase(d) /\ d.type = "Success"
          /\ numSuccess' = numSuccess + 1 /\ recentDiscards' = 0
          /\ tags' = IF d.tags = <<>> THEN tags ELSE Append(tags, d.tags)
          /\ UNCHANGED <<numDiscarded, failure, phase, result>>
    BY <1>1 DEF CaseSucceeds
  <2>2. tags' \in Seq(TagVectors)
    BY <2>1, AppendProperties DEF TypeOK, Description
  <2>3. TypeOK'
    BY <2>1, <2>2, SearchKeepsTypes
    DEF TypeOK, RunCase, shrinkVars, replayVars
  <2>4. ~Failed'
    BY <1>0, <2>1 DEF Failed
  <2> QED  BY <1>0, <2>1, <2>3, <2>4
    DEF FailedInv, ShrinkInv, ResultInv, FailureIsReproducible, WalkInv, LocallyMinimal, ReplayAgrees
<1>2. CASE CaseDiscarded
  <2>1. PICK d \in Description :
          /\ RunCase(d)
          /\ numDiscarded' = numDiscarded + 1
          /\ recentDiscards' = recentDiscards + 1
          /\ \/ /\ failure' = [shrinkable |-> NextCase, size |-> NextCase.size,
                               random |-> splits]
                /\ phase' = "finished"
                /\ result' = [type |-> "GaveUp", numSuccess |-> numSuccess,
                              reproduce |-> Nothing, counterExample |-> Nothing]
             \/ UNCHANGED <<failure, phase, result>>
          /\ UNCHANGED <<numSuccess, tags>>
    BY <1>2 DEF CaseDiscarded
  <2>2. failure' \in Failure \cup {Nothing}
    BY SMTT(30), <2>1, NextCaseType DEF RunCase, TypeOK, Failure
  <2>3. result' \in TestResult \cup {Nothing} /\ phase' \in Phases
    BY <2>1 DEF TypeOK, TestResult, Phases
  <2>4. TypeOK'
    BY <2>1, <2>2, <2>3, SearchKeepsTypes
    DEF TypeOK, RunCase, shrinkVars, replayVars
  <2>5. ~Failed' /\ phase' \in {"search", "finished"}
        /\ (phase' = "search" => result' = Nothing)
    BY <1>0, <2>1 DEF Failed
  <2> QED  BY <2>4, <2>5
    DEF FailedInv, ShrinkInv, ResultInv, FailureIsReproducible, WalkInv, LocallyMinimal, ReplayAgrees
<1>3. CASE CaseFails
  <2>1. PICK d \in Description :
          /\ RunCase(d) /\ d.type = "Failure"
          /\ failure' = [shrinkable |-> NextCase, size |-> NextCase.size,
                         random |-> splits]
          /\ phase' = "failed"
          /\ UNCHANGED <<numSuccess, numDiscarded, recentDiscards, tags, result>>
    BY <1>3 DEF CaseFails
  <2>2. failure' \in Failure
    BY <2>1, NextCaseType DEF RunCase, Failure
  <2>3. TypeOK'
    BY <2>1, <2>2, SearchKeepsTypes
    DEF TypeOK, RunCase, Phases, shrinkVars, replayVars
  <2>4. FailedInv'
    BY <2>1, <2>2, NextCaseType, SearchKeepsTypes
    DEF FailedInv, Fails, FailsIn, RunCase, Root
  <2> QED  BY <1>0, <2>1, <2>3, <2>4
    DEF ShrinkInv, ResultInv, FailureIsReproducible, WalkInv, LocallyMinimal, ReplayAgrees, Failed
<1>4. CASE Succeed
  <2>1. result' \in TestResult
    BY <1>4 DEF Succeed, TypeOK, TestResult
  <2>2. TypeOK'
    BY <1>4, <2>1
    DEF Succeed, TypeOK, Phases, memo, searchVars, shrinkVars, replayVars
  <2> QED  BY <1>4, <2>2
    DEF Succeed, FailedInv, ShrinkInv, ResultInv, FailureIsReproducible, WalkInv, LocallyMinimal,
        ReplayAgrees, Failed
<1> QED  BY <1>1, <1>2, <1>3, <1>4

\* Shrinking: the path records the descent, and the shrinks behind i failed to
\* fail.
LEMMA ShrinkStep ==
    ASSUME IInv, StartShrinking \/ AcceptShrink \/ RejectShrink \/ NoMoreShrinks
    PROVE  IInv'
<1> USE DEF IInv
<1>0. /\ phase \in {"failed", "shrink"} /\ result = Nothing /\ ~Failed
      /\ failure \in Failure /\ failure.shrinkable \in Node
      /\ failure.shrinkable = Root("original", failure.random, failure.size)
      /\ failure.shrinkable.path = <<>> /\ Fails(failure.shrinkable)
  <2>1. phase \in {"failed", "shrink"}
    BY DEF StartShrinking, AcceptShrink, RejectShrink, NoMoreShrinks, TryShrink
  <2> QED  BY <2>1 DEF FailedInv, ResultInv, Failed, Failure, Root
<1>1. CASE StartShrinking
  <2>1. best' = failure.shrinkable /\ path' = <<>> /\ i' = 0
    BY <1>1 DEF StartShrinking
  <2>2. UNCHANGED <<outcome, searchVars, replayVars, noshrink, result>>
    BY <1>1 DEF StartShrinking
  <2>3. path' \in Seq(Nat) /\ best' \in Node
    BY <1>0, <2>1, EmptySeq
  <2>4. Descent(outcome, width', failure.shrinkable, <<>>, failure.shrinkable)
    BY <1>0, DescentStarts DEF Fails
  <2>5. CASE noshrink
    <3>1. phase' = "minimal" /\ UNCHANGED <<shrinks, width>>
      BY <1>1, <2>5 DEF StartShrinking
    <3>2. TypeOK'
      BY <2>1, <2>2, <2>3, <3>1 DEF TypeOK, Phases, searchVars, replayVars
    <3> QED  BY <1>0, <2>1, <2>2, <2>4, <2>5, <3>1, <3>2
      DEF FailedInv, ShrinkInv, ResultInv, WalkInv, LocallyMinimal, ReplayAgrees,
          FailureIsReproducible, Failed, Fails, searchVars
  <2>6. CASE ~noshrink
    <3>1. PICK w \in 0..MaxShrinks : Shrinks(best', w)
      BY <1>1, <2>6 DEF StartShrinking, ListShrinks
    <3>2. phase' = "shrink" /\ shrinks' = [of |-> best', next |-> 0]
      BY <1>1, <2>6 DEF StartShrinking, ListShrinks
    <3>3. /\ DOMAIN width' \subseteq Node /\ width' \in [DOMAIN width' -> 0..MaxShrinks]
          /\ best' \in DOMAIN width'
      BY <2>3, <3>1, ShrinksLearns DEF TypeOK
    <3>4. shrinks' \in Remaining
      BY <2>3, <3>2 DEF Remaining
    <3>5. TypeOK'
      BY <2>1, <2>2, <2>3, <3>2, <3>3, <3>4 DEF TypeOK, Phases, searchVars, replayVars
    <3>6. RuledOut(outcome', best', 0)
      BY DEF RuledOut
    <3> QED  BY <1>0, <2>1, <2>2, <2>4, <3>2, <3>3, <3>4, <3>5, <3>6
      DEF FailedInv, ShrinkInv, ResultInv, WalkInv, LocallyMinimal, ReplayAgrees,
          FailureIsReproducible, Failed, Fails, searchVars
  <2> QED  BY <2>5, <2>6
<1>2. ASSUME NEW d \in Description, TryShrink(d)
      PROVE  /\ shrinks \in Remaining /\ shrinks.of = best
             /\ best \in Node /\ best \in DOMAIN width
             /\ i = shrinks.next /\ i \in Nat /\ i < width[best]
             /\ Child(best, i) \in Node /\ Value(Child(best, i), d)
             /\ Descent(outcome, width, failure.shrinkable, path, best)
             /\ RuledOut(outcome, best, i)
  BY <1>2, NodeTypes DEF TryShrink, ShrinkInv, TypeOK
<1>3. CASE AcceptShrink
  <2>1. PICK d \in Description :
          /\ TryShrink(d) /\ d.type = "Failure"
          /\ best' = Child(shrinks.of, shrinks.next)
          /\ ListShrinks(best')
          /\ path' = Append(path, i)
          /\ i' = 0
    BY <1>3 DEF AcceptShrink
  <2>2. best' = Child(best, i) /\ best' \in Node
    BY <1>2, <2>1
  <2>3. /\ outcome' \in [DOMAIN outcome' -> Description]
        /\ DOMAIN outcome' \subseteq Node
        /\ Extends(outcome, outcome') /\ FailsIn(outcome', best')
    <3>1. Child(best, i) \in Node /\ Value(Child(best, i), d)
      BY <1>2, <2>1
    <3>2. /\ DOMAIN outcome' = DOMAIN outcome \cup {Child(best, i)}
          /\ outcome' \in [DOMAIN outcome' -> Description]
      BY <3>1, ValueLearns
    <3>3. /\ Extends(outcome, outcome') /\ outcome'[Child(best, i)] = d
          /\ Child(best, i) \in DOMAIN outcome'
      BY <3>1, ValueExtends
    <3> QED  BY <2>1, <2>2, <3>1, <3>2, <3>3 DEF TypeOK, FailsIn
  <2>4. PICK w \in 0..MaxShrinks : Shrinks(best', w)
    BY <2>1 DEF ListShrinks
  <2>5. /\ width' \in [DOMAIN width' -> 0..MaxShrinks]
        /\ DOMAIN width' \subseteq Node
        /\ Extends(width, width') /\ best' \in DOMAIN width'
    BY <2>2, <2>4, ShrinksLearns, ShrinksExtends DEF TypeOK
  <2>6. shrinks' = [of |-> best', next |-> 0] /\ shrinks' \in Remaining
    BY <2>1, <2>2 DEF ListShrinks, Remaining
  <2>7. UNCHANGED <<searchVars, replayVars, noshrink, phase, result>> /\ phase = "shrink"
    BY <2>1 DEF TryShrink
  <2>8. path' \in Seq(Nat)
    BY <1>2, <2>1, AppendProperties DEF TypeOK
  <2>9. TypeOK'
    BY <2>1, <2>2, <2>3, <2>5, <2>6, <2>7, <2>8 DEF TypeOK, searchVars, replayVars
  <2>10. Descent(outcome', width', failure.shrinkable, path, best)
    BY <1>2, <2>1, <2>3, <2>5, MemoGrowth
  <2>11. best \in DOMAIN width' /\ i < width'[best]
    BY <1>2, <2>1, <2>5 DEF Extends
  <2>12. Descent(outcome', width', failure.shrinkable, path', best')
    <3>1. path \in Seq(Nat) /\ i \in Nat
      BY DEF TypeOK
    <3> QED  BY <1>0, <2>1, <2>2, <2>3, <2>10, <2>11, <3>1, DescentExtends
  <2>13. RuledOut(outcome', best', 0)
    BY DEF RuledOut
  <2>14. Fails(failure.shrinkable)'
    BY <1>0, <2>3, <2>7 DEF Fails, FailsIn, Extends, searchVars
  <2> QED  BY <1>0, <2>1, <2>5, <2>6, <2>7, <2>9, <2>12, <2>13, <2>14
    DEF FailedInv, ShrinkInv, ResultInv, WalkInv, LocallyMinimal, ReplayAgrees,
        FailureIsReproducible, Failed, searchVars
<1>4. CASE RejectShrink
  <2>1. PICK d \in Description :
          /\ TryShrink(d) /\ d.type # "Failure"
          /\ shrinks' = [shrinks EXCEPT !.next = @ + 1]
          /\ i' = i + 1
          /\ UNCHANGED <<best, path, width>>
    BY <1>4 DEF RejectShrink
  <2>2. /\ outcome' \in [DOMAIN outcome' -> Description]
        /\ DOMAIN outcome' \subseteq Node
        /\ Extends(outcome, outcome') /\ Extends(width, width')
        /\ Child(best, i) \in DOMAIN outcome' /\ ~FailsIn(outcome', Child(best, i))
    <3>1. Child(best, i) \in Node /\ Value(Child(best, i), d)
      BY <1>2, <2>1
    <3>2. /\ DOMAIN outcome' = DOMAIN outcome \cup {Child(best, i)}
          /\ outcome' \in [DOMAIN outcome' -> Description]
      BY <3>1, ValueLearns
    <3>3. /\ Extends(outcome, outcome') /\ outcome'[Child(best, i)] = d
          /\ Child(best, i) \in DOMAIN outcome'
      BY <3>1, ValueExtends
    <3>4. Extends(width, width')
      BY <2>1 DEF Extends
    <3> QED  BY <2>1, <3>1, <3>2, <3>3, <3>4 DEF TypeOK, FailsIn
  <2>3. /\ shrinks' \in Remaining
        /\ shrinks'.of = best /\ shrinks'.next = i + 1
    BY <1>2, <2>1 DEF Remaining
  <2>4. UNCHANGED <<searchVars, replayVars, noshrink, phase, result>> /\ phase = "shrink"
    BY <2>1 DEF TryShrink
  <2>5. TypeOK'
    BY <1>2, <2>1, <2>2, <2>3, <2>4 DEF TypeOK, searchVars, replayVars
  <2>6. Descent(outcome', width', failure.shrinkable, path, best)
    BY <1>2, <2>1, <2>2, MemoGrowth
  <2>7. RuledOut(outcome', best, i + 1)
    <3>1. RuledOut(outcome', best, i)
      BY <1>2, <2>1, <2>2, MemoGrowth
    <3>2. \A k \in 0..((i + 1) - 1) : k \in 0..(i - 1) \/ k = i
      BY DEF TypeOK
    <3> QED  BY <2>2, <3>1, <3>2 DEF RuledOut
  <2>8. Fails(failure.shrinkable)'
    BY <1>0, <2>2, <2>4 DEF Fails, FailsIn, Extends, searchVars
  <2> QED  BY <1>0, <1>2, <2>1, <2>3, <2>4, <2>5, <2>6, <2>7, <2>8
    DEF FailedInv, ShrinkInv, ResultInv, WalkInv, LocallyMinimal, ReplayAgrees,
        FailureIsReproducible, Failed, searchVars
<1>5. CASE NoMoreShrinks
  <2>1. /\ phase = "shrink" /\ shrinks.next >= width[shrinks.of]
        /\ phase' = "minimal"
        /\ UNCHANGED <<memo, searchVars, shrinkVars, replayVars, noshrink, result>>
    BY <1>5 DEF NoMoreShrinks
  <2>2. TypeOK'
    BY <2>1 DEF TypeOK, Phases, memo, searchVars, shrinkVars, replayVars
  <2>3. /\ best \in DOMAIN width /\ i >= width[best] /\ RuledOut(outcome, best, i)
        /\ i \in Nat /\ width[best] \in Nat
    BY <2>1 DEF ShrinkInv, TypeOK
  <2>4. RuledOut(outcome, best, width[best])
    BY <2>3 DEF RuledOut
  <2> QED  BY <1>0, <2>1, <2>2, <2>3, <2>4
    DEF FailedInv, ShrinkInv, ResultInv, WalkInv, LocallyMinimal, ReplayAgrees,
        FailureIsReproducible, Failed, Fails, memo, searchVars, shrinkVars
<1> QED  BY <1>1, <1>3, <1>4, <1>5

\* The minimal case is the end of the path from the case the search failed on.
LEMMA MinimalIsNode ==
    ASSUME IInv, phase = "minimal"
    PROVE  /\ failure \in Failure /\ path \in Seq(Nat) /\ best \in Node
           /\ failure.shrinkable = Root("original", failure.random, failure.size)
           /\ failure.shrinkable.path = <<>> /\ failure.shrinkable \in Node
           /\ Descent(outcome, width, failure.shrinkable, path, best)
<1>1. /\ failure \in Failure /\ path \in Seq(Nat)
      /\ failure.shrinkable = Root("original", failure.random, failure.size)
      /\ failure.shrinkable.path = <<>> /\ failure.shrinkable \in Node
      /\ Descent(outcome, width, failure.shrinkable, path, best)
  BY DEF IInv, FailedInv, ShrinkInv, TypeOK, Root, Failure
<1>2. best \in Node
  <2>1. Len(path) \in 0..Len(path)
    BY <1>1, LenProperties
  <2> QED  BY <1>1, <2>1, AncestorSteps DEF Descent, Inside
<1> QED  BY <1>1, <1>2

\* What the last run of the minimal case makes is a failure.
LEMMA MinimalIsResult ==
    ASSUME IInv, RunMinimal
    PROVE  /\ result' \in TestResult /\ result'.type = "Failure"
           /\ result'.reproduce \in Reproduce /\ result'.counterExample = best
BY MinimalIsNode DEF RunMinimal, IInv, TestResult, Reproduce, Failure, TypeOK

\* The last run of the minimal case turns what was found into the result.
LEMMA MinimalStep ==
    ASSUME IInv, RunMinimal
    PROVE  IInv'
<1> USE DEF IInv
<1>1. PICK d \in Description : Value(best, d)
  BY DEF RunMinimal
<1>2. /\ phase = "minimal" /\ phase' = "finished"
      /\ result' = [type |-> "Failure", numSuccess |-> numSuccess,
                    reproduce |-> [random |-> failure.random, size |-> failure.size,
                                   shrinkPath |-> path],
                    counterExample |-> best]
      /\ UNCHANGED <<width, searchVars, shrinkVars, replayVars, noshrink>>
  BY DEF RunMinimal
<1>3. /\ failure \in Failure /\ path \in Seq(Nat)
      /\ failure.shrinkable = Root("original", failure.random, failure.size)
      /\ failure.shrinkable.path = <<>> /\ failure.shrinkable \in Node
      /\ Descent(outcome, width, failure.shrinkable, path, best)
  BY <1>2, MinimalIsNode
<1>4. best \in Node
  BY <1>2, MinimalIsNode
<1>5. /\ DOMAIN outcome' = DOMAIN outcome \cup {best}
      /\ outcome' \in [DOMAIN outcome' -> Description]
      /\ Extends(outcome, outcome') /\ Extends(width, width')
  BY <1>1, <1>2, <1>4, ValueLearns, ValueExtends DEF Extends
<1>6. /\ result' \in TestResult /\ result'.type = "Failure"
      /\ result'.reproduce \in Reproduce
  BY MinimalIsResult
<1>7. TypeOK'
  BY <1>2, <1>4, <1>5, <1>6
  DEF TypeOK, Phases, searchVars, shrinkVars, replayVars
<1>8. Descent(outcome', width', failure.shrinkable, path, best)
  BY <1>3, <1>5, MemoGrowth
<1>9. Failed' /\ FailureIsReproducible'
  BY <1>2, <1>3, <1>6, <1>8, ValuesAssumption DEF Failed, FailureIsReproducible, TestResult
<1>10. LocallyMinimal'
  <2>1. ~noshrink => best \in DOMAIN width /\ RuledOut(outcome', best, width[best])
    BY <1>2, <1>5, MemoGrowth DEF ShrinkInv
  <2> QED  BY <1>2, <2>1 DEF LocallyMinimal
<1>11. result'.reproduce # Nothing /\ result'.counterExample # Nothing
  BY <1>2, <1>4, <1>6, ValuesAssumption
<1> QED  BY <1>2, <1>7, <1>9, <1>10, <1>11
  DEF FailedInv, ShrinkInv, ResultInv, WalkInv, ReplayAgrees

-----------------------------------------------------------------------------
(* The reproducing process *)

\* What it starts from.
LEMMA ReproduceTypes ==
    ASSUME IInv, Failed
    PROVE  /\ result.reproduce.random \in Nat /\ result.reproduce.size \in Nat
           /\ result.reproduce.shrinkPath \in Seq(Nat) /\ walked \in Seq(Nat)
           /\ \A b \in Builds :
                LET root == Root(b, result.reproduce.random, result.reproduce.size)
                IN root \in Node /\ root.path = <<>>
<1>1. result.reproduce \in Reproduce
  BY DEF IInv, TypeOK, ResultInv, Failed, TestResult, Reproduce
<1>2. walked \in Seq(Nat)
  BY <1>1, EmptySeq DEF walked, Reproduce
<1> QED  BY <1>1, <1>2, NodeTypes DEF Root, Reproduce

\* Along the walk, every node is where the path says, and in the original build
\* it is a failing node of the descent with the next shrink listed.
LEMMA WalkPosition ==
    ASSUME IInv, phase = "walk"
    PROVE  /\ current \in Node /\ step \in 0..Len(walked)
           /\ walked \in Seq(Nat) /\ Failed
           /\ LET root == Root(current.build, result.reproduce.random, result.reproduce.size)
              IN current = Ancestor(root, walked, step) /\ Inside(width, root, walked, step)
           /\ current.build = "original" =>
                /\ Fails(current)
                /\ step < Len(walked) => /\ current \in DOMAIN width
                                         /\ walked[step + 1] < width[current]
                /\ step = Len(walked) =>
                     current = IF noshrink
                                 THEN Root("original", result.reproduce.random,
                                           result.reproduce.size)
                                 ELSE result.counterExample
<1> DEFINE p == result.reproduce.shrinkPath
           root == Root("original", result.reproduce.random, result.reproduce.size)
<1>1. /\ Failed /\ current \in Node /\ current.build \in Builds
      /\ step \in Nat /\ step <= Len(walked)
      /\ current = Ancestor(Root(current.build, result.reproduce.random,
                                 result.reproduce.size), walked, step)
      /\ Inside(width, Root(current.build, result.reproduce.random,
                             result.reproduce.size), walked, step)
  BY DEF IInv, TypeOK, ResultInv, WalkInv, Node
<1>2. /\ p \in Seq(Nat) /\ walked \in Seq(Nat) /\ Len(walked) \in Nat /\ Len(p) \in Nat
      /\ root \in Node /\ root.path = <<>>
  BY <1>1, ReproduceTypes, LenProperties DEF Builds
<1>3. Descent(outcome, width, root, p, result.counterExample)
  BY <1>1 DEF IInv, ResultInv, FailureIsReproducible
<1>4. step \in 0..Len(walked)
  BY <1>1, <1>2
<1>5. ASSUME current.build = "original"
      PROVE  /\ Fails(current)
             /\ step < Len(walked) => /\ current \in DOMAIN width
                                      /\ walked[step + 1] < width[current]
             /\ step = Len(walked) =>
                  current = IF noshrink THEN root ELSE result.counterExample
  <2>1. current = Ancestor(root, walked, step)
    BY <1>1, <1>5
  <2>2. CASE noshrink
    <3>1. walked = <<>> /\ Len(walked) = 0 /\ step = 0
      BY <1>4, <2>2, EmptySeq DEF walked
    <3>2. current = root
      BY <1>2, <2>1, <3>1, AncestorSteps
    <3>3. Ancestor(root, p, 0) = root /\ 0 \in 0..Len(p)
      BY <1>2, AncestorSteps
    <3>4. FailsIn(outcome, root)
      BY <1>3, <3>3 DEF Descent, Inside
    <3> QED  BY <2>2, <3>1, <3>2, <3>4 DEF Fails
  <2>3. CASE ~noshrink
    <3>1. walked = p
      BY <2>3 DEF walked
    <3>2. FailsIn(outcome, current)
      BY <1>3, <1>4, <2>1, <3>1 DEF Descent, Inside
    <3>3. ASSUME step < Len(p)
          PROVE  current \in DOMAIN width /\ p[step + 1] < width[current]
      <4>1. step + 1 \in 1..Len(p) /\ (step + 1) - 1 = step
        BY <1>1, <1>2, <3>3
      <4>2. /\ Ancestor(root, p, (step + 1) - 1) \in DOMAIN width
            /\ p[step + 1] < width[Ancestor(root, p, (step + 1) - 1)]
        BY <1>3, <4>1 DEF Descent, Inside
      <4> QED  BY <2>1, <3>1, <4>1, <4>2
    <3>4. step = Len(p) => current = result.counterExample
      BY <1>3, <2>1, <3>1 DEF Descent, Inside
    <3> QED  BY <2>3, <3>1, <3>2, <3>3, <3>4 DEF Fails
  <2> QED  BY <2>2, <2>3
<1> QED  BY <1>1, <1>2, <1>4, <1>5

LEMMA ReproduceStep ==
    ASSUME IInv, StartReproducing \/ WalkStep \/ RunReproduced
    PROVE  IInv'
<1> USE DEF IInv
<1>1. CASE StartReproducing
  <2>1. /\ phase = "finished" /\ Failed /\ result # Nothing
        /\ phase' = "walk" /\ noshrink' \in BOOLEAN /\ step' = 0
        /\ UNCHANGED <<memo, searchVars, shrinkVars, replay, result>>
    BY <1>1 DEF StartReproducing, Failed
  <2>2. PICK b \in Builds :
          current' = Root(b, result.reproduce.random, result.reproduce.size)
    BY <1>1 DEF StartReproducing
  <2>3. /\ current' \in Node /\ current'.path = <<>> /\ current'.build = b
        /\ result.reproduce.shrinkPath \in Seq(Nat)
    BY <2>1, <2>2, ReproduceTypes DEF Root
  <2>4. TypeOK'
    BY <2>1, <2>3 DEF TypeOK, Phases, memo, searchVars, shrinkVars
  <2>5. walked' \in Seq(Nat) /\ Len(walked') \in Nat
    BY <2>1, <2>3, EmptySeq, LenProperties DEF walked
  <2>6. current' = Ancestor(Root(b, result.reproduce.random, result.reproduce.size),
                            walked', 0)
    BY <2>2, <2>3, <2>5, AncestorSteps
  <2>7. WalkInv'
    <3>1. \A root : Inside(width', root, walked', 0)
      BY DEF Inside
    <3> QED  BY <2>1, <2>2, <2>3, <2>5, <2>6, <3>1 DEF WalkInv
  <2>8. ResultInv'
    BY <2>1 DEF ResultInv, FailureIsReproducible, Failed, memo
  <2> QED  BY <2>1, <2>4, <2>7, <2>8
    DEF FailedInv, ShrinkInv, LocallyMinimal, ReplayAgrees
<1>2. CASE WalkStep
  <2>1. PICK w \in 0..MaxShrinks :
          /\ Shrinks(current, w)
          /\ \/ /\ walked[step + 1] < w
                /\ current' = Child(current, walked[step + 1])
                /\ step' = step + 1
                /\ UNCHANGED <<phase, replay>>
             \/ /\ ~(walked[step + 1] < w)
                /\ phase' = "done"
                /\ replay' = "Unreachable"
                /\ UNCHANGED <<current, step>>
    BY <1>2 DEF WalkStep
  <2>2. /\ phase = "walk" /\ step < Len(walked)
        /\ UNCHANGED <<outcome, searchVars, shrinkVars, noshrink, result>>
    BY <1>2 DEF WalkStep
  <2>3. /\ current \in Node /\ step \in 0..Len(walked) /\ walked \in Seq(Nat)
        /\ Failed /\ Len(walked) \in Nat
    BY <2>2, WalkPosition, LenProperties
  <2>4. /\ DOMAIN width' = DOMAIN width \cup {current}
        /\ width' \in [DOMAIN width' -> 0..MaxShrinks]
        /\ Extends(outcome, outcome') /\ Extends(width, width')
        /\ width'[current] = w
    BY <2>1, <2>2, <2>3, ShrinksLearns, ShrinksExtends DEF Extends
  <2>5. step + 1 \in 1..Len(walked) /\ walked[step + 1] \in Nat
    BY <2>2, <2>3, ElementOfSeq
  <2>6. current' \in Node /\ step' \in Nat
    <3>1. Child(current, walked[step + 1]) \in Node
      BY <2>3, <2>5, NodeTypes
    <3>2. step \in Nat /\ step + 1 \in Nat
      BY <2>3
    <3> QED  BY <2>1, <2>3, <3>1, <3>2
  <2>7. TypeOK'
    BY <2>1, <2>2, <2>4, <2>6, <2>3 DEF TypeOK, Phases, Replays, searchVars, shrinkVars
  <2>8. ResultInv'
    <3>1. FailureIsReproducible'
      BY <2>2, <2>4, MemoGrowth DEF ResultInv, FailureIsReproducible, Failed
    <3> QED  BY <2>1, <2>2, <2>3, <3>1 DEF ResultInv, Failed
  <2>9. CASE walked[step + 1] < w
    <3>1. /\ current' = Child(current, walked[step + 1]) /\ step' = step + 1
          /\ phase' = "walk" /\ walked' = walked
      BY <2>1, <2>2, <2>9 DEF walked
    <3>2. current'.build = current.build
      BY <2>3, <3>1 DEF Child, Node
    <3> DEFINE root == Root(current.build, result.reproduce.random,
                            result.reproduce.size)
    <3>3. root \in Node /\ root.path = <<>> /\ current = Ancestor(root, walked, step)
      BY <2>2, <2>3, ReproduceTypes DEF WalkInv, Node
    <3>4. (step + 1) - 1 = step
      BY <2>3
    <3>5. Ancestor(root, walked, step + 1) = Child(current, walked[step + 1])
      <4> HIDE DEF root
      <4>1. Ancestor(root, walked, step + 1)
              = Child(Ancestor(root, walked, (step + 1) - 1), walked[step + 1])
        BY <2>3, <2>5, <3>3, AncestorSteps
      <4> QED  BY <3>3, <3>4, <4>1
    <3>6. Inside(width', root, walked, step + 1)
      <4>1. Inside(width', root, walked, step)
        BY <2>2, <2>4, MemoGrowth, WalkPosition
      <4>2. current \in DOMAIN width' /\ walked[step + 1] < width'[current]
        BY <2>4, <2>9
      <4> HIDE DEF root
      <4>3. \A k \in 1..(step + 1) : k \in 1..step \/ k = step + 1
        BY <2>3
      <4> QED  BY <3>3, <3>4, <4>1, <4>2, <4>3 DEF Inside
    <3>7. WalkInv'
      <4>1. step + 1 <= Len(walked)
        BY <2>5
      <4>2. Root(current.build, result.reproduce.random, result.reproduce.size)' = root
        BY <2>2, <3>2
      <4> HIDE DEF root
      <4> QED  BY <2>2, <2>6, <3>1, <3>5, <3>6, <4>1, <4>2 DEF WalkInv
    <3> QED  BY <2>7, <2>8, <3>1, <3>7
      DEF FailedInv, ShrinkInv, LocallyMinimal, ReplayAgrees
  <2>10. CASE ~(walked[step + 1] < w)
    <3>1. phase' = "done" /\ current' = current
      BY <2>1, <2>10
    <3>2. current.build # "original"
      <4>1. SUFFICES ASSUME current.build = "original"
                     PROVE  FALSE
        OBVIOUS
      <4>2. current \in DOMAIN width /\ walked[step + 1] < width[current]
        BY <2>2, <4>1, WalkPosition
      <4> QED  BY <2>4, <2>10, <4>2 DEF Extends
    <3>3. ReplayAgrees'
      <4> DEFINE root == Root(current.build, result.reproduce.random,
                              result.reproduce.size)
      <4>1. /\ step' = step /\ walked' = walked /\ root' = root
            /\ replay' = "Unreachable"
        BY <2>1, <2>2, <2>10 DEF walked
      <4>2. current = Ancestor(root, walked, step) /\ Inside(width', root, walked, step)
        BY <2>2, <2>4, MemoGrowth, WalkPosition
      <4>3. current \in DOMAIN width' /\ width'[current] <= walked[step + 1]
        BY <2>4, <2>5, <2>10
      <4> HIDE DEF root
      <4> QED  BY <2>2, <3>1, <3>2, <4>1, <4>2, <4>3 DEF ReplayAgrees, root
    <3> QED  BY <2>3, <2>7, <2>8, <3>1, <3>3
      DEF FailedInv, ShrinkInv, WalkInv, LocallyMinimal
  <2> QED  BY <2>9, <2>10
<1>3. CASE RunReproduced
  <2>1. PICK d \in Description :
          /\ Value(current, d)
          /\ replay' = IF d.type = "Failure" THEN "Failure"
                       ELSE "NotAFailure"
    BY <1>3 DEF RunReproduced
  <2>2. /\ phase = "walk" /\ step = Len(walked) /\ phase' = "done"
        /\ UNCHANGED <<width, searchVars, shrinkVars, current, step, noshrink, result>>
    BY <1>3 DEF RunReproduced
  <2>3. current \in Node /\ Failed
    BY <2>2, WalkPosition
  <2>4. /\ DOMAIN outcome' = DOMAIN outcome \cup {current}
        /\ outcome' \in [DOMAIN outcome' -> Description]
        /\ Extends(outcome, outcome') /\ Extends(width, width')
        /\ outcome'[current] = d
    BY <2>1, <2>2, <2>3, ValueLearns, ValueExtends DEF Extends
  <2>5. TypeOK'
    BY <2>1, <2>2, <2>3, <2>4 DEF TypeOK, Phases, Replays, searchVars, shrinkVars
  <2>6. ResultInv'
    <3>1. FailureIsReproducible'
      BY <2>2, <2>4, MemoGrowth DEF ResultInv, FailureIsReproducible, Failed
    <3> QED  BY <2>2, <2>3, <3>1 DEF ResultInv, Failed
  <2>7. ReplayAgrees'
    <3> DEFINE root == Root(current.build, result.reproduce.random,
                            result.reproduce.size)
    <3>1. walked' = walked /\ root' = root
      BY <2>2 DEF walked
    <3>2. current = Ancestor(root, walked, step) /\ Inside(width', root, walked, step)
      BY <2>2, <2>4, MemoGrowth, WalkPosition
    <3>3. /\ replay' # "Unreachable"
          /\ current \in DOMAIN outcome' /\ (replay' = "Failure" <=> FailsIn(outcome', current))
      BY <2>1, <2>4 DEF FailsIn
    <3>4. ASSUME current.build = "original"
          PROVE  replay' = "Failure" /\ current = IF noshrink THEN root
                                                  ELSE result.counterExample
      <4>1. Fails(current)
        BY <2>2, <3>4, WalkPosition
      <4>2. d.type = "Failure"
        BY <2>4, <4>1 DEF Fails, FailsIn, Extends
      <4>3. current = IF noshrink THEN root ELSE result.counterExample
        BY <2>2, <3>4, WalkPosition
      <4> QED  BY <2>1, <4>2, <4>3
    <3> HIDE DEF root
    <3> QED  BY <2>2, <3>1, <3>2, <3>3, <3>4 DEF ReplayAgrees, Fails, root
  <2> QED  BY <2>2, <2>3, <2>5, <2>6, <2>7
    DEF FailedInv, ShrinkInv, WalkInv, LocallyMinimal
<1> QED  BY <1>1, <1>2, <1>3

-----------------------------------------------------------------------------
(* The theorems *)

LEMMA InitHolds == Init => IInv
<1> SUFFICES ASSUME Init
             PROVE  IInv
  OBVIOUS
<1>1. /\ outcome = << >> /\ width = << >> /\ tags = <<>> /\ path = <<>>
      /\ phase = "search" /\ result = Nothing
  BY DEF Init
<1>2. DOMAIN outcome = {} /\ DOMAIN width = {}
  BY <1>1
<1>3. /\ outcome \in [DOMAIN outcome -> Description]
      /\ width \in [DOMAIN width -> 0..MaxShrinks]
  BY <1>1, <1>2
<1>4. tags \in Seq(TagVectors) /\ path \in Seq(Nat)
  BY <1>1, EmptySeq
<1>5. TypeOK
  BY <1>2, <1>3, <1>4 DEF Init, TypeOK, Phases, Replays
<1> QED  BY <1>1, <1>5
  DEF IInv, FailedInv, ShrinkInv, ResultInv, WalkInv, LocallyMinimal, ReplayAgrees,
      FailureIsReproducible, Failed

LEMMA StepHolds == IInv /\ [Next]_vars => IInv'
<1> SUFFICES ASSUME IInv, [Next]_vars
             PROVE  IInv'
  OBVIOUS
<1>1. CASE CaseSucceeds \/ CaseDiscarded \/ CaseFails \/ Succeed
  BY <1>1, SearchStep
<1>2. CASE StartShrinking \/ AcceptShrink \/ RejectShrink \/ NoMoreShrinks
  BY <1>2, ShrinkStep
<1>3. CASE RunMinimal
  BY <1>3, MinimalStep
<1>4. CASE StartReproducing \/ WalkStep \/ RunReproduced
  BY <1>4, ReproduceStep
<1>5. CASE UNCHANGED vars
  BY <1>5
  DEF vars, memo, searchVars, shrinkVars, replayVars, IInv, TypeOK, FailedInv,
      ShrinkInv, ResultInv, WalkInv, LocallyMinimal, ReplayAgrees,
      FailureIsReproducible, Failed, Fails, walked
<1> QED  BY <1>1, <1>2, <1>3, <1>4, <1>5 DEF Next

\* The engine is always in a state its inductive invariant describes.
THEOREM Invariance == Spec => []IInv
BY InitHolds, StepHolds, PTL DEF Spec

\* Type correctness of searchProperty, shrinkTestCase, doTestProperty and
\* reproduceProperty.
THEOREM TypeCorrect == Spec => []TypeOK
<1>1. IInv => TypeOK
  BY DEF IInv
<1> QED  BY <1>1, Invariance, PTL

\* Whatever property fails, the stored random state, size and shrink path lead
\* from a failing case through failing cases to the reported counterexample.
THEOREM Reproducibility == Spec => []FailureIsReproducible
<1>1. IInv => FailureIsReproducible
  BY DEF IInv, ResultInv
<1> QED  BY <1>1, Invariance, PTL

\* Whatever the shrink tree, a reported counterexample was compared with every
\* one of its shrinks and none of them failed.
THEOREM Minimality == Spec => []LocallyMinimal
<1>1. IInv => LocallyMinimal
  BY DEF IInv
<1> QED  BY <1>1, Invariance, PTL

\* Whatever property fails and whatever became of the program, reproducing it judges
\* the one case that the recorded path leads to, or reports that there is none; with
\* the same program it ends in the same failure: neither error of reproduceProperty
\* is possible.
THEOREM ReplayFaithful == Spec => []ReplayAgrees
<1>1. IInv => ReplayAgrees
  BY DEF IInv
<1> QED  BY <1>1, Invariance, PTL

-----------------------------------------------------------------------------
(* The promise of LocalMinimum *)

\* What the engine knows, besides, while it shrinks or does not.
TreeInv ==
    /\ phase \in {"search", "failed"} => best = Nothing
    /\ phase = "shrink" => ~noshrink
    /\ (phase = "minimal" /\ noshrink) => best.path = <<>>

LEMMA TreeStarts == Init => TreeInv
BY DEF Init, TreeInv

LEMMA TreeStep == IInv /\ TreeInv /\ [Next]_vars => TreeInv'
<1> SUFFICES ASSUME IInv, TreeInv, [Next]_vars
             PROVE  TreeInv'
  OBVIOUS
<1>1. CASE CaseSucceeds \/ CaseDiscarded \/ CaseFails
  BY <1>1 DEF CaseSucceeds, CaseDiscarded, CaseFails, RunCase, TreeInv, shrinkVars
<1>2. CASE Succeed
  BY <1>2 DEF Succeed, TreeInv
<1>3. CASE StartShrinking
  <2>1. failure.shrinkable.path = <<>>
    BY <1>3 DEF StartShrinking, IInv, FailedInv, Root
  <2> QED
    BY <1>3, <2>1 DEF StartShrinking, TreeInv
<1>4. CASE AcceptShrink \/ RejectShrink
  BY <1>4 DEF AcceptShrink, RejectShrink, TryShrink, TreeInv
<1>5. CASE NoMoreShrinks
  BY <1>5 DEF NoMoreShrinks, TreeInv
<1>6. CASE RunMinimal \/ StartReproducing \/ WalkStep \/ RunReproduced
  BY <1>6 DEF RunMinimal, StartReproducing, WalkStep, RunReproduced, TreeInv, shrinkVars
<1>7. CASE UNCHANGED vars
  BY <1>7 DEF vars, shrinkVars, TreeInv
<1> QED
  BY <1>1, <1>2, <1>3, <1>4, <1>5, <1>6, <1>7 DEF Next

LEMMA TreeInvariance == Spec => [](IInv /\ TreeInv)
BY InitHolds, StepHolds, TreeStarts, TreeStep, PTL DEF Spec

\* The property under test is asked again and again, and never changes its mind.
LEMMA AnswersStand ==
    ASSUME Next
    PROVE  LM!Answers
<1>1. ASSUME NEW n, NEW d, Value(n, d)
      PROVE  Extends(outcome, outcome')
  BY <1>1 DEF Value, Learn, Extends
<1>2. ASSUME NEW n, NEW w, Shrinks(n, w)
      PROVE  Extends(width, width')
  BY <1>2 DEF Shrinks, Learn, Extends
<1>3. /\ UNCHANGED outcome => Extends(outcome, outcome')
      /\ UNCHANGED width => Extends(width, width')
  BY DEF Extends
<1>4. ASSUME NEW n, ListShrinks(n)
      PROVE  Extends(width, width')
  BY <1>2, <1>4 DEF ListShrinks
<1>5. Extends(outcome, outcome')
  <2>1. CASE CaseSucceeds \/ CaseDiscarded \/ CaseFails
    BY <1>1, <2>1 DEF CaseSucceeds, CaseDiscarded, CaseFails, RunCase
  <2>2. CASE AcceptShrink \/ RejectShrink
    BY <1>1, <2>2 DEF AcceptShrink, RejectShrink, TryShrink
  <2>3. CASE RunMinimal \/ RunReproduced
    BY <1>1, <2>3 DEF RunMinimal, RunReproduced
  <2>4. CASE Succeed \/ StartShrinking \/ NoMoreShrinks \/ StartReproducing \/ WalkStep
    BY <1>3, <2>4 DEF Succeed, StartShrinking, NoMoreShrinks, StartReproducing, WalkStep, memo
  <2> QED
    BY <2>1, <2>2, <2>3, <2>4 DEF Next
<1>6. Extends(width, width')
  <2>1. CASE AcceptShrink
    BY <1>4, <2>1 DEF AcceptShrink
  <2>2. CASE StartShrinking
    BY <1>3, <1>4, <2>2 DEF StartShrinking
  <2>3. CASE WalkStep
    BY <1>2, <2>3 DEF WalkStep
  <2>4. CASE \/ CaseSucceeds \/ CaseDiscarded \/ CaseFails \/ Succeed \/ RejectShrink
             \/ NoMoreShrinks \/ RunMinimal \/ StartReproducing \/ RunReproduced
    BY <1>3, <2>4 DEF CaseSucceeds, CaseDiscarded, CaseFails, RunCase, Succeed, RejectShrink,
       NoMoreShrinks, RunMinimal, StartReproducing, RunReproduced, memo
  <2> QED
    BY <2>1, <2>2, <2>3, <2>4 DEF Next
<1> QED
  BY <1>5, <1>6 DEF LM!Answers, LM!Keeps, Extends

\* The search, the end of the shrinks and the later process leave the example.
LEMMA OthersAsk ==
    ASSUME IInv, TreeInv,
           \/ CaseSucceeds \/ CaseDiscarded \/ CaseFails \/ Succeed \/ RejectShrink
           \/ NoMoreShrinks \/ StartReproducing \/ WalkStep \/ RunReproduced
    PROVE  LM!Ask
<1>1. phase \in {"search", "failed", "shrink", "minimal"} => ~Failed
  BY DEF IInv, ResultInv, Failed
<1>2. CASE CaseSucceeds \/ CaseFails
  BY <1>1, <1>2 DEF CaseSucceeds, CaseFails, RunCase, LM!Ask, Failed
<1>3. CASE CaseDiscarded \/ Succeed
  BY <1>1, <1>3 DEF CaseDiscarded, Succeed, RunCase, LM!Ask, Failed, TreeInv, shrinkVars
<1>4. CASE RejectShrink \/ NoMoreShrinks
  BY <1>1, <1>4 DEF RejectShrink, TryShrink, NoMoreShrinks, LM!Ask, Failed, shrinkVars
<1>5. CASE StartReproducing
  BY <1>5 DEF StartReproducing, LM!Ask, Failed, shrinkVars
<1>6. CASE WalkStep
  <2>1. phase = "walk" /\ phase' \in {"walk", "done"}
    BY <1>6 DEF WalkStep
  <2> QED
    BY <1>6, <2>1 DEF WalkStep, LM!Ask, Failed, shrinkVars
<1>7. CASE RunReproduced
  BY <1>7 DEF RunReproduced, LM!Ask, Failed, shrinkVars
<1> QED
  BY <1>2, <1>3, <1>4, <1>5, <1>6, <1>7

\* The case the search failed on becomes the example.
LEMMA StartFinds ==
    ASSUME IInv, TreeInv, StartShrinking
    PROVE  LM!Find
<1>1. /\ phase = "failed" /\ phase' \in {"minimal", "shrink"} /\ best' = failure.shrinkable
      /\ UNCHANGED <<outcome, noshrink, result>>
  BY DEF StartShrinking
<1>2. /\ failure.shrinkable = Root("original", failure.random, failure.size)
      /\ failure.random \in Nat /\ failure.size \in Nat /\ Fails(failure.shrinkable)
  BY <1>1 DEF IInv, FailedInv, Failure
<1>3. best' \in Node /\ best'.path = <<>>
  BY <1>1, <1>2, NodeTypes DEF Builds, Root
<1>4. best' # Nothing
  BY <1>3, ValuesAssumption
<1> QED
  BY <1>1, <1>2, <1>3, <1>4 DEF LM!Find, LM!IsFailing, Fails, FailsIn, Failed

\* An accepted shrink is one of the shrinks of the example, and fails.
LEMMA AcceptImproves ==
    ASSUME IInv, TreeInv, AcceptShrink
    PROVE  LM!Improve
<1>1. PICK d \in Description :
        TryShrink(d) /\ d.type = "Failure" /\ best' = Child(shrinks.of, shrinks.next)
  BY DEF AcceptShrink
<1>2. /\ phase = "shrink" /\ shrinks.next < width[shrinks.of]
      /\ Value(Child(shrinks.of, shrinks.next), d)
      /\ UNCHANGED <<noshrink, phase, result>>
  BY <1>1 DEF TryShrink
<1>3. /\ shrinks.of = best /\ shrinks.next \in Nat /\ best \in Node /\ ~noshrink /\ ~Failed
      /\ width[best] \in Nat
  BY <1>2 DEF IInv, TypeOK, ShrinkInv, TreeInv, ResultInv, Failed, Remaining
<1>4. best' \in LM!ShrinksOf(best)
  <2>1. shrinks.next \in 0..(width[best] - 1)
    BY <1>2, <1>3
  <2> QED
    BY <1>1, <1>3, <2>1 DEF LM!ShrinksOf, Child
<1>5. FailsIn(outcome', best')
  BY <1>1, <1>2 DEF Value, Learn, FailsIn
<1>6. best # Nothing
  BY <1>3, ValuesAssumption
<1> QED
  BY <1>2, <1>3, <1>4, <1>5, <1>6 DEF LM!Improve, LM!IsFailing, FailsIn, Failed

\* When the result is made, every shrink of the example has been ruled out.
LEMMA MinimalDeclares ==
    ASSUME IInv, TreeInv, RunMinimal
    PROVE  LM!Declare
<1>1. /\ phase = "minimal" /\ phase' = "finished" /\ ~Failed
      /\ UNCHANGED <<best, noshrink, width>>
  BY DEF RunMinimal, IInv, ResultInv, Failed, shrinkVars
<1>2. Failed'
  BY MinimalIsResult, ValuesAssumption DEF Failed
<1>3. best \in Node /\ best # Nothing
  BY <1>1, MinimalIsNode, ValuesAssumption
<1>4. ASSUME ~noshrink, NEW n \in LM!ShrinksOf(best)
      PROVE  n \in DOMAIN outcome /\ ~LM!IsFailing(outcome, n)
  <2>1. PICK k \in 0..(width[best] - 1) : n = Child(best, k)
    BY <1>4 DEF LM!ShrinksOf, Child
  <2>2. RuledOut(outcome, best, width[best])
    BY <1>1, <1>4 DEF IInv, ShrinkInv
  <2> QED
    BY <2>1, <2>2 DEF RuledOut, FailsIn, LM!IsFailing
<1>5. noshrink => best.path = <<>>
  BY <1>1 DEF TreeInv
<1> QED
  BY <1>1, <1>2, <1>3, <1>4, <1>5 DEF LM!Declare, Failed

\* Whatever property fails and however its shrink tree is built, the engine's
\* search, descent and verdict are steps of LocalMinimum: the counterexample
\* only ever moves to a failing shrink of itself, and is declared only when none
\* is left.
THEOREM ImplementsLocalMinimum == Spec => DescendsToLocalMinimum
<1>1. Init => LM!Init
  BY DEF Init, LM!Init, Failed
<1>2. ASSUME IInv, TreeInv, [Next]_vars
      PROVE  [LM!Next]_(LM!lmVars)
  <2>1. ASSUME UNCHANGED vars
        PROVE  UNCHANGED LM!lmVars
    BY <2>1 DEF vars, memo, shrinkVars, LM!lmVars, Failed
  <2>2. ASSUME Next
        PROVE  LM!Next
    <3>1. LM!Answers
      BY <2>2, AnswersStand
    <3>2. LM!Find \/ LM!Improve \/ LM!Declare \/ LM!Ask
      BY <1>2, <2>2, OthersAsk, StartFinds, AcceptImproves, MinimalDeclares DEF Next
    <3> QED
      BY <3>1, <3>2 DEF LM!Next
  <2> QED
    BY <1>2, <2>1, <2>2
<1> QED
  BY TreeInvariance, <1>1, <1>2, PTL DEF Spec, DescendsToLocalMinimum, LM!Spec

-----------------------------------------------------------------------------
(* Counting the cases *)

Collected(s, t)   == {k \in DOMAIN s : s[k] = t}
TaggedCases(t)    == {n \in Cases("Success") : outcome[n].tags = t}

\* The counters of searchProperty count the cases that ran, and the tags it keeps
\* are those of the successful ones.
CountInv ==
    /\ IsFiniteSet(DOMAIN outcome)
    /\ Cardinality(Cases("Success")) = numSuccess
    /\ Cardinality(Cases("Discard")) = numDiscarded
    /\ \A t \in TagVectors \ {<<>>} :
         Cardinality(Collected(tags, t)) = Cardinality(TaggedCases(t))

\* What the counters say in each phase, and that the search never meets a case
\* twice: each comes from a split of its own.
VerdictInv ==
    /\ phase = "search" =>
         /\ \A n \in DOMAIN outcome : n.random < splits
         /\ Cases("Failure") = {}
         /\ numDiscarded <= maxDiscard /\ numSuccess <= MaxSuccess
    /\ phase \in {"failed", "shrink", "minimal"} => Cases("Failure") = {failure.shrinkable}
    /\ result # Nothing =>
         /\ result.numSuccess = numSuccess
         /\ result.type = "Success" =>
              numSuccess = MaxSuccess /\ numDiscarded <= maxDiscard /\ Cases("Failure") = {}
         /\ result.type = "GaveUp" =>
              numSuccess < MaxSuccess /\ numDiscarded = maxDiscard + 1
         /\ result.type = "Failure" =>
              Cases("Failure") = {Root("original", result.reproduce.random,
                                       result.reproduce.size)}

\* Nothing about the cases of the search changes.
SameCases ==
    /\ IsFiniteSet(DOMAIN outcome) => IsFiniteSet((DOMAIN outcome)')
    /\ \A type \in Types : Cases(type)' = Cases(type)
    /\ \A t \in TagVectors : TaggedCases(t)' = TaggedCases(t)

\* A round of the search adds the case it ran, which is a new one, to those that
\* ended as it did.
LEMMA CaseAdded ==
    ASSUME IInv, VerdictInv, NEW d \in Description, RunCase(d)
    PROVE  /\ IsFiniteSet(DOMAIN outcome) => IsFiniteSet((DOMAIN outcome)')
           /\ NextCase \notin DOMAIN outcome
           /\ Cases(d.type)' = Cases(d.type) \cup {NextCase}
           /\ \A type \in Types : type # d.type => Cases(type)' = Cases(type)
           /\ \A t \in TagVectors : d.type # "Success" \/ t # d.tags =>
                TaggedCases(t)' = TaggedCases(t)
           /\ d.type = "Success" =>
                TaggedCases(d.tags)' = TaggedCases(d.tags) \cup {NextCase}
           /\ \A n \in DOMAIN outcome' : n.random < splits'
<1>1. /\ phase = "search" /\ numSuccess < MaxSuccess /\ Value(NextCase, d)
      /\ splits' = splits + 1
  BY DEF RunCase
<1>2. /\ NextCase \in Node /\ NextCase.random = splits /\ NextCase.build = "original"
      /\ NextCase.path = <<>> /\ splits \in Nat /\ TypeOK
  BY <1>1, NextCaseType DEF IInv, Root
<1>3. \A n \in DOMAIN outcome : n.random < splits /\ n \in Node
  BY <1>1 DEF VerdictInv, IInv, TypeOK
<1>4. NextCase \notin DOMAIN outcome
  BY <1>2, <1>3
<1>5. /\ DOMAIN outcome' = DOMAIN outcome \cup {NextCase}
      /\ \A m \in DOMAIN outcome : outcome'[m] = outcome[m]
      /\ outcome'[NextCase] = d
  BY <1>1, <1>2, ValueLearns
<1> HIDE DEF NextCase
<1>6. IsFiniteSet(DOMAIN outcome) => IsFiniteSet(DOMAIN outcome')
  BY <1>5, FS_AddElement
<1>7. Cases(d.type)' = Cases(d.type) \cup {NextCase}
  BY <1>2, <1>4, <1>5 DEF Cases
<1>8. \A type \in Types : type # d.type => Cases(type)' = Cases(type)
  BY <1>2, <1>4, <1>5 DEF Cases
<1>9. \A n \in Cases("Success") : n \in DOMAIN outcome /\ outcome'[n] = outcome[n]
  BY <1>5 DEF Cases
<1>10. CASE d.type = "Success"
  <2>1. /\ Cases("Success")' = Cases("Success") \cup {NextCase}
        /\ NextCase \notin Cases("Success")
    BY <1>4, <1>7, <1>10 DEF Cases
  <2>2. ASSUME NEW t \in TagVectors, t # d.tags
        PROVE  TaggedCases(t)' = TaggedCases(t)
    BY <1>5, <1>9, <2>1, <2>2 DEF TaggedCases
  <2>3. TaggedCases(d.tags)' = TaggedCases(d.tags) \cup {NextCase}
    BY <1>5, <1>9, <2>1 DEF TaggedCases
  <2>4. \A n \in DOMAIN outcome' : n.random < splits'
    BY <1>1, <1>2, <1>3, <1>5 DEF Node
  <2> QED
    BY <1>4, <1>6, <1>7, <1>8, <1>10, <2>2, <2>3, <2>4
<1>11. CASE d.type # "Success"
  <2>1. Cases("Success")' = Cases("Success")
    BY <1>8, <1>11 DEF Types
  <2>2. ASSUME NEW t \in TagVectors
        PROVE  TaggedCases(t)' = TaggedCases(t)
    BY <1>9, <2>1 DEF TaggedCases
  <2>3. \A n \in DOMAIN outcome' : n.random < splits'
    BY <1>1, <1>2, <1>3, <1>5 DEF Node
  <2> QED
    BY <1>4, <1>6, <1>7, <1>8, <1>11, <2>2, <2>3
<1> QED
  BY <1>10, <1>11

\* A case that was known before, or is not one of the search's, changes no count.
LEMMA CasesKept ==
    ASSUME TypeOK, NEW n \in Node, NEW d \in Description, Value(n, d),
           n \in DOMAIN outcome \/ n.path # <<>> \/ n.build # "original"
    PROVE  SameCases
<1>1. /\ DOMAIN outcome' = DOMAIN outcome \cup {n}
      /\ \A m \in DOMAIN outcome : outcome'[m] = outcome[m]
  BY ValueLearns
<1>2. IsFiniteSet(DOMAIN outcome) => IsFiniteSet(DOMAIN outcome')
  BY <1>1, FS_AddElement
<1>3. \A type \in Types : Cases(type)' = Cases(type)
  BY <1>1 DEF Cases
<1>4. ASSUME NEW t \in TagVectors
      PROVE  TaggedCases(t)' = TaggedCases(t)
  <2>1. Cases("Success")' = Cases("Success")
    BY <1>3 DEF Types
  <2>2. \A m \in Cases("Success") : outcome'[m] = outcome[m]
    BY <1>1 DEF Cases
  <2> QED
    BY <2>1, <2>2 DEF TaggedCases
<1> QED
  BY <1>2, <1>3, <1>4 DEF SameCases

LEMMA NothingLearned ==
    ASSUME UNCHANGED outcome
    PROVE  SameCases
<1>1. \A type \in Types : Cases(type)' = Cases(type)
  BY DEF Cases
<1>2. \A t \in TagVectors : TaggedCases(t)' = TaggedCases(t)
  BY DEF Cases, TaggedCases
<1> QED
  BY <1>1, <1>2 DEF SameCases

\* Shrinking, the last run and the later process run no case of the search that
\* has not run before.
LEMMA LaterCases ==
    ASSUME IInv,
           \/ Succeed \/ StartShrinking \/ AcceptShrink \/ RejectShrink \/ NoMoreShrinks
           \/ RunMinimal \/ StartReproducing \/ WalkStep \/ RunReproduced
    PROVE  SameCases
<1>1. CASE Succeed \/ StartShrinking \/ NoMoreShrinks \/ StartReproducing \/ WalkStep
  BY <1>1, NothingLearned
  DEF Succeed, StartShrinking, NoMoreShrinks, StartReproducing, WalkStep, memo
<1>2. CASE AcceptShrink \/ RejectShrink
  <2>1. PICK d \in Description : TryShrink(d)
    BY <1>2 DEF AcceptShrink, RejectShrink
  <2>2. shrinks.of \in Node /\ shrinks.next \in Nat
    BY <2>1 DEF TryShrink, IInv, ShrinkInv, Remaining
  <2> DEFINE n == Child(shrinks.of, shrinks.next)
  <2>3. n \in Node /\ n.path # <<>>
    <3>1. n \in Node /\ n.path = Append(shrinks.of.path, shrinks.next)
      BY <2>2, NodeTypes DEF Child, Node
    <3>2. shrinks.of.path \in Seq(Nat)
      BY <2>2 DEF Node
    <3>3. Append(shrinks.of.path, shrinks.next) # <<>>
      BY <2>2, <3>2, AppendProperties
    <3> QED
      BY <3>1, <3>3
  <2>4. Value(n, d)
    BY <2>1 DEF TryShrink
  <2> HIDE DEF n
  <2> QED
    BY <2>3, <2>4, CasesKept DEF IInv
<1>3. CASE RunMinimal
  <2>1. phase = "minimal" /\ \E d \in Description : Value(best, d)
    BY <1>3 DEF RunMinimal
  <2>2. PICK d \in Description : Value(best, d)
    BY <2>1
  <2>3. best \in Node /\ best \in DOMAIN outcome
    <3>1. path \in Seq(Nat) /\ best \in Node
          /\ Descent(outcome, width, failure.shrinkable, path, best)
      BY <2>1, MinimalIsNode
    <3>2. Len(path) \in 0..Len(path)
      BY <3>1, LenProperties
    <3> QED
      BY <3>1, <3>2 DEF Descent, Inside, FailsIn
  <2> QED
    BY <2>2, <2>3, CasesKept DEF IInv
<1>4. CASE RunReproduced
  <2>1. phase = "walk" /\ \E d \in Description : Value(current, d)
    BY <1>4 DEF RunReproduced
  <2>2. PICK d \in Description : Value(current, d)
    BY <2>1
  <2>3. current \in Node /\ (current.build = "original" => current \in DOMAIN outcome)
    BY <2>1, WalkPosition DEF Fails, FailsIn
  <2> QED
    BY <2>2, <2>3, CasesKept DEF IInv
<1> QED
  BY <1>1, <1>2, <1>3, <1>4

\* One more tag vector.
LEMMA CollectedNext ==
    ASSUME NEW s \in Seq(TagVectors), NEW v \in TagVectors, NEW t
    PROVE  /\ Cardinality(Collected(s, t)) \in Nat
           /\ v # t => Collected(Append(s, v), t) = Collected(s, t)
           /\ v = t =>
                Cardinality(Collected(Append(s, v), t)) = Cardinality(Collected(s, t)) + 1
<1> DEFINE r == Append(s, v)
           n == Len(s)
           S == Collected(s, t)
           R == Collected(r, t)
<1>1. /\ n \in Nat /\ DOMAIN s = 1..n /\ DOMAIN r = 1..(n + 1)
      /\ \A k \in 1..n : r[k] = s[k]
      /\ r[n + 1] = v
  BY LenProperties, AppendProperties
<1> HIDE DEF r, n
<1>2. S \in SUBSET (1..n)
  BY <1>1 DEF Collected
<1>3. IsFiniteSet(S) /\ Cardinality(S) \in Nat
  <2>1. IsFiniteSet(1..n)
    BY <1>1, FS_Interval
  <2>2. IsFiniteSet(S)
    BY <1>2, <2>1, FS_Subset
  <2> QED
    BY <2>2, FS_CardinalityType
<1>4. n + 1 \notin S
  BY <1>1, <1>2
<1>5. v # t => R = S
  BY <1>1 DEF Collected
<1>6. v = t => R = S \cup {n + 1}
  BY <1>1 DEF Collected
<1> HIDE DEF R, S
<1>7. Cardinality(S \cup {n + 1}) = Cardinality(S) + 1
  BY <1>3, <1>4, FS_AddElement
<1>8. v = t => Cardinality(R) = Cardinality(S) + 1
  BY <1>6, <1>7
<1> QED
  BY <1>3, <1>5, <1>8 DEF r, R, S

LEMMA CountsStart == Init => CountInv /\ VerdictInv
<1> SUFFICES ASSUME Init
             PROVE  CountInv /\ VerdictInv
  OBVIOUS
<1>1. /\ outcome = << >> /\ tags = <<>> /\ phase = "search" /\ result = Nothing
      /\ numSuccess = 0 /\ numDiscarded = 0
  BY DEF Init
<1>2. DOMAIN outcome = {} /\ DOMAIN tags = {}
  BY <1>1
<1>3. /\ \A type : Cases(type) = {}
      /\ \A t : TaggedCases(t) = {} /\ Collected(tags, t) = {}
  BY <1>2 DEF Cases, TaggedCases, Collected
<1>4. CountInv
  BY <1>1, <1>2, <1>3, FS_EmptySet DEF CountInv
<1>5. maxDiscard \in Nat /\ MaxSuccess \in Nat
  BY ParamsAssumption DEF maxDiscard
<1>6. VerdictInv
  BY <1>1, <1>2, <1>3, <1>5 DEF VerdictInv
<1> QED
  BY <1>4, <1>6

LEMMA SuccessCounts ==
    ASSUME IInv, CountInv, VerdictInv, CaseSucceeds
    PROVE  CountInv'
<1>1. PICK d \in Description :
        /\ RunCase(d) /\ d.type = "Success"
        /\ numSuccess' = numSuccess + 1
        /\ tags' = IF d.tags = <<>> THEN tags ELSE Append(tags, d.tags)
        /\ UNCHANGED numDiscarded
  BY DEF CaseSucceeds
<1>2. /\ IsFiniteSet(DOMAIN outcome) => IsFiniteSet((DOMAIN outcome)')
      /\ NextCase \notin DOMAIN outcome
      /\ Cases("Success")' = Cases("Success") \cup {NextCase}
      /\ Cases("Discard")' = Cases("Discard")
      /\ \A t \in TagVectors : t # d.tags => TaggedCases(t)' = TaggedCases(t)
      /\ TaggedCases(d.tags)' = TaggedCases(d.tags) \cup {NextCase}
  BY <1>1, CaseAdded DEF Types
<1> HIDE DEF NextCase
<1>3. /\ Cases("Success") \in SUBSET DOMAIN outcome
      /\ \A t : TaggedCases(t) \in SUBSET DOMAIN outcome
  BY DEF Cases, TaggedCases
<1>4. IsFiniteSet(Cases("Success")) /\ \A t : IsFiniteSet(TaggedCases(t))
  BY <1>3, FS_Subset DEF CountInv
<1>5. Cardinality(Cases("Success") \cup {NextCase}) = numSuccess + 1
  <2>1. NextCase \notin Cases("Success")
    BY <1>2, <1>3
  <2> QED
    BY <1>4, <2>1, FS_AddElement DEF CountInv
<1>6. ASSUME NEW t \in TagVectors \ {<<>>}
      PROVE  Cardinality(Collected(tags', t)) = Cardinality(TaggedCases(t)')
  <2>1. tags \in Seq(TagVectors) /\ d.tags \in TagVectors
    BY DEF IInv, TypeOK, Description
  <2>2. Cardinality(Collected(tags, t)) = Cardinality(TaggedCases(t))
    BY DEF CountInv
  <2>3. CASE t # d.tags
    <3>1. TaggedCases(t)' = TaggedCases(t)
      BY <1>2, <2>3
    <3>2. Collected(tags', t) = Collected(tags, t)
      BY <1>1, <2>1, <2>3, CollectedNext
    <3> QED
      BY <2>2, <3>1, <3>2
  <2>4. CASE t = d.tags
    <3>1. tags' = Append(tags, d.tags)
      BY <1>1, <2>4
    <3>2. Cardinality(Collected(tags', t)) = Cardinality(Collected(tags, t)) + 1
      BY <2>1, <2>4, <3>1, CollectedNext
    <3>3. NextCase \notin TaggedCases(t)
      BY <1>2, <1>3
    <3>4. Cardinality(TaggedCases(t) \cup {NextCase}) = Cardinality(TaggedCases(t)) + 1
      BY <1>4, <3>3, FS_AddElement
    <3>5. TaggedCases(t)' = TaggedCases(t) \cup {NextCase}
      BY Zenon, <1>2, <2>4
    <3> QED
      BY <2>2, <3>2, <3>4, <3>5
  <2> QED
    BY <2>3, <2>4
<1>7. Cardinality(Cases("Discard")') = numDiscarded'
  BY <1>1, <1>2 DEF CountInv
<1>8. Cardinality(Cases("Success")') = numSuccess'
  BY <1>1, <1>2, <1>5
<1> QED
  BY <1>2, <1>6, <1>7, <1>8 DEF CountInv

LEMMA DiscardCounts ==
    ASSUME IInv, CountInv, VerdictInv, CaseDiscarded
    PROVE  CountInv'
<1>1. PICK d \in Description :
        /\ RunCase(d) /\ d.type = "Discard"
        /\ numDiscarded' = numDiscarded + 1
        /\ UNCHANGED <<numSuccess, tags>>
  BY DEF CaseDiscarded
<1>2. /\ IsFiniteSet(DOMAIN outcome) => IsFiniteSet((DOMAIN outcome)')
      /\ NextCase \notin DOMAIN outcome
      /\ Cases("Discard")' = Cases("Discard") \cup {NextCase}
      /\ Cases("Success")' = Cases("Success")
      /\ \A t \in TagVectors : TaggedCases(t)' = TaggedCases(t)
  BY <1>1, CaseAdded DEF Types
<1> HIDE DEF NextCase
<1>3. Cases("Discard") \in SUBSET DOMAIN outcome
  BY DEF Cases
<1>4. IsFiniteSet(Cases("Discard")) /\ NextCase \notin Cases("Discard")
  BY <1>2, <1>3, FS_Subset DEF CountInv
<1>5. Cardinality(Cases("Discard") \cup {NextCase}) = numDiscarded + 1
  BY <1>4, FS_AddElement DEF CountInv
<1>6. Cardinality(Cases("Discard")') = numDiscarded'
  BY <1>1, <1>2, <1>5
<1>7. Cardinality(Cases("Success")') = numSuccess'
  BY <1>1, <1>2 DEF CountInv
<1>8. ASSUME NEW t \in TagVectors \ {<<>>}
      PROVE  Cardinality(Collected(tags', t)) = Cardinality(TaggedCases(t)')
  BY <1>1, <1>2 DEF CountInv
<1> QED
  BY <1>2, <1>6, <1>7, <1>8 DEF CountInv

\* A failing case is in neither count.
LEMMA OtherCounts ==
    ASSUME CountInv, IsFiniteSet(DOMAIN outcome) => IsFiniteSet((DOMAIN outcome)'),
           Cases("Success")' = Cases("Success"), Cases("Discard")' = Cases("Discard"),
           \A t \in TagVectors : TaggedCases(t)' = TaggedCases(t),
           UNCHANGED <<numSuccess, numDiscarded, tags>>
    PROVE  CountInv'
<1>1. ASSUME NEW t \in TagVectors \ {<<>>}
      PROVE  Cardinality(Collected(tags', t)) = Cardinality(TaggedCases(t)')
  BY DEF CountInv
<1>2. /\ Cardinality(Cases("Success")') = numSuccess'
      /\ Cardinality(Cases("Discard")') = numDiscarded'
  BY DEF CountInv
<1> QED
  BY <1>1, <1>2 DEF CountInv

LEMMA CountsKeep ==
    ASSUME IInv, CountInv, VerdictInv, [Next]_vars
    PROVE  CountInv'
<1>1. CASE CaseSucceeds
  BY <1>1, SuccessCounts
<1>2. CASE CaseDiscarded
  BY <1>2, DiscardCounts
<1>3. CASE CaseFails
  <2>1. PICK d \in Description :
          /\ RunCase(d) /\ d.type = "Failure"
          /\ UNCHANGED <<numSuccess, numDiscarded, tags>>
    BY <1>3 DEF CaseFails
  <2>2. /\ IsFiniteSet(DOMAIN outcome) => IsFiniteSet((DOMAIN outcome)')
        /\ Cases("Success")' = Cases("Success") /\ Cases("Discard")' = Cases("Discard")
        /\ \A t \in TagVectors : TaggedCases(t)' = TaggedCases(t)
    BY <2>1, CaseAdded DEF Types
  <2> QED
    BY <2>1, <2>2, OtherCounts
<1>4. CASE \/ Succeed \/ StartShrinking \/ AcceptShrink \/ RejectShrink \/ NoMoreShrinks
           \/ RunMinimal \/ StartReproducing \/ WalkStep \/ RunReproduced
           \/ UNCHANGED vars
  <2>1. SameCases
    BY <1>4, LaterCases, NothingLearned DEF vars, memo
  <2>2. UNCHANGED <<numSuccess, numDiscarded, tags>>
    BY <1>4 DEF Succeed, StartShrinking, AcceptShrink, RejectShrink, TryShrink, NoMoreShrinks,
       RunMinimal, StartReproducing, WalkStep, RunReproduced, vars, searchVars
  <2> QED
    BY <2>1, <2>2, OtherCounts DEF SameCases, Types
<1> QED
  BY <1>1, <1>2, <1>3, <1>4 DEF Next

LEMMA VerdictKeeps ==
    ASSUME IInv, VerdictInv, [Next]_vars
    PROVE  VerdictInv'
<1>1. /\ maxDiscard \in Nat /\ MaxSuccess \in Nat
      /\ numSuccess \in Nat /\ numDiscarded \in Nat
      /\ phase \in {"search", "failed", "shrink", "minimal"} => result = Nothing
  BY ParamsAssumption DEF maxDiscard, IInv, TypeOK, ResultInv
<1> HIDE DEF maxDiscard
<1>2. CASE CaseSucceeds
  <2>1. PICK d \in Description :
          /\ RunCase(d) /\ d.type = "Success" /\ numSuccess' = numSuccess + 1
          /\ UNCHANGED <<numDiscarded, phase, result>>
    BY <1>2 DEF CaseSucceeds
  <2>2. /\ Cases("Failure")' = Cases("Failure")
        /\ \A n \in DOMAIN outcome' : n.random < splits'
    BY <2>1, CaseAdded DEF Types
  <2>3. phase = "search" /\ numSuccess < MaxSuccess
    BY <2>1 DEF RunCase
  <2> QED
    BY <1>1, <2>1, <2>2, <2>3 DEF VerdictInv, maxDiscard
<1>3. CASE CaseDiscarded
  <2>1. PICK d \in Description :
          /\ RunCase(d) /\ d.type = "Discard" /\ numDiscarded' = numDiscarded + 1
          /\ numSuccess' = numSuccess
          /\ \/ /\ numDiscarded + 1 > maxDiscard /\ phase' = "finished"
                /\ result' = [type |-> "GaveUp", numSuccess |-> numSuccess,
                              reproduce |-> Nothing, counterExample |-> Nothing]
             \/ ~(numDiscarded + 1 > maxDiscard) /\ UNCHANGED <<phase, result>>
    BY <1>3 DEF CaseDiscarded
  <2>2. /\ Cases("Failure")' = Cases("Failure")
        /\ \A n \in DOMAIN outcome' : n.random < splits'
    BY <2>1, CaseAdded DEF Types
  <2>3. phase = "search" /\ numSuccess < MaxSuccess /\ numDiscarded <= maxDiscard
    BY <2>1 DEF RunCase, VerdictInv
  <2>4. CASE numDiscarded + 1 > maxDiscard
    <3>1. numDiscarded + 1 = maxDiscard + 1
      BY <1>1, <2>3, <2>4
    <3> QED
      BY <1>1, <2>1, <2>3, <2>4, <3>1 DEF VerdictInv, maxDiscard
  <2>5. CASE ~(numDiscarded + 1 > maxDiscard)
    BY <1>1, <2>1, <2>2, <2>3, <2>5 DEF VerdictInv, maxDiscard
  <2> QED
    BY <2>4, <2>5
<1>4. CASE CaseFails
  <2>1. PICK d \in Description :
          /\ RunCase(d) /\ d.type = "Failure"
          /\ failure' = [shrinkable |-> NextCase, size |-> NextCase.size, random |-> splits]
          /\ phase' = "failed" /\ UNCHANGED <<numSuccess, numDiscarded, result>>
    BY <1>4 DEF CaseFails
  <2>2. phase = "search" /\ result = Nothing /\ Cases("Failure") = {}
    BY <1>1, <2>1 DEF RunCase, VerdictInv
  <2>3. Cases("Failure")' = {NextCase}
    BY <2>1, <2>2, CaseAdded
  <2> QED
    BY <2>1, <2>2, <2>3 DEF VerdictInv
<1>5. CASE \/ Succeed \/ StartShrinking \/ AcceptShrink \/ RejectShrink \/ NoMoreShrinks
           \/ RunMinimal \/ StartReproducing \/ WalkStep \/ RunReproduced
           \/ UNCHANGED vars
  <2>1. Cases("Failure")' = Cases("Failure")
    BY <1>5, LaterCases, NothingLearned DEF vars, memo, SameCases, Types
  <2>2. UNCHANGED <<numSuccess, numDiscarded, failure, splits>>
    BY <1>5 DEF Succeed, StartShrinking, AcceptShrink, RejectShrink, TryShrink, NoMoreShrinks,
       RunMinimal, StartReproducing, WalkStep, RunReproduced, vars, searchVars
  <2>3. CASE Succeed
    BY <1>1, <2>1, <2>2, <2>3 DEF Succeed, VerdictInv, maxDiscard
  <2>4. CASE StartShrinking \/ AcceptShrink \/ RejectShrink \/ NoMoreShrinks
    BY <1>1, <2>1, <2>2, <2>4
    DEF StartShrinking, AcceptShrink, RejectShrink, TryShrink, NoMoreShrinks, VerdictInv
  <2>5. CASE RunMinimal
    <3>1. /\ phase = "minimal" /\ phase' = "finished"
          /\ result' = [type |-> "Failure", numSuccess |-> numSuccess,
                        reproduce |-> [random |-> failure.random, size |-> failure.size,
                                       shrinkPath |-> path],
                        counterExample |-> best]
      BY <2>5 DEF RunMinimal
    <3>2. failure.shrinkable = Root("original", failure.random, failure.size)
      BY <3>1, MinimalIsNode
    <3> QED
      BY <2>1, <2>2, <3>1, <3>2 DEF VerdictInv
  <2>6. CASE StartReproducing \/ WalkStep \/ RunReproduced
    BY <2>1, <2>2, <2>6 DEF StartReproducing, WalkStep, RunReproduced, VerdictInv
  <2>7. CASE UNCHANGED vars
    BY <2>1, <2>2, <2>7 DEF vars, memo, VerdictInv, maxDiscard
  <2> QED
    BY <1>5, <2>3, <2>4, <2>5, <2>6, <2>7
<1> QED
  BY <1>2, <1>3, <1>4, <1>5 DEF Next

LEMMA CountInvariance == Spec => [](IInv /\ CountInv /\ VerdictInv)
<1>1. IInv /\ CountInv /\ VerdictInv /\ [Next]_vars => IInv' /\ CountInv' /\ VerdictInv'
  BY StepHolds, CountsKeep, VerdictKeeps
<1> QED
  BY InitHolds, CountsStart, <1>1, PTL DEF Spec

\* For any limits and whatever the cases do, the verdict follows from the cases
\* that ran, and the reported distribution counts the tagged successful ones.
THEOREM VerdictIsEarned == Spec => []VerdictMatchesCases
<1>1. IInv /\ CountInv /\ VerdictInv => VerdictMatchesCases
  <2> SUFFICES ASSUME IInv, CountInv, VerdictInv, result # Nothing
               PROVE  VerdictMatchesCases
    BY DEF VerdictMatchesCases
  <2>1. /\ result.numSuccess = numSuccess
        /\ Cardinality(Cases("Success")) = numSuccess
        /\ Cardinality(Cases("Discard")) = numDiscarded
    BY DEF CountInv, VerdictInv
  <2>2. ASSUME NEW t \in TagVectors \ {<<>>}
        PROVE  distribution[t] =
                 Cardinality({n \in Cases("Success") : outcome[n].tags = t})
    BY DEF distribution, CountInv, Collected, TaggedCases
  <2>3. result.type = "Success" =>
          /\ numSuccess = MaxSuccess /\ numDiscarded <= maxDiscard /\ Cases("Failure") = {}
    BY DEF VerdictInv
  <2>4. result.type = "GaveUp" => numSuccess < MaxSuccess /\ numDiscarded = maxDiscard + 1
    BY DEF VerdictInv
  <2>5. result.type = "Failure" =>
          Cases("Failure") = {Root("original", result.reproduce.random,
                                   result.reproduce.size)}
    BY DEF VerdictInv
  <2> QED
    BY <2>1, <2>2, <2>3, <2>4, <2>5 DEF VerdictMatchesCases
<1> QED
  BY <1>1, CountInvariance, PTL

-----------------------------------------------------------------------------
(* The sizes that are tried *)

Grown == \E n \in Cases("Discard") : n.size > 0

\* Until a size above zero is discarded, no more than ten cases in a row are.
GrowthInv ==
    \/ Grown
    \/ recentDiscards <= 10 /\ numDiscarded <= 10 * numSuccess + recentDiscards

\* While few cases are discarded, the sizes are those of the plan.
Planned(m) == {SizeFor(k) : k \in 0..(m - 1)}

SizeInv ==
    /\ recentDiscards <= numDiscarded
    /\ numDiscarded < 10 => {n.size : n \in Cases("Success")} = Planned(numSuccess)

LEMMA SizesStart == Init => GrowthInv /\ SizeInv
<1> SUFFICES ASSUME Init
             PROVE  GrowthInv /\ SizeInv
  OBVIOUS
<1>1. outcome = << >> /\ numSuccess = 0 /\ numDiscarded = 0 /\ recentDiscards = 0
  BY DEF Init
<1>2. Cases("Success") = {}
  BY <1>1 DEF Cases
<1>3. Planned(numSuccess) = {}
  BY <1>1 DEF Planned
<1> QED
  BY <1>1, <1>2, <1>3 DEF GrowthInv, SizeInv

\* Ten discards in a row make the next case larger.
LEMMA NextSize ==
    ASSUME TypeOK, numSuccess < MaxSuccess
    PROVE  /\ recentDiscards >= 10 => NextCase.size > 0
           /\ recentDiscards < 10 => NextCase.size = SizeFor(numSuccess)
<1>1. /\ SizeFor(numSuccess) \in Nat /\ recentDiscards \in Nat
      /\ NextCase.size = SizeFor(numSuccess) + (recentDiscards \div 10)
  BY SizeForType DEF TypeOK, NextCase, Root
<1> HIDE DEF NextCase, SizeFor
<1>2. recentDiscards >= 10 => recentDiscards \div 10 >= 1
  BY <1>1
<1>3. recentDiscards < 10 => recentDiscards \div 10 = 0
  BY <1>1
<1> QED
  BY <1>1, <1>2, <1>3

LEMMA GrowthKeeps ==
    ASSUME IInv, VerdictInv, GrowthInv, [Next]_vars
    PROVE  GrowthInv'
<1>1. recentDiscards \in Nat /\ numDiscarded \in Nat /\ numSuccess \in Nat /\ TypeOK
  BY DEF IInv, TypeOK
<1>2. CASE CaseSucceeds
  <2>1. PICK d \in Description :
          /\ RunCase(d) /\ d.type = "Success" /\ numSuccess' = numSuccess + 1
          /\ recentDiscards' = 0 /\ UNCHANGED numDiscarded
    BY <1>2 DEF CaseSucceeds
  <2>2. Cases("Discard")' = Cases("Discard")
    BY <2>1, CaseAdded DEF Types
  <2> QED
    BY <1>1, <2>1, <2>2 DEF GrowthInv, Grown
<1>3. CASE CaseDiscarded
  <2>1. PICK d \in Description :
          /\ RunCase(d) /\ d.type = "Discard" /\ numDiscarded' = numDiscarded + 1
          /\ recentDiscards' = recentDiscards + 1 /\ UNCHANGED numSuccess
    BY <1>3 DEF CaseDiscarded
  <2>2. Cases("Discard")' = Cases("Discard") \cup {NextCase} /\ numSuccess < MaxSuccess
    BY <2>1, CaseAdded DEF RunCase
  <2>3. recentDiscards >= 10 => NextCase.size > 0
    BY <1>1, <2>2, NextSize
  <2> HIDE DEF NextCase
  <2> QED
    BY <1>1, <2>1, <2>2, <2>3 DEF GrowthInv, Grown
<1>4. CASE CaseFails
  <2>1. PICK d \in Description :
          /\ RunCase(d) /\ d.type = "Failure"
          /\ UNCHANGED <<numSuccess, numDiscarded, recentDiscards>>
    BY <1>4 DEF CaseFails
  <2>2. Cases("Discard")' = Cases("Discard")
    BY <2>1, CaseAdded DEF Types
  <2> QED
    BY <2>1, <2>2 DEF GrowthInv, Grown
<1>5. CASE \/ Succeed \/ StartShrinking \/ AcceptShrink \/ RejectShrink \/ NoMoreShrinks
           \/ RunMinimal \/ StartReproducing \/ WalkStep \/ RunReproduced
           \/ UNCHANGED vars
  <2>1. Cases("Discard")' = Cases("Discard")
    BY <1>5, LaterCases, NothingLearned DEF vars, memo, SameCases, Types
  <2>2. UNCHANGED <<numSuccess, numDiscarded, recentDiscards>>
    BY <1>5 DEF Succeed, StartShrinking, AcceptShrink, RejectShrink, TryShrink, NoMoreShrinks,
       RunMinimal, StartReproducing, WalkStep, RunReproduced, vars, searchVars
  <2> QED
    BY <2>1, <2>2 DEF GrowthInv, Grown
<1> QED
  BY <1>2, <1>3, <1>4, <1>5 DEF Next

LEMMA SizesKeep ==
    ASSUME IInv, VerdictInv, SizeInv, [Next]_vars
    PROVE  SizeInv'
<1>1. recentDiscards \in Nat /\ numDiscarded \in Nat /\ numSuccess \in Nat /\ TypeOK
  BY DEF IInv, TypeOK
<1>2. CASE CaseSucceeds
  <2>1. PICK d \in Description :
          /\ RunCase(d) /\ d.type = "Success" /\ numSuccess' = numSuccess + 1
          /\ recentDiscards' = 0 /\ UNCHANGED numDiscarded
    BY <1>2 DEF CaseSucceeds
  <2>2. Cases("Success")' = Cases("Success") \cup {NextCase} /\ numSuccess < MaxSuccess
    BY <2>1, CaseAdded DEF RunCase
  <2>3. recentDiscards < 10 => NextCase.size = SizeFor(numSuccess)
    BY <1>1, <2>2, NextSize
  <2> HIDE DEF NextCase, SizeFor
  <2>4. ASSUME numDiscarded < 10
        PROVE  {n.size : n \in Cases("Success")'} = Planned(numSuccess')
    <3>1. NextCase.size = SizeFor(numSuccess)
      BY <1>1, <2>3, <2>4 DEF SizeInv
    <3>2. {n.size : n \in Cases("Success")} = Planned(numSuccess)
      BY <2>4 DEF SizeInv
    <3>3. 0..(numSuccess' - 1) = (0..(numSuccess - 1)) \cup {numSuccess}
      BY <1>1, <2>1
    <3> QED
      BY <2>2, <3>1, <3>2, <3>3 DEF Planned
  <2> QED
    BY <1>1, <2>1, <2>4 DEF SizeInv
<1>3. CASE CaseDiscarded
  <2>1. PICK d \in Description :
          /\ RunCase(d) /\ d.type = "Discard" /\ numDiscarded' = numDiscarded + 1
          /\ recentDiscards' = recentDiscards + 1 /\ UNCHANGED numSuccess
    BY <1>3 DEF CaseDiscarded
  <2>2. Cases("Success")' = Cases("Success")
    BY <2>1, CaseAdded DEF Types
  <2> QED
    BY <1>1, <2>1, <2>2 DEF SizeInv
<1>4. CASE CaseFails
  <2>1. PICK d \in Description :
          /\ RunCase(d) /\ d.type = "Failure"
          /\ UNCHANGED <<numSuccess, numDiscarded, recentDiscards>>
    BY <1>4 DEF CaseFails
  <2>2. Cases("Success")' = Cases("Success")
    BY <2>1, CaseAdded DEF Types
  <2> QED
    BY <2>1, <2>2 DEF SizeInv
<1>5. CASE \/ Succeed \/ StartShrinking \/ AcceptShrink \/ RejectShrink \/ NoMoreShrinks
           \/ RunMinimal \/ StartReproducing \/ WalkStep \/ RunReproduced
           \/ UNCHANGED vars
  <2>1. Cases("Success")' = Cases("Success")
    BY <1>5, LaterCases, NothingLearned DEF vars, memo, SameCases, Types
  <2>2. UNCHANGED <<numSuccess, numDiscarded, recentDiscards>>
    BY <1>5 DEF Succeed, StartShrinking, AcceptShrink, RejectShrink, TryShrink, NoMoreShrinks,
       RunMinimal, StartReproducing, WalkStep, RunReproduced, vars, searchVars
  <2> QED
    BY <2>1, <2>2 DEF SizeInv
<1> QED
  BY <1>2, <1>3, <1>4, <1>5 DEF Next

LEMMA SizeInvariance ==
    Spec => [](IInv /\ CountInv /\ VerdictInv /\ GrowthInv /\ SizeInv)
<1>1. /\ IInv /\ CountInv /\ VerdictInv /\ GrowthInv /\ SizeInv /\ [Next]_vars
      => IInv' /\ CountInv' /\ VerdictInv' /\ GrowthInv' /\ SizeInv'
  BY StepHolds, CountsKeep, VerdictKeeps, GrowthKeeps, SizesKeep
<1> QED
  BY InitHolds, CountsStart, SizesStart, <1>1, PTL DEF Spec

\* With a discard ratio of ten or more, whatever the limits, no property is given
\* up on before a case above size zero was tried.
THEOREM NeverGivesUpEarly == Spec => []GivesUpOnlyAfterGrowing
<1>1. IInv /\ VerdictInv /\ GrowthInv => GivesUpOnlyAfterGrowing
  <2> SUFFICES ASSUME IInv, VerdictInv, GrowthInv,
                      result # Nothing, result.type = "GaveUp", MaxDiscardRatio >= 10
               PROVE  Grown
    BY DEF GivesUpOnlyAfterGrowing, Grown
  <2>1. numSuccess < MaxSuccess /\ numDiscarded = maxDiscard + 1
    BY DEF VerdictInv
  <2>2. /\ numSuccess \in Nat /\ numDiscarded \in Nat /\ recentDiscards \in Nat
        /\ MaxSuccess \in Nat /\ MaxDiscardRatio \in Nat
    BY ParamsAssumption DEF IInv, TypeOK
  <2>3. maxDiscard >= 10 * MaxSuccess /\ maxDiscard \in Nat
    <3>1. \A a, b \in Nat : a >= 10 => a * b >= 10 * b /\ a * b \in Nat
      OBVIOUS
    <3> QED
      BY <2>2, <3>1 DEF maxDiscard
  <2> HIDE DEF maxDiscard
  <2>4. 10 * numSuccess + 10 <= 10 * MaxSuccess
    BY <2>1, <2>2
  <2> QED
    BY <2>1, <2>2, <2>3, <2>4 DEF GrowthInv
<1> QED
  BY <1>1, SizeInvariance, PTL

\* A natural number is between two multiples of any divisor.
LEMMA Division ==
    ASSUME NEW a \in Nat, NEW b \in Nat \ {0}
    PROVE  /\ a \div b \in Nat
           /\ (a \div b) * b \in Nat /\ (a \div b) * b <= a /\ a < (a \div b) * b + b
OBVIOUS

\* A quotient by MaxSuccess - 1 that is no more than MaxSize is tried, if there
\* are more sizes than cases.
LEMMA SpreadFor ==
    ASSUME MaxSuccess > 1, MaxSuccess < numSizes, NEW k \in 0..(MaxSuccess - 1)
    PROVE  SizeFor(k) = (k * MaxSize) \div (MaxSuccess - 1)
<1>1. MaxSuccess \in Nat /\ MaxSize \in Nat /\ numSizes = MaxSize + 1
  BY ParamsAssumption DEF numSizes
<1>2. MaxSuccess \div numSizes = 0
  BY <1>1
<1>3. numRegular = 0 /\ numRest = MaxSuccess
  BY <1>1, <1>2 DEF numRegular, numRest
<1>4. k % numSizes = k
  BY <1>1
<1>5. ~(k < 0) /\ numRest # 1
  BY <1>3
<1> QED
  BY <1>3, <1>4, <1>5 DEF SizeFor

\* With as many cases as sizes, the first round of them is every size in turn.
LEMMA RegularFor ==
    ASSUME MaxSuccess >= numSizes, NEW k \in 0..MaxSize
    PROVE  SizeFor(k) = k /\ k \in 0..(MaxSuccess - 1)
<1>1. MaxSuccess \in Nat /\ MaxSize \in Nat /\ numSizes = MaxSize + 1
  BY ParamsAssumption DEF numSizes
<1> DEFINE q == MaxSuccess \div numSizes
<1>2. q \in Nat /\ q >= 1
  BY <1>1
<1> HIDE DEF q
<1>3. q * numSizes >= numSizes
  <2>1. \A a, b \in Nat : a >= 1 => a * b >= b
    OBVIOUS
  <2> QED
    BY <1>1, <1>2, <2>1
<1>4. k < numRegular
  BY <1>1, <1>3 DEF numRegular, q
<1>5. k % numSizes = k
  BY <1>1
<1> QED
  BY <1>1, <1>4, <1>5 DEF SizeFor

\* Below every size some planned size is near.
LEMMA NearSize ==
    ASSUME MaxSuccess > 1, MaxSuccess < numSizes, NEW s \in 0..(MaxSize - 1)
    PROVE  \E t \in Planned(MaxSuccess) : t <= s /\ (s - t) * (MaxSuccess - 1) < MaxSize
<1> DEFINE m == MaxSuccess - 1
           u == (s + 1) * m - 1
           k == u \div MaxSize
           t == (k * MaxSize) \div m
<1>1. m \in Nat \ {0} /\ MaxSize \in Nat \ {0} /\ s \in Nat
  BY ParamsAssumption DEF numSizes
<1> HIDE DEF m
<1>2. /\ (s + 1) * m \in Nat /\ (s + 1) * m >= 1 /\ (s + 1) * m <= MaxSize * m
      /\ (s + 1) * m = s * m + m /\ s * m \in Nat
  <2>1. \A a, b, c \in Nat : a <= b => a * c <= b * c
    OBVIOUS
  <2>2. 1 * m <= (s + 1) * m
    BY <1>1, <2>1
  <2>3. (s + 1) * m <= MaxSize * m
    BY <1>1, <2>1
  <2>4. \A a, b \in Nat : (a + 1) * b = a * b + b /\ a * b \in Nat
    OBVIOUS
  <2>5. (s + 1) * m = s * m + m /\ s * m \in Nat
    BY <1>1, <2>4
  <2> QED
    BY <1>1, <2>2, <2>3, <2>5
<1>3. u \in Nat /\ u < MaxSize * m /\ u < s * m + m
  BY <1>1, <1>2
<1>4. k \in Nat /\ k * MaxSize \in Nat /\ k * MaxSize <= u /\ u < k * MaxSize + MaxSize
  <2> HIDE DEF u
  <2> QED
    BY <1>1, <1>3, Division
<1> HIDE DEF k
<1>5. k < m
  <2>1. \A a, b, c \in Nat : c * a < c * b => a < b
    OBVIOUS
  <2>2. k * MaxSize < MaxSize * m
    BY <1>1, <1>3, <1>4
  <2>3. MaxSize * k < MaxSize * m
    BY <1>1, <1>4, <2>2
  <2> QED
    BY <1>1, <1>4, <2>1, <2>3
<1>6. t \in Nat /\ t * m \in Nat /\ t * m <= k * MaxSize /\ k * MaxSize < t * m + m
  BY <1>1, <1>4, Division
<1>7. t \in Planned(MaxSuccess)
  <2>1. k \in 0..(MaxSuccess - 1)
    BY <1>1, <1>4, <1>5 DEF m
  <2>2. SizeFor(k) = t
    BY <2>1, SpreadFor DEF m
  <2> QED
    BY <2>1, <2>2 DEF Planned
<1> HIDE DEF t
<1>8. t <= s
  <2>1. t * m < (s + 1) * m
    BY <1>2, <1>3, <1>4, <1>6
  <2>2. \A a, b, c \in Nat : a * c < b * c => a < b
    OBVIOUS
  <2>3. t < s + 1
    BY <1>1, <1>6, <2>1, <2>2
  <2> QED
    BY <1>1, <1>6, <2>3
<1>9. (s - t) * m < MaxSize
  <2>1. (s - t) * m = s * m - t * m
    <3>1. \A a, b, c \in Int : (a - b) * c = a * c - b * c
      OBVIOUS
    <3> QED
      BY <1>1, <1>6, <3>1
  <2>2. u = s * m + m - 1
    BY <1>1, <1>2
  <2> HIDE DEF u
  <2> QED
    BY <1>1, <1>2, <1>4, <1>6, <2>1, <2>2
<1> QED
  BY <1>7, <1>8, <1>9 DEF m

\* The plan has the maximum size, and below every size one that is near.
LEMMA PlanCovers ==
    ASSUME MaxSuccess > 1
    PROVE  /\ MaxSize \in Planned(MaxSuccess)
           /\ \A s \in 0..MaxSize :
                \E t \in Planned(MaxSuccess) :
                  t <= s /\ (t = s \/ (s - t) * (MaxSuccess - 1) < MaxSize)
<1>1. MaxSuccess \in Nat /\ MaxSize \in Nat
  BY ParamsAssumption
<1>2. CASE MaxSuccess >= numSizes
  <2>1. \A k \in 0..MaxSize : k \in Planned(MaxSuccess)
    BY <1>2, RegularFor DEF Planned
  <2> QED
    BY <1>1, <2>1
<1>3. CASE MaxSuccess < numSizes
  <2>1. MaxSize \in Planned(MaxSuccess)
    <3>1. MaxSuccess - 1 \in 0..(MaxSuccess - 1)
      BY <1>1
    <3>2. SizeFor(MaxSuccess - 1) = ((MaxSuccess - 1) * MaxSize) \div (MaxSuccess - 1)
      BY <1>3, <3>1, SpreadFor
    <3>3. \A a \in Nat, b \in Nat \ {0} : (b * a) \div b = a
      OBVIOUS
    <3>4. SizeFor(MaxSuccess - 1) = MaxSize
      BY <1>1, <3>2, <3>3
    <3> QED
      BY <3>1, <3>4 DEF Planned
  <2>2. ASSUME NEW s \in 0..MaxSize
        PROVE  \E t \in Planned(MaxSuccess) :
                 t <= s /\ (t = s \/ (s - t) * (MaxSuccess - 1) < MaxSize)
    <3>1. CASE s = MaxSize
      BY <1>1, <2>1, <3>1
    <3>2. CASE s # MaxSize
      <4>1. s \in 0..(MaxSize - 1)
        BY <1>1, <3>2
      <4> QED
        BY <1>3, <4>1, NearSize
    <3> QED
      BY <3>1, <3>2
  <2> QED
    BY <2>1, <2>2
<1> QED
  BY <1>1, <1>2, <1>3 DEF numSizes

\* For any number of cases above one and any maximum size, a property that holds
\* was tried at the maximum and near every size below it.
THEOREM SizesAreSpread == Spec => []EverySizeTested
<1>1. IInv /\ VerdictInv /\ SizeInv => EverySizeTested
  <2> SUFFICES ASSUME IInv, VerdictInv, SizeInv,
                      result # Nothing, result.type = "Success", numDiscarded < 10,
                      MaxSuccess > 1
               PROVE  LET sizes == {n.size : n \in Cases("Success")}
                      IN /\ MaxSize \in sizes
                         /\ \A s \in 0..MaxSize :
                              \E t \in sizes :
                                t <= s /\ (t = s \/ (s - t) * (MaxSuccess - 1) < MaxSize)
    BY DEF EverySizeTested
  <2>1. {n.size : n \in Cases("Success")} = Planned(MaxSuccess)
    BY DEF VerdictInv, SizeInv
  <2> QED
    BY <2>1, PlanCovers
<1> QED
  BY <1>1, SizeInvariance, PTL
=============================================================================
