---------------------------- MODULE LocalMinimum ----------------------------
(***************************************************************************)
(* What a failing test promises its user, without saying how shrinking     *)
(* goes about it.  The property under test answers questions about the     *)
(* nodes of its shrink tree and never takes an answer back.  The example   *)
(* is a failing node; it moves only to one of its own shrinks that fails   *)
(* too; and when it is declared, none of its shrinks fails, unless         *)
(* shrinking was off, in which case it never moved.                        *)
(***************************************************************************)
EXTENDS Integers, Sequences

CONSTANT Nothing

VARIABLES outcome, width, example, declared, shrinking

lmVars == <<outcome, width, example, declared, shrinking>>

Keeps(f, g) == DOMAIN f \subseteq DOMAIN g /\ \A n \in DOMAIN f : g[n] = f[n]

\* Answers already given stand.
Answers == Keeps(outcome, outcome') /\ Keeps(width, width')

IsFailing(f, n) == n \in DOMAIN f /\ f[n].type = "Failure"

ShrinksOf(n) == {[n EXCEPT !.path = Append(n.path, k)] : k \in 0..(width[n] - 1)}

Init == example = Nothing /\ declared = FALSE

\* A failing case that was not shrunk from anything.
Find ==
    /\ example = Nothing /\ example' # Nothing
    /\ example'.path = <<>> /\ IsFailing(outcome', example')
    /\ UNCHANGED <<declared, shrinking>>

Improve ==
    /\ shrinking /\ ~declared /\ example # Nothing
    /\ example' \in ShrinksOf(example) /\ IsFailing(outcome', example')
    /\ UNCHANGED <<declared, shrinking>>

Declare ==
    /\ ~declared /\ declared' /\ example # Nothing
    /\ IF shrinking
         THEN \A n \in ShrinksOf(example) :
                n \in DOMAIN outcome /\ ~IsFailing(outcome, n)
         ELSE example.path = <<>>
    /\ UNCHANGED <<example, shrinking>>

\* Questions asked in between, and anything after the declaration.
Ask == UNCHANGED <<example, declared>> /\ (declared \/ UNCHANGED shrinking)

Next == Answers /\ (Find \/ Improve \/ Declare \/ Ask)

Spec == Init /\ [][Next]_lmVars
=============================================================================
