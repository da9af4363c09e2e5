---------------------------- MODULE StatefulTest ----------------------------
(***************************************************************************)
(* A stateful property: a sequence of commands is generated, runAll runs   *)
(* it on a model and the system under test (state/Commands.hpp), and if    *)
(* that fails, a shrink of the sequence is run on fresh ones.  A behaviour *)
(* is a walk of the test engine down the shrink tree, from one sequence    *)
(* that fails to the next.                                                 *)
(***************************************************************************)
EXTENDS CommandSequence

VARIABLES
    test,       \* "none" of this sequence yet; "running", "passed", "failed", "discarded"
    model,      \* currentState
    sut,        \* what the system under test was asked to run, and given which state
    next        \* the command that is run next

run == <<test, model, sut, next>>
allVars == <<vars, run>>

TestInit == Init /\ test = "none" /\ model = <<>> /\ sut = <<>> /\ next = 1

MakeSequence ==
    /\ Generate \/ Repairing
    /\ UNCHANGED run

\* makeInitialState(), and a new system.
StartRun ==
    /\ pc = "ready" /\ test = "none"
    /\ test' = "running" /\ model' = <<>> /\ sut' = <<>> /\ next' = 1
    /\ UNCHANGED vars

\* How it goes on after a command that says v: run may assert or discard, apply may
\* discard, and what else is thrown is a failure of the property.
Outcomes(v) ==
    CASE v = "valid"    -> {"running", "failed", "discarded"}
      [] v = "discards" -> {"failed", "discarded"}
      [] v = "invalid"  -> {"discarded"}
      [] v = "throws"   -> {"failed"}

\* Mutant: the state after the command.
GivenToRun_After(command) == Append(model, command)

\* The state that run gets.
GivenToRun(command) == model

\* checkPreconditions, run and apply.
RunCommand ==
    LET command == entries[next].command
    IN /\ test = "running" /\ next <= Len(entries)
       /\ \E v \in Verdicts : \E outcome \in Outcomes(v) :
            /\ Says(command, model, v)
            /\ test' = outcome
            /\ sut' = IF v \in {"invalid", "throws"} THEN sut
                      ELSE Append(sut, [command |-> command, given |-> GivenToRun(command)])
            /\ IF outcome = "running"
                 THEN model' = Append(model, command) /\ next' = next + 1
                 ELSE UNCHANGED <<model, next>>
       /\ UNCHANGED <<entries, state, pc, tries, i, count, parent>>

EndRun ==
    /\ test = "running" /\ next > Len(entries)
    /\ test' = "passed"
    /\ UNCHANGED <<vars, model, sut, next>>

\* The engine tries a shrink of a sequence that failed.
TryShrink ==
    /\ test = "failed" /\ Shrink
    /\ test' = "none" /\ UNCHANGED <<model, sut, next>>

TestNext == MakeSequence \/ StartRun \/ RunCommand \/ EndRun \/ TryShrink

\* The code goes on while there is something to do.
TestSpec == TestInit /\ [][TestNext]_allVars /\ WF_allVars(TestNext)

-----------------------------------------------------------------------------
(* Properties *)

\* The system under test only ever runs commands that are legal where it is, and run
\* is given the state of a model that has been through the same commands and not yet
\* this one (runAll, on what generation, shrinking and repair made).
ModelInStep ==
    \A k \in DOMAIN sut :
      LET asked == <<sut[k].command, sut[k].given>>
      IN /\ sut[k].given = [j \in 1..(k - 1) |-> sut[j].command]
         /\ asked \in DOMAIN checks /\ checks[asked] = "valid"

\* A walk that keeps shrinking ends, with no command at the latest, though a repair can
\* put a command at its full size in the place of a shrunk one (regenerateEntryAt).
Termination == <>(pc = "threw" \/ test \in {"passed", "discarded"})
=============================================================================
