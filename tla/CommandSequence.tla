-------------------------- MODULE CommandSequence --------------------------
(***************************************************************************)
(* Sequences of commands for stateful testing (state/gen/Commands.hpp):    *)
(* they are generated one at a time against a model state, and shrunk by   *)
(* removing a range of commands or by shrinking one, after which the rest  *)
(* is repaired.  A behaviour is a walk down the shrink tree.               *)
(*                                                                         *)
(* A model state is the sequence of the commands applied to the initial    *)
(* one: any Command::apply tells apart fewer states than that.  What       *)
(* checkPreconditions and apply say of a command in a state is decided the *)
(* first time they are asked and remembered in checks, so every class of   *)
(* commands is met.  A generator that fails is one that makes a command    *)
(* which is not valid: entryForState treats the two alike.  Anything else  *)
(* that is thrown, by the value() of a generator or of a shrink too, is a  *)
(* command that says "throws".                                             *)
(*                                                                         *)
(* A Random is the number of the split of generateInitial that it comes    *)
(* from: nextEntry takes one entry from each, at whichever try.            *)
(***************************************************************************)
EXTENDS Integers, Sequences, FiniteSets

CONSTANTS
    MaxCommands,    \* bound: commands in a sequence, the size + 1 in the code
    MaxTries,       \* tries to generate a command, 100 in the code
    MaxPath,        \* bound: depth of the shrink tree of a command
    Kinds,          \* how many types of commands execOneOf is given
    WithState       \* those of them whose constructor takes the model state

ASSUME CommandsAssumption ==
    /\ MaxCommands \in Nat \ {0} /\ MaxTries \in Nat \ {0} /\ MaxPath \in Nat
    /\ Kinds \in Nat \ {0} /\ WithState \subseteq 0..(Kinds - 1)

VARIABLES
    checks,     \* <<command, state>> |-> what the command says there
    entries,    \* m_entries
    state,      \* the model state that the code threads through a loop
    pc,         \* "generate", "repair": in the loop; "ready", "threw"
    tries,      \* of nextEntry
    i,          \* of repairEntries, counted from 1
    count,      \* commands to generate
    parent      \* m_entries of the sequence this one is a shrink of

vars == <<checks, entries, state, pc, tries, i, count, parent>>

\* OneOfCmdGen: the Random alone selects the type of the command.
Kind(random) == random % Kinds

\* MakeCommand: only some constructors are given the state.
Given(kind, s) == IF kind \in WithState THEN s ELSE <<>>

\* A command is what a generation function makes of a Random and a state, or a
\* shrink of that.
Generated(random, s) ==
    [random |-> random, madeFor |-> Given(Kind(random), s), depth |-> 0]

Shrunk(command) ==
    IF command.depth < MaxPath THEN {[command EXCEPT !.depth = @ + 1]} ELSE {}

\* CommandEntry; the m_command of its m_shrinkable.
Entry(random, command) == [random |-> random, command |-> command]

Commands(es) == [k \in DOMAIN es |-> es[k].command]

\* Mutant: the empty ranges too.
Subranges_Empty(n) == {r \in (1..n) \X (0..n) : r[1] <= r[2] + 1}

\* seq::subranges: every range but the empty ones, as the numbers of its entries.
Subranges(n) == {r \in (1..n) \X (1..n) : r[1] <= r[2]}

Without(es, r) == SubSeq(es, 1, r[1] - 1) \o SubSeq(es, r[2] + 1, Len(es))

-----------------------------------------------------------------------------
\* checkPreconditions discards; holds; holds and apply discards all the same, which is
\* deprecated; or something else is thrown.
Verdicts == {"invalid", "valid", "discards", "throws"}

\* What is known once v was the answer to asked.
Remembered(asked, v, known) ==
    [q \in DOMAIN known \cup {asked} |-> IF q = asked THEN v ELSE known[q]]

\* The command says v in state s, now and whenever asked again.
Says(command, s, v) ==
    LET asked == <<command, s>>
    IN /\ v \in IF asked \in DOMAIN checks THEN {checks[asked]} ELSE Verdicts
       /\ checks' = Remembered(asked, v, checks)

\* safeApply throws a GenerationFailure, or what was thrown goes through: out of the
\* generator or of the shrink.
ApplyThrows == pc' = "threw" /\ UNCHANGED <<entries, state, tries, i>>

Fails(command, s) ==
    (\E v \in {"discards", "throws"} : Says(command, s, v)) /\ ApplyThrows

\* Mutant: nextEntry is given the same Random for every entry.
NextRandom_Same == 1

\* r.split() of generateInitial.
NextRandom == Len(entries) + 1

\* generateInitial, nextEntry and entryForState: one try.
Try ==
    LET random  == NextRandom
        command == Generated(random, state)
    IN /\ pc = "generate" /\ Len(entries) < count
       /\ \/ /\ Says(command, state, "valid")
             /\ entries' = Append(entries, Entry(random, command))
             /\ state' = Append(state, command)
             /\ tries' = 0 /\ UNCHANGED <<pc, i>>
          \/ Fails(command, state)
          \/ /\ tries + 1 < MaxTries    \* an invalid command
             /\ tries' = tries + 1 /\ UNCHANGED <<checks, entries, state, pc, i>>
          \/ tries + 1 = MaxTries /\ ApplyThrows /\ UNCHANGED checks
       /\ UNCHANGED <<count, parent>>

\* generateInitial is done.
EnoughCommands ==
    /\ pc = "generate" /\ Len(entries) = count
    /\ pc' = "ready"
    /\ UNCHANGED <<checks, entries, state, tries, i, count, parent>>

\* Mutant: a copy that is not repaired.
Repair_Not(es) ==
    /\ pc' = "ready" /\ entries' = es /\ state' = <<>> /\ i' = 1
    /\ parent' = entries
    /\ UNCHANGED <<tries, count>>

\* repairEntries begins on a copy with entries es.
Repair(es) ==
    /\ pc' = "repair" /\ entries' = es /\ state' = <<>> /\ i' = 1
    /\ parent' = entries
    /\ UNCHANGED <<tries, count>>

\* A shrink of shrinksRemoving.
RemoveRange ==
    /\ pc = "ready"
    /\ \E r \in Subranges(Len(entries)) : Repair(Without(entries, r))
    /\ UNCHANGED checks

\* The state before entry k.
stateAt(k) == SubSeq(Commands(entries), 1, k - 1)

replaceShrinkable(k, command) == Repair([entries EXCEPT ![k].command = command])

\* A shrink of shrinksIndividual: a command that is valid in the state of the one
\* it replaces (stateAt, isValidCommand, replaceShrinkable).  One whose value() or
\* preconditions throw ends the shrinks of its entry, and only these (Seq::next).
ReplaceOne ==
    /\ pc = "ready"
    /\ \E k \in DOMAIN entries :
         \E s \in Shrunk(entries[k].command), v \in {"valid", "discards"} :
           Says(s, stateAt(k), v) /\ replaceShrinkable(k, s)

\* The state once the command was applied.
Threaded(command) == Append(state, command)

\* repairEntryAt: the entry stays as it is, if it is valid.
KeepEntry ==
    LET entry == entries[i]
    IN /\ pc = "repair" /\ i <= Len(entries)
       /\ \/ /\ Says(entry.command, state, "valid")
             /\ state' = Threaded(entry.command) /\ i' = i + 1
             /\ UNCHANGED <<entries, pc, tries>>
          \/ Fails(entry.command, state)
       /\ UNCHANGED <<count, parent>>

\* Mutant: generated again with the Random of the place it is at now.
Regenerated_HereNow(entry) == Generated(i, state)

\* regenerateEntryAt: the command made of the entry's own Random for this state.
Regenerated(entry) == Generated(entry.random, state)

Erased(es, k) == Without(es, <<k, k>>)

\* repairEntryAt and regenerateEntryAt: the entry is not valid, and what is made
\* in its place is, or is not, or throws.
RegenerateEntry ==
    LET entry == entries[i]
        new   == Regenerated(entry)
    IN /\ pc = "repair" /\ i <= Len(entries)
       /\ \E v \in Verdicts :
            LET old == <<entry.command, state>>
                asked == <<new, state>>
                after == Remembered(old, "invalid", checks)
            IN /\ old \in DOMAIN checks => checks[old] = "invalid"
               /\ asked \in DOMAIN after => after[asked] = v
               /\ checks' = Remembered(asked, v, after)
               /\ \/ /\ v = "valid"
                     /\ entries' = [entries EXCEPT ![i] = Entry(new.random, new)]
                     /\ state' = Threaded(new) /\ i' = i + 1
                     /\ UNCHANGED <<pc, tries>>
                  \/ v \in {"discards", "throws"} /\ ApplyThrows
                  \/ /\ v = "invalid"
                     /\ entries' = Erased(entries, i)
                     /\ UNCHANGED <<state, pc, tries, i>>
       /\ UNCHANGED <<count, parent>>

Repaired ==
    /\ pc = "repair" /\ i > Len(entries)
    /\ pc' = "ready"
    /\ UNCHANGED <<checks, entries, state, tries, i, count, parent>>

\* The size is at least 0, so that there is a command to generate.
Init ==
    /\ checks = [q \in {} |-> "valid"]
    /\ entries = <<>> /\ state = <<>> /\ parent = <<>>
    /\ pc = "generate" /\ tries = 0 /\ i = 1
    /\ count \in 1..MaxCommands

Generate == Try \/ EnoughCommands
Shrink   == RemoveRange \/ ReplaceOne
Repairing == KeepEntry \/ RegenerateEntry \/ Repaired

-----------------------------------------------------------------------------
(* Properties *)

\* applyAll: every command is valid in the state that the ones before it lead to.
isValidSequence(commands) ==
    \A k \in DOMAIN commands :
      LET asked == <<commands[k], SubSeq(commands, 1, k - 1)>>
      IN asked \in DOMAIN checks /\ checks[asked] = "valid"

\* A sequence that is handed out can be run to its end, after any shrinking: no
\* precondition discards it (nextEntry, repairEntries, shrinksIndividual).
AlwaysValid == pc = "ready" => isValidSequence(Commands(entries))

\* An entry of the sequence came unchanged from its parent.
Kept(entry) == \E p \in DOMAIN parent : parent[p] = entry

\* It is the parent's, shrunk one step.
Reduced(entry) ==
    \E p \in DOMAIN parent :
      parent[p].random = entry.random /\ entry.command \in Shrunk(parent[p].command)

\* It is made anew for the state s, where the parent's command is not valid.
Remade(entry, s) ==
    \E p \in DOMAIN parent :
      /\ parent[p].random = entry.random
      /\ entry.command = Generated(entry.random, s)
      /\ <<parent[p].command, s>> \in DOMAIN checks
      /\ checks[<<parent[p].command, s>>] = "invalid"

\* A shrink says why it differs from its parent: it reuses the parent's Randoms and
\* no others, a command that is still valid where it now stands stays as it was,
\* and at most one is shrunk (repairEntryAt, regenerateEntryAt, replaceShrinkable).
\* Each command has a Random of its own to be remade from, before and after any
\* shrinking (generateInitial, nextEntry).
MinimalRepair ==
    pc = "ready" =>
      /\ \A j, k \in DOMAIN entries : j # k => entries[j].random # entries[k].random
      /\ parent # <<>> =>
           LET Changed == {k \in DOMAIN entries :
                             /\ ~ Kept(entries[k])
                             /\ ~ Remade(entries[k], stateAt(k))}
           IN /\ Cardinality(Changed) <= 1
              /\ \A k \in Changed : Reduced(entries[k])
=============================================================================
