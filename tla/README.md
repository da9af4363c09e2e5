# RapidCheck in TLA+

A verification project for RapidCheck, the QuickCheck-style property testing
library. Paths are relative to the repository root; modules and configurations
are in `tla/`. Line numbers are those of `PROJECT.json`, which maps every
definition to the code it was translated from.

## The system

A *property* is a function that draws values from generators and asserts
something about them. The library runs it on many generated cases of growing
size. When one fails it looks for a smaller case that fails too, by walking down
a lazily built *shrink tree*, and prints what is needed to find the case again:
a random state, a size and the path through the tree. A later process that is
given that string regenerates the case and walks the path again.

Everything runs on the thread that called `rc::check`, except that generators
and shrinkables are handles with an atomic reference count and may be shared by
threads. What makes the code hard is not scheduling, it is that the same
computation is repeated and has to come out the same: a property body is run
again for its value, for its shrinks, for every shrink of them, for the report
and in another process, and all of these communicate through counters, indices,
stacks and split random states that must stay in step.

### Inventory

| Component | State it keeps | Operations | Hard behaviour | Correct when |
|---|---|---|---|---|
| Test engine (`detail/Testing.cpp`) | counts of successes and discards, tags, the failing case; best case, rest of its shrinks, path, index | `searchProperty`, `shrinkTestCase`, `doTestProperty`, `reproduceProperty` | a counter kept beside a lazy sequence; restarting the sequence after each accepted shrink; termination; a string used on an edited program | the counterexample is a local minimum, and the recorded path leads back to it |
| Check and session (`Check.cpp`, `detail/ReproduceListener.cpp`, `detail/Configuration.cpp`) | map from id to what reproduces it; the string printed at exit | `checkProperty`, `onTestFinished` | crash before the string is printed; several properties with one id; other flags in the second process | every first failure of an id comes back, the rest is skipped |
| Random (`Random.cpp`) | key, path bits, counter, current block | `split`, `next` | the 64-bit word of path bits fills up; the counter ends; blocks cached across calls | no number is ever drawn twice in the tree of splits |
| Execution of a callable (`gen/detail/ExecRaw.hpp`, `ExecHandler.cpp`, `Recipe.cpp`) | recipe of ingredients with a fixed prefix; iterator; random | `onGenerate`, `execWithRecipe`, `shrinksOfRecipe` | the callable is run again with a recipe that was cut; exceptions leave in the middle | replays draw the same values, of the right type, from separate splits |
| Implicit parameters (`detail/ImplicitParam.hpp`) | a stack of bindings for each parameter, a stack of scopes | construct, destroy, `value()` | defaults are pushed lazily and popped by the scope | lazy scoping is the same as eager dynamic scoping |
| Results of a test case (`detail/Property.cpp`, `Property.hpp`, `Assertions.h`, `Log.cpp`, `Classify.cpp`) | type, messages, log, tags | the assertion macros, `reportResult`, `addTag`, the adapter's handlers | reports while the body runs, then the way it ends; assertions that swallow exceptions | the worst result counts, whatever the order; nothing that happened is lost |
| Command sequences (`state/gen/Commands.hpp`) | entries: Random, command; the model state threaded through | generate, remove ranges, shrink one, repair | preconditions change when others are removed; erasing inside the loop | a sequence handed out is valid in order |
| Shared implementations (`Gen.hpp`, `Shrinkable.hpp`) | a handle's pointer, a count | copy, move, assign, destroy | two threads let go at once; self-assignment; handles captured in implementations | no use after free, no leak |
| Lazy sequences (`Seq.hpp`, `seq/*.hpp`) | state of each combinator, an iterator's current element | `next`, copy, `length`, `all`, `==`, range-based `for` | an exception ends the sequence in silence; nested sequences; consumers work on copies | each combinator yields what its list function would, and all consumers agree on it |
| Shrink algorithms (`shrink/Shrink.hpp`, `shrinkable/*.hpp`) | distance left, range to remove | `towards`, `removeChunks`, `eachElement`, `integral` | widths and signs; ending | shrinks never include the value itself, all are simpler |
| Containers, `suchThat` (`gen/Container.hpp`, `gen/Predicate.hpp`) | tries in a row, growing size, the set so far | `generateShrinkables`, `unique`, `set`, `map`, `FilterGen` | the budget of tries; shrinks filtered against an older set | elements stay distinct after any shrinking |
| Numbers and text (`detail/BitStream.hpp`, `gen/detail/ScaleInteger.cpp`, `detail/FrequencyMap.cpp`, `gen/Numeric.hpp`, `gen/Text.hpp`) | bits left over | `next`, `scaleInteger`, `lookup`, `inRange`, `character` | shifts by the full width, carries, rounding | the result is in range, no bit is used twice |
| Other generators (`gen/Select.hpp`, `Transform.hpp`, `Tuple.hpp`, `Build.hpp`, `Maybe.hpp`) | - | `oneOf`, `mapcat`, `tuple`, `build`, `scale` | who gets which split; failures of inner generators | a value is one that the documentation promises |
| Serialization, configuration text (`detail/Serialization.hpp`, `Base64.cpp`, `MapParser.cpp`, `Configuration.cpp`) | none, iterators | serialize, parse, `loadConfiguration` | truncated input, lengths, quotes | what is printed is read back; what was cut is refused |
| Value types (`Maybe.hpp`, `detail/Variant.hpp`, `detail/Any.h`) | raw storage and a flag | construct, assign, reset, destroy | a copy that throws in the middle of an assignment | the flag says what is in the storage |
| Stateful run (`state/Commands.hpp`) | model, system under test | `runAll` | a precondition that fails in the middle | only valid sequences run |
| Reporting, framework macros, build | - | - | - | not modelled, see below |

How they interact. `rc::check` asks the session for a `Reproduce`, and calls the
engine. The engine calls the property's generator with a split of its `Random`;
that generator is `execRaw` of the property body inside a `PropertyAdapter`. The
body's `*gen` reaches the current handler through the implicit parameter
`CurrentHandler`; `RC_TAG`, the log and Google Mock reach the context through
`CurrentPropertyContext`. Each `*gen` splits the recipe's `Random` and stores the
`Shrinkable` in the recipe. The shrinks of the test case are the shrinks of its
recipe, so the engine's walk through the tree is a sequence of recipes. Commands
are a generator and shrinks like any other. All generators and shrinkables are
handles on shared implementations.

## The modules

| Module | Models | Specified against |
|---|---|---|
| `Testing` | the engine and the reproducing process | `LocalMinimum` |
| `TestSession`, `Configuration`, `Serialization`, `MapParser`, `Texts` | two processes of several properties; the texts between them | the configuration that was meant |
| `RandomSplit` | `Random` under an ideal hash | |
| `ExecRecipe` | one walk down the shrink tree of a callable | |
| `ImplicitParam` | parameter stacks and scopes | `DynamicScope` |
| `PropertyContext`, `PropertyBody` | what a context does with results; a body, statement by statement, and the Google Mock listener | the history of what happened |
| `CommandSequence`, `StatefulTest` | one walk down the shrink tree of a sequence; runs of its cases on model and system | |
| `Numbers`, `Generators` | arithmetic on bits and words; every generator as a function of a `Random` and a size | `Promised`, exact arithmetic |
| `SharedImpl`, `ValueTypes` | reference counts, several threads; storage that holds a handle | |
| `SeqCreate`, `ShrinkSeqs`, `ShrinkTrees`, `LazySeq` | what makes a `Seq`, shrinking algorithms, `Shrinkable` with its transformers and the containers, `next()` of all of them and what consumes them: operators | `Elements` |
| `FindLocalMin` | pulling from a sequence, the descent into a shrink tree | `Elements`, `Simpler` |
| `MCTesting`, `MCImplicitParam`, `MCSharedImpl`, `MCFindLocalMin`, `MCGenerators`, `MCTestSession` | values of operator constants, symmetry | |
| `TestingProofs`, `RandomSplitProofs`, `ImplicitParamProofs`, `ExecRecipeProofs`, `StatefulTestProofs`, `ValueTypesProofs`, `PropertyBodyProofs`, `TestSessionProofs` | theorems about the module of that name and what it extends | |

Definitions have the names of the source where there is one. Those whose names
hold a `_` after a definition's name, and a comment `Mutant:`, are faults that a
property is shown to detect; no specification uses them.

### Testing

One step is one round of a loop of `Testing.cpp`: `CaseSucceeds`,
`CaseDiscarded`, `CaseFails` are rounds of `searchProperty`; `AcceptShrink` and
`RejectShrink` are rounds of `shrinkTestCase`; `RunMinimal` is the last run in
`doTestProperty`; `WalkStep` is a round of the loop over the recorded path and
`RunReproduced` the evaluation after it. The property is unknown: what a node of
its shrink tree yields, and how many shrinks it has, is chosen when the engine
first asks and never changes (`outcome`, `width`). So the checks range over all
deterministic properties whose trees fit the bounds. A node is a build, a random
state (the number of the split), a size and a path. `edited` is the build of a
program that was changed before it was asked to reproduce: its answers are new, and
its tree may be another one. `ReplayAgrees` says that such a program is judged by the
case at the end of the recorded path, or not at all. A `value()` that throws, which
ends `rc::check` with no result, is in `ExecRecipe`; here every case has one.
The reproduce string is its entry here; that it survives
being printed and read is in `TestSession`.

### TestSession, Configuration, Serialization, MapParser and Texts

The result of `Testing` becomes one value here: a failure with the case it
reports, shrunk or not. Modelled are the configuration of each process, the
listener's map, its printing at exit, a crash that prints nothing, and
`checkProperty` in the second process: no string, string without an entry for the
property, or with one. The second process may be started afresh (`RunAfresh`),
with the line that the first announced (`RunAsAnnounced`), with what it printed at
exit and entries of the user's around it (`RunToReproduce`), or with a part of that
text (`RunWithCut`). What an id is depends on the framework: the description in
`rc::check`, the name of the test in Google Test and Boost Test, none in a section
of Catch or doctest (`NoId`, which is never stored).

`TestSession` extends `Configuration`, which extends `Serialization` and `MapParser`; both
extend `Texts`: what is left of a sequence behind an iterator, and pieces one after the
other. `MapParser` is `parseMap` and `mapToString`, where a keyword is a single
character, since no other character splits one. `Configuration` reads the value of
each parameter over its default and prints the minimal map. `Serialization` is the
bytes of a map of failures and their Base64 characters. Reading gives a value and
the rest, the end of the input (`UnexpectedEnd`), or `Undefined` where the code
shifts beyond a width or reads past the end. The loops are recursive functions of the
number of rounds. `Byte` and `Base` are how many bytes and Base64 characters there are:
256 and 64, or, for TLC, 16 and 8, where three bytes make four characters too.
`WordBytes` is the width of an integer and `KeyWords` that of the key of a `Random`.

### RandomSplit

`mash()` is taken as an ideal hash, which never gives one block for two inputs.
A key is then written as the sequence of inputs hashed into the seed, and path
bits as the set of the ones that are 1. Under that assumption the question is
whether the rest of the class keeps the inputs apart: `Split`, `DrawNumber`,
`AppendBit` with its rehash, `Wrap` at the end of the counter. The assertion at
the head of `split` is a guard, since `Random.h` makes it the caller's duty.

### ExecRecipe

A behaviour is a walk down one path of the tree. At each case the callable runs
twice, once for `value()` and once for `shrinks()`, and the walk continues with
one shrink of the recipe. What the callable does after having drawn given values
is chosen once and remembered in `calls`: it draws from some generator, returns
or throws. `Faulty` generators throw from their `value()`, those of `Partial` from the
`value()` of their last shrink (`Throws`). `adapted` says whether
the callable is a `PropertyAdapter`, which catches, and `hasArgs` whether the
first draw is its argument tuple, which happens outside the adapter:
an exception there leaves `rc::check` instead of becoming a result. `Caught` is what
the adapter makes a result of, and `ReplaysAgree` says that nothing else is missing one.

### ImplicitParam and DynamicScope

`m_stack`, `m_scopes` and the notes in a scope are as in the code. `objects` is
the C++ call stack: objects die in the reverse of the order in which they were
made. `DynamicScope` is what `ImplicitParam.h` promises: entering a scope
rebinds every parameter to its default at once. The refinement mapping adds, at
each level, the default where none was pushed yet.

### PropertyContext and PropertyBody

In `PropertyContext`, `Report` is any call of `reportResult` while the body runs, as
the Google Mock listener and the tests make; `EndAs` the result that the adapter
makes of what is returned or thrown (`Endings`).

`PropertyBody` says which of these a statement of the body is. `Conditional` and
`Unconditional` are the table of the macros of `Assertions.h`; the expression of an
assertion evaluates to a truth value or throws, also the `CaseResult` of an
assertion nested in it. `Return` is the end without an exception. `RC_LOG`, `RC_TAG`
and `RC_CLASSIFY` go to the context of the body, and once it has ended to the
default context, which prints lines and ignores tags. `OnTestPartResult` and
`OnOther` are the listener that took the place of the framework's printer, with or
without that one as its delegate. `done` is the history that `ResultTellsAll`
compares the result with.

### CommandSequence and StatefulTest

`checks` remembers what `checkPreconditions` and `apply` say of a command in a
state, chosen when first asked, so all classes of commands are covered. The model
state is the sequence of commands applied so far; any real state tells fewer of
them apart. `Try` is a round of `nextEntry`; `RemoveRange` and `ReplaceOne` the
two kinds of shrinks, each followed by the loop of `repairEntries`:
`KeepEntry`, `RegenerateEntry`. A command's shrink tree is a line of length
`MaxPath`, since which shrink of a command is taken makes no difference to the
repair. A `Random` is the number of the split of `generateInitial` that it comes
from (`NextRandom`), whichever of its own splits a try used: those of failed tries are
never used again. A command that `"throws"` stands for whatever else can come out of a
generator, a precondition, `apply` or the `value()` of a shrink: it ends
generation or repair, or the shrinks of one entry.

`StatefulTest` runs what `CommandSequence` hands out: `StartRun` makes a fresh model
and system, `RunCommand` is a round of `runAll` with its checks, `run` and `apply`,
any of which may end the run; after a failure `TryShrink` goes on with a shrink, as
the engine does. What the system was asked, and in which state, is the history
`sut`.

### SharedImpl and ValueTypes

`retain` and `release` are one atomic step each, `delete` another; an operation
is a list of such calls (`todo`) that other threads may interleave with. As C++
requires, no two threads operate on one handle at a time when one of them
changes it (`reads`, `writes`). An implementation may have captured one other
handle, as a mapped generator has.

In `ValueTypes` a handle may be inside a `Maybe` or a `Variant`: storage that holds
one or something else, and says which (`holds`). An assignment of the same type
assigns the handle, of another destroys and constructs; `VariantAssignThrows` is a
copy that throws while the old value must stay.

### SeqCreate, ShrinkSeqs, ShrinkTrees, LazySeq and FindLocalMin

Each of these modules extends the one before it, in the order in which the code
can be untangled: `SeqCreate` and `ShrinkSeqs` only build sequences, `ShrinkTrees`
calls what a tree holds (`Call`, `ValueOf`, `ShrinksOf`) but never pulls from a
sequence, and `LazySeq` pulls. It has one operator for each implementation class,
named as the class, that maps its state to what `operator()()` returns and the
state it leaves; `Next` is `Seq::next` and makes the end of an exception. A
callable is a record that names a lambda and holds its captures, or a table for a
user's function, where a missing result is an exception; so a shrink tree, which
in the code is closures within closures, is a finite value that can be compared.
`FindLocalMin` is the state machine on top:
`Accept` and `Reject` are rounds of the loop of `findLocalMin`, which is also the
loop of `shrinkTestCase`; `End` is a call that returns `Nothing` and may be
repeated; `GoOnWithCopy` goes on with a copy. `Elements` computes what a sequence
stands for by list functions, without `Next`. Real numbers are counted in halves;
characters are a sample of each class that `shrink::character` tells apart. A
copied `ContainerSeq` finds its iterator again by its position, so the two are
kept as two numbers although they are equal as long as the code is right.

The consumers (`length`, `last`, `contains`, `all`, `any`, `forEach`, `equal`, and
`RangeFor` over `SeqIterator`) take a `Seq` and pull it to its end. A container is
the tree of the vector of its elements' trees; its *strategy* says which shrinks of
an element are kept (`newShrinks`): all of them, those new to the set as it was,
those with a key that is new or the element's own.

### Numbers, Generators and MCGenerators

A generator is a record of its class and captures, and `Generate` runs it with a
`Random` and a size. A `Random` is the path of its splits; what number it yields is
a table chosen in the initial state, so all of the runs of a generator are covered
that the table tells apart. The outcome holds the value, or none where
`GenerationFailure` is thrown, every number that was drawn with the `Random` it came
from, and the tries of `suchThat` and of containers with their sizes. `Promised` is
what the documentation says of a value. In `Numbers` a word has `2 * HalfBits` bits,
so that `mulDiv` can be compared with exact arithmetic for every word and every
range. How the values shrink is in `ShrinkTrees`: `ShrinkTrees` and `Generators`
model two halves of `gen/*.hpp`.

## The runs

| Run | Instance | Shows |
|---|---|---|
| `testing_shrink` | one case to pass, sizes 0 and 1, 10 discards, trees of width 2 and depth 3 | counterexamples are reproducible local minima, replays agree and judge the case at the end of the path, giving up comes after growing, termination, refinement of `LocalMinimum` |
| `testing_search` | 3 cases, sizes to 3, 3 discards, with and without a tag | every size is tested; verdict and distribution follow from the cases |
| `random_split` | 2 path bits, counter to 3, 4 generators, 12 numbers | no number repeats, no drawn block becomes a key |
| `generators` | words of 6 bits, 3 tries in a row, about 350 generators of all classes, tables of up to 6 numbers | values are as promised, no number is used twice, giving up takes failures in a row, arithmetic is exact |
| `exec_recipe` | 2 generators, one faulty, one whose last shrink throws, 3 draws, width 2, depth 1 | replays and which exceptions become results, ingredients, splits, shrinks, termination |
| `implicit_param` | 2 parameters, 2 values, 3 objects | each binding is popped once; refinement of `DynamicScope` |
| `property_context` | 3 statements or events, 2 descriptions, 1 line, 2 tags | the worst result counts; result and framework are told all that happened |
| `commands` | 3 commands of 2 types, 3 tries, shrinks of depth 1 | sequences stay valid and minimally repaired, each command has a `Random` of its own, model and system stay in step; termination |
| `shared_impl` | 2 threads, a handle, a `Maybe` and a `Variant`, 3 implementations | no use after free, no leak, flags are true |
| `lazy_seq` | all combinators over sequences of up to 3 values or endless ones, callables that may throw; 22 families of trees over 4-bit integers, strings and containers of up to 3 elements | combinators agree with lists and consumers with them, also through copies and exceptions; descents stay in the domain, end, at a minimum, and can be walked again |
| `session` | 2 properties, 5 ways to run them, distinct ids, bytes of 4 bits, one seed of its own and another in a text | failures come back, the rest is skipped, a text is read as it was meant or refused |
| `session_shared_ids` | the same, `rc::check` only, ids may be equal | violation: a property that passed is not skipped |

Why the bounds are enough. In `testing_shrink` an index, a reset and a restart
can each go wrong only at a second sibling and a second level; three levels let a
wrong path be wrong twice. Ten discards in a row are where the size first grows,
hence the ratio of 10. In `testing_search`, 3 cases over 4 sizes exercise the
stretched remainder of `sizeFor` and 4 discards exceed the budget. `kBits = 2`
makes the word of path bits overflow, twice with `MaxBits = 4`, and
`kCounterMax = 3` ends the counter after one block: in the code these take 64
splits and 2^64 draws. Three draws are the fewest with a fixed prefix, a shrunk
draw and a regenerated one. Three objects nest a binding and a scope in a scope,
or a binding in two scopes. Three commands are the fewest where a removed one
changes the state of two others. Three implementations form a chain of captures,
so that one release deletes a whole chain while the other thread copies from it;
one `Maybe` and one `Variant` meet each other through the plain handle only, as the
types demand, and each of their assignments has both kinds of old and new value.
Three things done in a body are the fewest where two results come before a third,
or a report before the end and an event after it. In `generators` words of 6 bits
have two halves with a carry between them and the run goes through every range and
every word; types of 2 to 6 bits leave some bits in the stream, take all of them or
need the next word; sizes are below, at and above the nominal size of 4; tables of
three values make sets run out of new elements, so 3 tries stand for the 100 of the
code. In `session` a number takes two bytes and three groups of bits, lengths that
are cut leave one, two and three characters of a Base64 group, and numbers in
configurations have one digit.
In `lazy_seq` three values let a callable throw before, at and after a point; four
bits have all cases of halving and a smallest number without a negative, and the
range from -7 to 7 has distances beyond the signed type; three elements have
chunks at both ends and inside. `DescentEnds` shows that the bounds on pulled and
accepted shrinks are not reached by any tree; for endless sequences `Horizon` is
larger than what is pulled.

`CHECK_DEADLOCK FALSE` is set where the system stops: after a verdict, a walk to
a leaf, the end of a body, the value of a generator, the end of the second process, or where `MaxBits`,
`MaxLive` and `MaxDraws` are used up. It is not set for `implicit_param`,
`shared_impl` and `lazy_seq`, whose programs can always go on.

Bounds that are not in the code are named as such in the `CONSTANTS`:
`MaxShrinks`, `MaxDepth`, `MaxBits`, `MaxLive`, `MaxDraws`, `MaxCalls`, `MaxPath`,
`Width`, `MaxObjects`, `MaxReports`, `MaxDone`, `MaxCommands`, `MaxPulled`, `Horizon`. The finiteness of
shrink trees is a real assumption of `Testing`: nothing in the code bounds `shrinkTestCase`;
`lazy_seq` shows it for the library's own trees.

Fairness. `Testing`, `ExecRecipe` and `StatefulTest` assume `WF` of their next step: one
thread runs a loop, and while it can take a step it does. That a single
evaluation of the property returns is the user's business and assumed. No
fairness is assumed between threads or processes. `Termination` in `ExecRecipe`
and `StatefulTest` says that no infinite walk down the tree exists although a
step regenerates what comes after it at full size; the engine follows one such
walk, so it ends for properties of this form.

## Where the code and its documentation part

`session_shared_ids` shows that in reproduce mode a property that passed is not
skipped if another one with the same description failed; it is handed the other's
random state and reports an error, or a failure of its own. The quoted line is in
`PROJECT.json` under `findings`. What follows was met while modelling and needs no
model checker.

- Sizes. When a run ends with a single remaining case its size is 0, so the largest
  size is not the last one (`Testing.cpp:22`, `doc/configuration.md:19`). The size
  grows by one for every ten discards in a row and is not cut off at `max_size`
  (`Testing.cpp:46`).
- `seq/Transform.h:70` says that `dropWhile` drops "until the given predicate returns
  true"; it drops until it returns false.
- The "small" characters that `gen::character` prefers are those of all bits but one,
  with the sign: of a signed `char` the numbers from -64 to 63, and not only ASCII
  (`gen/Text.hpp`).
- `loadParam` takes what `operator>>` reads of a value, so `max_success=12abc` is 12
  and an unsigned parameter takes `-1`. An empty key ends the parsing of a map
  without an error (`MapParser.cpp`).
- A reproduce string that is damaged rather than cut may announce a length that no
  vector can have: `std::length_error` is not caught. One that ends before the last
  byte of a `Random` is read past its end (`Random.hpp:42`), and a compact integer of
  too many bytes is shifted beyond its width (`Serialization.hpp:193`); the model has
  both as `Undefined`, and `session` shows that a whole text never gets there.
- A property that gave up counts as failing for the exit code, but there is nothing
  to reproduce: it is skipped when the failures are reproduced.
- `apply` of a command may discard. When it does so while a shrink is repaired the
  exception ends the sequence of shrinks in silence (`Seq.hpp:46`,
  `state/gen/Commands.hpp:56`), so later shrinks are not tried.
- A map tries its keys with a value that is generated with the default `Random` and
  size 0 (`gen/Container.hpp:134`): a value generator that fails there makes the whole
  map fail.
- The shrinks of a `unique` container keep `this` of the strategy
  (`gen/Container.hpp:270`), which may be gone when they are used.
- Assigning from an empty `Seq` dereferences a null pointer (`Seq.hpp:58`), where
  constructing from one does not. Copy assignment of a `Variant` from another type
  never destroys its temporary (`Variant.hpp:168`), which matters once that type
  does not give up everything when it is moved from.
- `RC_ASSERT_THROWS` swallows whatever the expression throws, also the result of an
  `RC_PRE` in it. A fatal failure of Google Mock is passed on and not reported, on the
  assumption that the test is aborted (`gmock.h:37`).

## What is proved

Proofs hold for every value of the constants that satisfies the named assumptions
of the modules, which TLC evaluates in the runs. Most of these say that a
bound is a number or that a marker is not one of the things it marks the absence of.
`FirstAssumption` says that the first process is not given anything to reproduce;
`BodyAssumption` that events of a test framework are told from statements.

Each module has one inductive invariant, or several that are proved together, and
the theorems follow from it.

`TestingProofs`. `TypeCorrect`, `Reproducibility` (`FailureIsReproducible`),
`Minimality` (`LocallyMinimal`) and `ReplayFaithful` (`ReplayAgrees`). None of
these is inductive by itself; `IInv` adds what the engine knows in each phase:
`FailedInv`, the stored failure is a failing root; `ShrinkInv`, the recorded path
so far leads through failing nodes from that root to `best`, the index `i` is the
position in the sequence of `best`'s shrinks, and all shrinks before it do not
fail; `ResultInv`, the result is the end of such a descent; `WalkInv`, the
replayed position is that prefix of the path, inside the tree of the build that is
asked, so that a replay can only end at the end of the path or where it leaves this
tree. The lemmas say how the memory of
answers grows and that a descent, once established, survives learning more and
extends by an accepted shrink. `SizeForType` shows that the division in `sizeFor`
never has a zero divisor.

`ImplementsLocalMinimum` (`DescendsToLocalMinimum`) goes through the actions: search,
descent and verdict are steps of `LocalMinimum`, anything else is a stutter.
`VerdictIsEarned` (`VerdictMatchesCases`) is about counts: `CountInv` says that the
counters are the cardinalities of the sets of roots that were run, which hold because
every round runs a case of a new split (`VerdictInv`). `NeverGivesUpEarly`
(`GivesUpOnlyAfterGrowing`) needs `GrowthInv`: as long as the size has not grown, there
were at most ten discards for each success and those in a row. `SizesAreSpread`
(`EverySizeTested`) is arithmetic: with few discards the sizes are those of
`SizeFor`, and the stretched rest reaches the maximum and comes near every size
below it, for any numbers.

`RandomSplitProofs`. `TypeCorrect`, `NoRepeats` (`NumbersNeverRepeat`) and
`NoKeyLeaks` (`KeysNeverDrawn`). `IInv` has `LiveApart`, live generators differ in
a bit that both have, so none is an ancestor of another; `DrawnBeyond`, each live
generator is elsewhere in the tree than each drawn number, or further on in the
same stream, or beyond it by a bit or a key; `Consistent`, unset bits are 0 and a
cached block is the one of the current state. The last is why `Rekey` must clear
the bits, and the third case of `Beyond` why the bit added when the counter ends
must be a 1.

`ImplicitParamProofs`. `EachBindingIsPoppedOnce` (`EveryBindingHasOnePopper`) and
`ImplementsDynamicScope` (`IsDynamicScoping`). `Balanced`: the stack of a parameter is
ordered by level, and on each level it has one entry for each object that will pop
one, and one more if the scope has a note of it. Level 0 has no scope: the default
there is never popped. The refinement follows since the innermost entry is then the
binding of the innermost object, or the default of its scope.

`ExecRecipeProofs`. `RunsAgree` (`ReplaysAgree`), `EachDrawFits` (`IngredientsFit`),
`NoSplitTwice` (`SplitsAreSeparate`) and `OneIsShrunk` (`ShrinksReplaceOne`). `IInv` says
that the recipe is known: the callable has once drawn all of it (`Draws`), up to the
value that was shrunk, which came from the same generator; a run first replays it and
then grows (`Runs`); the second run of a case is on the way of the first (`Replays`);
what is new in a recipe is one shrink of one ingredient (`FromParent`); and a case has
a result unless the run that made its value stopped at the arguments (`Results`).

`StatefulTestProofs`. `SequencesAreValid` (`AlwaysValid`), `RepairsAreMinimal`
(`MinimalRepair`) and `ModelAndSystemInStep` (`ModelInStep`). `Loop`: the entries that the
loop has been through are valid one after the other and `state` is what they lead to.
`Repairs`: all entries but one are the parent's or were remade behind the loop, and the
one that was shrunk, as long as it is ahead, is as legal as when it was picked, for
which everything up to it must have stayed (`Shrinks`). `OwnRandoms`: an entry is
generated with the `Random` of its place, and removal and repair take entries away or
leave their Randoms. `Runs`: the system was asked
what the model was.

`ValueTypesProofs`. `NothingUsedAfterFree` (`NoUseAfterFree`), `NothingLeaks` (`NoLeak`)
and `StorageSaysWhatItHolds` (`SaysWhatItHolds`), for any number of threads, handles and
implementations. The count of an implementation is, at every step, the number of those
that will still let go of it: handles, implementations that captured it, less those
whose `retain` is still to come, and threads about to `release` it. What is not counted
yet is protected by the party it is copied from, which is counted and which no other
thread may change meanwhile (`Protected`, `Apart`); a thread that deletes is the last to
know of the implementation (`LastToKnow`).

`PropertyBodyProofs` is about `PropertyContext` too. `TypeCorrect` and `Verdict`
(`WorstCounts`) come from `IInv`, which is these, the messages explaining the type, and
the bound on reports while the body runs. `Implements`: a body, statement by statement
and with the events of the framework around it, is a behaviour of `PropertyContext`.
Every action leaves the context alone, reports to it or ends the body in one of the
`Endings`; for the assertions that follows from what their macros may make of an
evaluation (`OutcomesOfMacros`). `BodyVerdict` (`WorstCounts`) is `Verdict` carried over.
`TellsAll` (`ResultTellsAll`) compares the result with a history of any length. Its
invariant is `HistoryInv`: the log is the lines of the statements that log, the tags are
the tags of those that tag, one after the other, and the delegate has seen the rest. For
one more statement that needs induction on the length of the history, see below.

`TestSessionProofs`. `TextsAreLoadedAsMeant` (`LoadedAsMeant`), `AnnouncedComesBack`
(`ConfigurationComesBack`), `FailuresReturn` (`FailuresComeBack`), and `OthersAreSkipped`
(`OthersSkipped`) where ids are distinct. They hold for bytes of 8 or 4 bits, words of any
width, any number of properties in any framework, any ids that are strings of bytes, and
any entries a user puts beside the printed text that only disable shrinking or mean
nothing to RapidCheck. Nothing is assumed of the texts: how they are printed and read is
that of the code. The proof has a layer for each layer of the code.

1. Bytes. For each reader of `Serialization.hpp` there are three lemmas: it gives back what
   its writer wrote, whatever follows (`IntegerBack`, `CompactBack`, `RangeBack`,
   `StringBack`, `RandomBack`, `ReproduceBack`, `PairBack`, and `MapBack` for all of them); it
   leaves no more than it got (`IsRead`); and if it succeeds, it reads the same when more
   follows and leaves the more (`Extends`). From the last it follows that what has lost its
   end is never read: otherwise the whole would be read with something left, but `MapBack`
   says that nothing is.
2. Base64. Three bytes are four characters (`GroupBack`), also in the last group where some
   are missing, so any beginning of a text decodes to a beginning of the bytes
   (`Base64Part`). This is arithmetic with constant bases, proved for each of the two
   kinds of bytes. `ReproduceText` puts both layers together.
3. Quotes and pairs. A printed string is read back up to what follows it, in quotes or
   without (`QuotedBack`, `MaybeQuotePrinted`), since what follows is nothing or starts with
   a space (`Follows`), hence pair by pair a printed map (`MapComesBack`).
4. Configurations. Every parameter is read back (`ValueBack`), one that is not printed is
   the default, and the rest is ignored (`AnnouncedLoaded`, `ReproduceLoaded`); of the
   printed entry without its end, either no value is left or one that is no whole text
   (`CutRefused`).
5. The session. `SessionInv` is inductive: properties are checked in order (`FirstInv`), the
   listener's map holds what the first failure of each id failed with and nothing else
   (`MapInv`), what was printed is the text of that map and every configuration one that
   can be printed (`TextInv`), and a process has something to reproduce only if it was
   given all of that map (`SecondInv`).

What is assumed of the constants: fewer properties than a word can count, ids shorter than
that, parameters of one digit, and that the texts the first process starts with give it
nothing to reproduce.

Induction. The theorems of the library on induction take an operator, which the
provers here cannot instantiate. `LeastNumber` and `Induction` in `PropertyBodyProofs` and
`TestSessionProofs` are about sets instead: they follow from `WFMin` and `NatLessThanWellFounded`, which are first
order. With them a recursive function of a sequence is shown to exist for every length
(`UpToExists`), to agree with those for other lengths (`UpToAgrees`), and hence to make of
one more element what its definition says (`AtAppend`, `FlattenAppend`). In
`TestSessionProofs` each loop of the code is such a function (`JoinedExists`, `IntsExists`,
`InsertedExists`, `UnescapedExists`, `PairsExists` and others), and what it computes is proved by
induction on the number of rounds.

Only model-checked:

- Liveness: `Termination` in `testing_shrink`, `exec_recipe` and `commands`. The prover
  has no rule for fairness.
- The properties of `FindLocalMin` and of `Generators`. `ShrinkTrees`, `LazySeq`, `Numbers`
  and `Generators` are recursive operators, mostly mutually so, over trees, sequences and
  generators, and the prover's SMT backend does not work in a module that reaches a
  `RECURSIVE` declaration. The way around it that `TestSessionProofs` takes, recursive
  functions of a number, is not open to them: the depth of a tree is not a number known
  beforehand, and a proof would be an induction over all trees that generators can make.

## What is not modelled

- The rounds of the cipher inside `Random` (an ideal hash stands for them) and
  floating point generators (`gen::real`): out of reach of both tools. Shrinking real
  numbers is modelled in halves.
- Reporting and `show` (`Show.hpp`, `ShowType.hpp`, `Results.cpp`,
  `LogTestListener.cpp`): formatting, from which nothing flows back. The wording of
  assertions and of messages likewise.
- `gen/Arbitrary.hpp` picks a generator by type when the program is compiled, and
  `gen/Chrono.hpp` casts numbers to durations; `Any::get` trusts its caller, which
  `IngredientsFit` shows it may.
- What the macros of the test frameworks do with a result.
- Numbers of several digits in a configuration, and locales: `NumberRead` is one digit of
  what `operator>>` reads.
- Undefined behaviour of a caller's making: splitting a `Random` that has drawn,
  copying a null handle, assigning from an empty `Seq`. Each is a guard where it
  occurs.

## Plan

Every part of the inventory that keeps state has its module, and every module of a
state machine without recursive operators has its theorems. What is left:

1. The arithmetic of `Numbers` (`mulDiv`, `scaleInteger`, bits left over) for words of
   any width, once its recursive operators are functions, as those of `Serialization` are.
2. `towards` and `removeChunks` of `ShrinkSeqs` for any number and any length: what they
   yield is simpler and ends.
3. Numbers of any length in configurations.
