---------------------------- MODULE TestSession ----------------------------
(***************************************************************************)
(* A test program of several properties, run twice.  In the first process  *)
(* the listener collects what it takes to reproduce the failures and       *)
(* prints it at exit (detail/ReproduceListener.cpp).  The second gets some *)
(* of what was printed, perhaps with entries added or its end lost, in     *)
(* RC_PARAMS (detail/Configuration.cpp), and checkProperty (Check.cpp)     *)
(* tests, skips or reproduces.                                             *)
(*                                                                         *)
(* What testing one property does is in module Testing.  Here it is its    *)
(* result.  How texts are read and written is in module Configuration.     *)
(***************************************************************************)
EXTENDS Configuration

CONSTANTS
    Properties,     \* how many properties the program checks, in order
    Frameworks,     \* how: by check() or in a test framework
    Descriptions,   \* of properties that check() is called with, and NoId
    TestName,       \* property |-> the name of its test, in a framework
    DistinctIds,    \* whether no two properties have the same id
    Reproduces,     \* what leads to failing test cases
    Seeds, Defaults,    \* random seeds, and the configuration with none of them
    FirstParams,    \* texts in RC_PARAMS of the first process
    Extras          \* maps of entries that are added to a printed text

Names == 1..Properties
NoId == <<>>        \* of a property that has no id
NoEntries == [x \in {} |-> NoId]

\* Entries that only disable shrinking, or mean nothing to RapidCheck.
IsExtra(map) ==
    /\ IsFiniteSet(DOMAIN map)
    /\ \A k \in DOMAIN map : k \in Seq(STRING) \ {<<>>} /\ map[k] \in Seq(STRING)
    /\ \A p \in Params : Key(p) \in DOMAIN map => p = "noshrink" /\ map[Key(p)] = <<"1">>

ASSUME SessionAssumption ==
    /\ Properties \in Nat \ {0} /\ Properties < Word
    /\ Frameworks \subseteq {"check", "gtest", "boost_test", "catch", "doctest"}
    /\ NoId \in Descriptions /\ Descriptions \subseteq Lists(Bytes) /\ DistinctIds \in BOOLEAN
    /\ \A p \in Names : TestName[p] \in Lists(Bytes)
    /\ Reproduces \subseteq Reproductions
    /\ Seeds \subseteq 0..9
    /\ IsConfiguration(Defaults) /\ Defaults.reproduce = NoEntries /\ Defaults.noshrink = FALSE
    /\ \A extra \in Extras : IsExtra(extra)

VARIABLES
    framework, description,
    config,         \* of the process
    meant,          \* what the user means it to be
    cut,            \* whether the text in RC_PARAMS has lost its end
    firstConfig,    \* of the first process
    first, second,  \* process |-> property |-> its TestResult, once checked
    process,        \* "off", "first", "exited", "second", "over", "refused", "undefined"
    next,           \* the property that is checked next
    reproduceMap,   \* of the listener of the first process
    printed         \* the text it printed

vars == <<framework, description, config, meant, cut, firstConfig, first, second,
          process, next, reproduceMap, printed>>

Unset == <<>>

WithoutPath(reproduce) == [reproduce EXCEPT !.shrinkPath = <<>>]

\* A SuccessResult says if any test case was run; numSuccess is 0 otherwise.
Success(ran) == [type |-> "Success", ran |-> ran]
Failure(reproduce) == [type |-> "Failure", reproduce |-> reproduce]
GaveUp == [type |-> "GaveUp"]
Error == [type |-> "Error"]

Learn(f, x, v) == [y \in DOMAIN f \cup {x} |-> IF x = y THEN v ELSE f[y]]

\* check() takes the description for an id, Google Test and Boost Test the name of the
\* test; in a section of Catch or doctest there is none.
checkId(p)     == description[p]
gtestId(p)     == TestName[p]
boostTestId(p) == TestName[p]
catchId(p)     == NoId
doctestId(p)   == NoId

id(p) ==
    CASE framework = "check"      -> checkId(p)
      [] framework = "gtest"      -> gtestId(p)
      [] framework = "boost_test" -> boostTestId(p)
      [] framework = "catch"      -> catchId(p)
      [] framework = "doctest"    -> doctestId(p)

-----------------------------------------------------------------------------
(* Configurations *)

\* Without RC_PARAMS, only the seed is chosen.
LoadedFrom(text, seed) ==
    LET config0 == [Defaults EXCEPT !.seed = seed]
    IN IF text = Unset THEN [type |-> "loaded", config |-> config0]
       ELSE configFromString(text, config0)

\* The first process is not given anything to reproduce.
ASSUME FirstAssumption ==
    \A text \in FirstParams, seed \in Seeds :
      LET outcome == LoadedFrom(text, seed)
      IN outcome.type = "loaded" => outcome.config.reproduce = NoEntries

\* loadConfiguration, in a process that then goes on as this one: a text that is
\* refused makes it exit.
Load(text, seed, running) ==
    \E outcome \in {LoadedFrom(text, seed)} :
       \/ /\ outcome.type = "loaded"
          /\ process' = running /\ config' = outcome.config
       \/ /\ outcome.type \in {"refused", "undefined"}
          /\ process' = outcome.type /\ config' = Defaults

Start ==
    /\ process = "off"
    /\ \E text \in FirstParams, seed \in Seeds :
         Load(text, seed, "first") /\ firstConfig' = config' /\ meant' = config'
    /\ next' = 1
    /\ UNCHANGED <<framework, description, cut, first, second, reproduceMap, printed>>

-----------------------------------------------------------------------------
(* The first process *)

\* testProperty may end in any way; without shrinking, a failure has no path.
TestResults ==
    {Success(TRUE), GaveUp}
      \cup {Failure(IF config.noshrink THEN WithoutPath(r) ELSE r) : r \in Reproduces}

\* ReproduceListener::onTestFinished: emplace keeps the first.
onTestFinished(p, result) ==
    IF /\ id(p) # NoId /\ result.type = "Failure"
       /\ id(p) \notin DOMAIN reproduceMap
    THEN Learn(reproduceMap, id(p), result.reproduce) ELSE reproduceMap

\* A property is checked, and the listener told.
CheckFirst ==
    /\ process = "first" /\ next <= Properties
    /\ \E result \in TestResults :
         /\ first' = Learn(first, next, result)
         /\ reproduceMap' = onTestFinished(next, result)
    /\ next' = next + 1
    /\ UNCHANGED <<framework, description, config, meant, cut, firstConfig, second,
                   process, printed>>

\* The program returns, and the destructor of the listener prints.
Exit ==
    /\ process = "first" /\ next > Properties
    /\ process' = "exited"
    /\ printed' = IF reproduceMap = NoEntries THEN Unset
                  ELSE <<"reproduce", Equals>> \o reproduceMapToString(reproduceMap)
    /\ UNCHANGED <<framework, description, config, meant, cut, firstConfig, first, second,
                   next, reproduceMap>>

\* A property brings the process down, which prints nothing.
Crash ==
    /\ process = "first" /\ process' = "exited"
    /\ UNCHANGED <<framework, description, config, meant, cut, firstConfig, first, second,
                   next, reproduceMap, printed>>

-----------------------------------------------------------------------------
(* The second process: the same program *)

Again(text, seed, intended) ==
    /\ process = "exited"
    /\ Load(text, seed, "second")
    /\ next' = 1 /\ meant' = intended
    /\ UNCHANGED <<framework, description, firstConfig, first, second, reproduceMap, printed>>

RunAfresh ==
    /\ \E seed \in Seeds : Again(Unset, seed, [Defaults EXCEPT !.seed = seed])
    /\ UNCHANGED cut

\* With what the first process said it is using.
RunAsAnnounced ==
    /\ \E seed \in Seeds : Again(ConfigToMinimalString(firstConfig, Defaults), seed, firstConfig)
    /\ UNCHANGED cut

\* With what it printed at exit, and entries of the user's, in either style of quotes.
RunToReproduce ==
    /\ printed # Unset
    /\ \E seed \in Seeds, extra \in Extras, doubleQuote \in BOOLEAN :
         Again(printed \o <<Space>> \o mapToString(extra, doubleQuote), seed,
               [Defaults EXCEPT !.seed = seed, !.reproduce = reproduceMap,
                                !.noshrink = Key("noshrink") \in DOMAIN extra])
    /\ UNCHANGED cut

\* With a part of it only.
RunWithCut ==
    /\ printed # Unset /\ cut' = TRUE
    /\ \E seed \in Seeds, n \in 0..(Len(printed) - 1) :
         Again(SubSeq(printed, 1, n), seed, [Defaults EXCEPT !.seed = seed])

\* With the same parameters, the same happens again.
SameParams == config = firstConfig

\* checkProperty: no entry, so the property is tested.
CheckTested ==
    /\ process = "second" /\ next <= Properties /\ config.reproduce = NoEntries
    /\ \E result \in IF SameParams /\ next \in DOMAIN first THEN {first[next]} ELSE TestResults :
         second' = Learn(second, next, result)
    /\ next' = next + 1
    /\ UNCHANGED <<framework, description, config, meant, cut, firstConfig, first, process,
                   reproduceMap, printed>>

Found(p) == id(p) # NoId /\ id(p) \in DOMAIN config.reproduce

\* Mutant: a property without an entry counts as tested.
Skipped_Tested(p) == Success(TRUE)

\* No test case is run, and that counts as success.
Skipped(p) == Success(FALSE)

\* checkProperty: there are entries but not for this one.
CheckSkipped ==
    /\ process = "second" /\ next <= Properties /\ config.reproduce # NoEntries
    /\ ~ Found(next)
    /\ second' = Learn(second, next, Skipped(next))
    /\ next' = next + 1
    /\ UNCHANGED <<framework, description, config, meant, cut, firstConfig, first, process,
                   reproduceMap, printed>>

\* Mutant: without shrinking, the path is walked all the same.
ToReproduce_IgnoreNoshrink(reproduce) == reproduce

\* The shrink path is cleared if shrinking is disabled.
ToReproduce(reproduce) == IF config.noshrink THEN WithoutPath(reproduce) ELSE reproduce

\* reproduceProperty: what the property failed with, shrunk or not, leads to that
\* failure; what another one failed with leads to any test case or to none.
Reproduced(p, reproduce) ==
    IF /\ p \in DOMAIN first /\ first[p].type = "Failure"
       /\ reproduce \in {first[p].reproduce, WithoutPath(first[p].reproduce)}
    THEN {Failure(reproduce)} ELSE {Error, Failure(reproduce)}

\* checkProperty: the entry with its id is reproduced; no listener is told.
CheckReproduced ==
    /\ process = "second" /\ next <= Properties /\ Found(next)
    /\ \E result \in Reproduced(next, ToReproduce(config.reproduce[id(next)])) :
         second' = Learn(second, next, result)
    /\ next' = next + 1
    /\ UNCHANGED <<framework, description, config, meant, cut, firstConfig, first, process,
                   reproduceMap, printed>>

Over ==
    /\ process = "second" /\ next > Properties
    /\ process' = "over"
    /\ UNCHANGED <<framework, description, config, meant, cut, firstConfig, first, second,
                   next, reproduceMap, printed>>

-----------------------------------------------------------------------------
Init ==
    /\ framework \in Frameworks
    /\ description \in [Names -> IF framework = "check" THEN Descriptions ELSE {NoId}]
    /\ DistinctIds => \A p, q \in Names : p # q /\ id(p) = id(q) => id(p) = NoId
    /\ config = Defaults /\ meant = Defaults /\ firstConfig = Defaults /\ cut = FALSE
    /\ first = NoEntries /\ second = NoEntries
    /\ process = "off" /\ next = 1
    /\ reproduceMap = NoEntries /\ printed = Unset

Next ==
    \/ Start \/ CheckFirst \/ Exit \/ Crash
    \/ RunAfresh \/ RunAsAnnounced \/ RunToReproduce \/ RunWithCut
    \/ CheckTested \/ CheckSkipped \/ CheckReproduced \/ Over

Spec == Init /\ [][Next]_vars

-----------------------------------------------------------------------------
(* Properties *)

Failed(results, p) == p \in DOMAIN results /\ results[p].type = "Failure"

\* Of all properties with its id, the first that failed.
FirstFailed(p) ==
    /\ Failed(first, p) /\ id(p) # NoId
    /\ \A q \in DOMAIN first : q < p /\ id(q) = id(p) => ~ Failed(first, q)

Reproducing == config.reproduce # NoEntries

\* In a process that reproduces, a failure comes back with the same test case, or
\* with the one it was shrunk from if shrinking is now disabled (ReproduceListener,
\* checkProperty; with the same id, only the first is kept).
FailuresComeBack ==
    Reproducing =>
      \A p \in DOMAIN second :
        FirstFailed(p) =>
          second[p] = Failure(IF config.noshrink THEN WithoutPath(first[p].reproduce)
                              ELSE first[p].reproduce)

\* "Properties that did not fail in the original run will be skipped entirely", also
\* those that gave up (checkProperty, doc/debugging.md).
OthersSkipped ==
    Reproducing =>
      \A p \in DOMAIN second : ~ Failed(first, p) => second[p] = Success(FALSE)

\* A text that is whole gives the configuration that was meant, whatever else is in it
\* and however it is quoted; one that has lost its end is refused, or says nothing at
\* all, and never reproduces a part of the failures (Configuration.cpp, MapParser.cpp,
\* Serialization.hpp, Base64.cpp).
LoadedAsMeant ==
    /\ process \in {"second", "over"} => config = meant
    /\ process \in {"refused", "undefined"} => cut \/ firstConfig = Defaults

\* The line "Using configuration" of any process, given to another one, makes it use
\* the same (configToMinimalString, loadConfiguration).
ConfigurationComesBack ==
    process \in {"first", "second"} /\ next = 1 =>
      \A seed \in Seeds :
        LoadedFrom(ConfigToMinimalString(config, Defaults), seed)
          = [type |-> "loaded", config |-> config]
=============================================================================
