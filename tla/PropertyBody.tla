---------------------------- MODULE PropertyBody ----------------------------
(***************************************************************************)
(* The body of a property, statement by statement: assertions, log, tags,  *)
(* and the Google Mock listener, which reports to the context of the body  *)
(* when one runs and passes everything else on to the listener that it     *)
(* replaced.  PropertyContext says what the context does with results.     *)
(***************************************************************************)
EXTENDS PropertyContext, SequencesExt

CONSTANTS
    Events,         \* the other events of the framework
    Lines, Tags,    \* what is logged, and what cases are tagged with
    MaxDone         \* bound: statements and events

\* What a body does, and what is told of it to the listener, in the history.
Statements ==
    {"RC_ASSERT", "RC_ASSERT_FALSE", "RC_SUCCEED_IF", "RC_PRE", "RC_FAIL", "RC_SUCCEED",
     "RC_DISCARD", "RC_ASSERT_THROWS", "RC_ASSERT_THROWS_AS", "return", "report",
     "log", "tag", "classify"}
PartResults == {"kSuccess", "kNonFatalFailure", "kFatalFailure"}

ASSUME BodyAssumption ==
    MaxDone \in Nat /\ Events \cap (Statements \cup PartResults) = {}

VARIABLES
    m_logStream, m_tags,    \* of the context
    m_delegate,             \* whether the listener has one,
    passedOn,               \* and what it was passed
    done                    \* history: what happened, in order

bodyVars == <<vars, m_logStream, m_tags, m_delegate, passedOn, done>>

\* Outside of a property the default context prints lines, ignores tags, and
\* takes no report.
InProperty == running

Did(what) == Len(done) < MaxDone /\ done' = Append(done, what)

-----------------------------------------------------------------------------
(* Assertions.  Evaluating an expression gives a truth value or throws; a   *)
(* nested assertion throws a CaseResult.                                    *)

Exceptions == {"GenerationFailure", "exception", "unknown"} \cup Types

\* Mutant: RC_SUCCEED_IF succeeds unless its condition is true.
Conditional_Inverted == [
    RC_ASSERT       |-> [type |-> "Failure", expected |-> "true"],
    RC_ASSERT_FALSE |-> [type |-> "Failure", expected |-> "false"],
    RC_SUCCEED_IF   |-> [type |-> "Success", expected |-> "true"],
    RC_PRE          |-> [type |-> "Discard", expected |-> "true"]]

\* The result that is thrown unless the condition is as expected.
Conditional == [
    RC_ASSERT       |-> [type |-> "Failure", expected |-> "true"],
    RC_ASSERT_FALSE |-> [type |-> "Failure", expected |-> "false"],
    RC_SUCCEED_IF   |-> [type |-> "Success", expected |-> "false"],
    RC_PRE          |-> [type |-> "Discard", expected |-> "true"]]

Unconditional == [RC_FAIL |-> "Failure", RC_SUCCEED |-> "Success", RC_DISCARD |-> "Discard"]

GoesOn == "goes on"

doAssert(macro, evaluation) ==
    CASE evaluation \in Exceptions -> evaluation
      [] evaluation = Conditional[macro].expected -> GoesOn
      [] OTHER -> Conditional[macro].type

\* Any exception will do, also one that would have failed or discarded the case.
AssertThrows(evaluation) == IF evaluation \in Exceptions THEN GoesOn ELSE "Failure"

AssertThrowsAs(exception, evaluation) ==
    IF evaluation = exception THEN GoesOn ELSE "Failure"

\* An exception reaches the handlers of PropertyAdapter.
Caught(thrown, r) ==
    EndAs(IF thrown \in Types THEN "throwCaseResult" ELSE thrown, r)

\* The macro that evaluates an expression ends the body by what it throws.
Assertion(macro, evaluation, outcome) ==
    /\ running /\ Did([does |-> macro, evaluation |-> evaluation])
    /\ IF outcome = GoesOn THEN UNCHANGED vars
       ELSE \E r \in CaseResult : (outcome \in Types => r.type = outcome) /\ Caught(outcome, r)
    /\ UNCHANGED <<m_logStream, m_tags, m_delegate, passedOn>>

MakeAssertion ==
    \/ \E macro \in DOMAIN Conditional, e \in {"true", "false"} \cup Exceptions :
         Assertion(macro, e, doAssert(macro, e))
    \/ \E macro \in DOMAIN Unconditional :
         Assertion(macro, "none", Unconditional[macro])
    \/ \E e \in {"none"} \cup Exceptions : Assertion("RC_ASSERT_THROWS", e, AssertThrows(e))
    \/ \E e \in {"none"} \cup Exceptions :
         Assertion("RC_ASSERT_THROWS_AS", e, AssertThrowsAs("exception", e))

\* The body returns a value of a type that toCaseResult takes.
Return ==
    /\ \E how \in {"void", "bool", "string", "CaseResult"}, r \in CaseResult :
         EndAs(how, r) /\ Did([does |-> "return", type |-> r.type])
    /\ UNCHANGED <<m_logStream, m_tags, m_delegate, passedOn>>

\* Anything else that finds the context through its ImplicitParam.
ReportToContext ==
    /\ Report /\ Did([does |-> "report", type |-> Last(reported').type])
    /\ UNCHANGED <<m_logStream, m_tags, m_delegate, passedOn>>

-----------------------------------------------------------------------------
(* Log and tags *)

RC_LOG ==
    /\ \E line \in Lines :
         /\ Did([does |-> "log", line |-> line, inProperty |-> InProperty])
         /\ m_logStream' = IF InProperty THEN Append(m_logStream, line) ELSE m_logStream
    /\ UNCHANGED <<vars, m_tags, m_delegate, passedOn>>

AddTags(what, tags) ==
    /\ Did(what)
    /\ m_tags' = IF InProperty THEN m_tags \o tags ELSE m_tags
    /\ UNCHANGED <<vars, m_logStream, m_delegate, passedOn>>

RC_TAG ==
    \E t, u \in Tags :
      AddTags([does |-> "tag", tags |-> <<t, u>>, inProperty |-> InProperty], <<t, u>>)

\* Mutant: without tags of its own, a condition that holds adds none.
Classify_NotByCondition(holds, condition, tags) == IF holds THEN tags ELSE <<>>

\* Without tags of its own, a condition that holds is the tag.
Classify(holds, condition, tags) ==
    IF ~holds THEN <<>> ELSE IF tags = <<>> THEN <<condition>> ELSE tags

RC_CLASSIFY ==
    \E holds \in BOOLEAN, c \in Tags, tags \in {<<>>} \cup {<<t>> : t \in Tags} :
      AddTags([does |-> "classify", holds |-> holds, condition |-> c, tags |-> tags,
               inProperty |-> InProperty], Classify(holds, c, tags))

-----------------------------------------------------------------------------
(* RapidCheckListener *)

\* Mutant: what the context has taken is passed on too.
PassOn_Always(event, taken) ==
    passedOn' = IF m_delegate THEN Append(passedOn, event) ELSE passedOn

\* Without a delegate it is printed, or dropped.
PassOn(event, taken) ==
    passedOn' = IF m_delegate /\ ~taken THEN Append(passedOn, event) ELSE passedOn

\* Fatal failures are not reported.
OnTestPartResult ==
    /\ \E type \in PartResults, d \in Descriptions :
         LET event == [does |-> type, description |-> d, inProperty |-> InProperty]
             taken == type # "kFatalFailure" /\ InProperty
         IN /\ Did(event) /\ PassOn(event, taken)
            /\ IF ~taken THEN UNCHANGED <<resultType, messages, reported>>
               ELSE /\ Len(reported) < MaxReports
                    /\ reportResult([type |-> IF type = "kSuccess" THEN "Success" ELSE "Failure",
                                     description |-> d])
    /\ UNCHANGED <<running, m_logStream, m_tags, m_delegate>>

\* OnTestStart and the other handlers
OnOther ==
    /\ \E name \in Events :
         LET event == [does |-> name, inProperty |-> InProperty]
         IN Did(event) /\ PassOn(event, FALSE)
    /\ UNCHANGED <<vars, m_logStream, m_tags, m_delegate>>

-----------------------------------------------------------------------------
BodyInit ==
    /\ Init
    /\ m_logStream = <<>> /\ m_tags = <<>>
    /\ m_delegate \in BOOLEAN /\ passedOn = <<>>
    /\ done = <<>>

BodyNext ==
    \/ MakeAssertion \/ Return \/ ReportToContext
    \/ RC_LOG \/ RC_TAG \/ RC_CLASSIFY
    \/ OnTestPartResult \/ OnOther

BodySpec == BodyInit /\ [][BodyNext]_bodyVars

\* AdapterContext::result
Result == [type |-> resultType, messages |-> messages, log |-> m_logStream, tags |-> m_tags]

-----------------------------------------------------------------------------
(* Properties *)

Happened(Test(_)) == \E k \in DOMAIN done : Test(done[k])

Those(Test(_)) == At(done, {k \in DOMAIN done : Test(done[k])})

\* What escapes from the expression of an assertion that is about its value.
Escapes(h, exceptions) == h.does \in DOMAIN Conditional /\ h.evaluation \in exceptions

\* What doc/assertions.md and doc/properties.md say discards a case, and fails it.
Discards(h) ==
    \/ h.does = "RC_PRE" /\ h.evaluation = "false"
    \/ h.does = "RC_DISCARD"
    \/ Escapes(h, {"GenerationFailure", "Discard"})
    \/ h.does \in {"return", "report"} /\ h.type = "Discard"

FailsCase(h) ==
    \/ h.does = "RC_ASSERT" /\ h.evaluation = "false"
    \/ h.does = "RC_ASSERT_FALSE" /\ h.evaluation = "true"
    \/ h.does = "RC_ASSERT_THROWS" /\ h.evaluation = "none"
    \/ h.does = "RC_ASSERT_THROWS_AS" /\ h.evaluation # "exception"
    \/ h.does = "RC_FAIL"
    \/ Escapes(h, {"exception", "unknown", "Failure"})
    \/ h.does = "kNonFatalFailure" /\ h.inProperty
    \/ h.does \in {"return", "report"} /\ h.type = "Failure"

VerdictDocumented ==
    Result.type = IF Happened(Discards) THEN "Discard"
                  ELSE IF Happened(FailsCase) THEN "Failure" ELSE "Success"

\* What ends a body; reporting, to the context or to the framework, does not.
EndsBody(h) ==
    \/ h.does \in {"return", "RC_SUCCEED"}
    \/ h.does = "RC_SUCCEED_IF" /\ h.evaluation = "true"
    \/ Escapes(h, Exceptions)
    \/ h.does \notin {"report", "kNonFatalFailure"} /\ (Discards(h) \/ FailsCase(h))

EndDocumented == running <=> ~Happened(EndsBody)

IsLog(h) == h.does = "log" /\ h.inProperty
AddsTags(h) == h.does \in {"tag", "classify"} /\ h.inProperty

\* What doc/distribution.md says a tag or a classification adds.
TagsOf(h) ==
    CASE h.does = "tag"                                     -> h.tags
      [] h.does = "classify" /\ ~h.holds                    -> <<>>
      [] h.does = "classify" /\ h.holds /\ h.tags # <<>>    -> h.tags
      [] h.does = "classify" /\ h.holds /\ h.tags = <<>>    -> <<h.condition>>

LogAndTagsKept ==
    /\ Result.log = [k \in DOMAIN Those(IsLog) |-> Those(IsLog)[k].line]
    /\ Result.tags = FlattenSeq([k \in DOMAIN Those(AddsTags) |-> TagsOf(Those(AddsTags)[k])])

NotTaken(h) ==
    \/ h.does \in Events \cup {"kFatalFailure"}
    \/ h.does \in PartResults /\ ~h.inProperty

\* What the framework saw is what no property took, in order.
DelegateSeesRest == m_delegate => passedOn = Those(NotTaken)

\* The result of a case tells all that happened in its body, as it is documented:
\* the verdict, the messages that explain it, the log and the tags, however the
\* body ended; and what is not in it the framework has seen, and only that
\* (PropertyAdapter, AdapterContext, Assertions.h, RapidCheckListener).
ResultTellsAll ==
    /\ VerdictDocumented /\ EndDocumented
    /\ MessagesExplain /\ LogAndTagsKept /\ DelegateSeesRest
=============================================================================
