-------------------------- MODULE PropertyContext --------------------------
(***************************************************************************)
(* One run of a property body: the results that reach its AdapterContext   *)
(* while it runs (detail/Property.cpp), and the one that the way it ends   *)
(* is turned into (PropertyAdapter, detail/Property.hpp).  While the body  *)
(* runs any client may report: the Google Mock listener reports successes  *)
(* and failures, the unit tests of the adapter report every type.          *)
(***************************************************************************)
EXTENDS Integers, Sequences

CONSTANTS
    Descriptions,   \* of results; what tells messages apart
    MaxReports      \* bound: results reported by the body before it ends

ASSUME ContextAssumption == MaxReports \in Nat

Types == {"Success", "Failure", "Discard"}
CaseResult == [type : Types, description : Descriptions]

VARIABLES
    resultType,     \* m_resultType
    messages,       \* m_messages
    running,        \* the body has not ended
    reported        \* history: every result that was reported, in order

vars == <<resultType, messages, running, reported>>

\* How a body ends: what is returned or thrown, and the types of the result that
\* toCaseResult and the handlers of PropertyAdapter make of it.
Endings == [
    void              |-> {"Success"},
    bool              |-> {"Success", "Failure"},
    string            |-> {"Success", "Failure"},   \* returned: a failure unless empty
    CaseResult        |-> Types,                    \* returned
    throwCaseResult   |-> Types,                    \* RC_SUCCEED, RC_ASSERT, RC_PRE
    GenerationFailure |-> {"Discard"},
    exception         |-> {"Failure"},
    throwString       |-> {"Failure"},
    unknown           |-> {"Failure"}]

-----------------------------------------------------------------------------
\* Mutant: a discard does not override a failure.
reportDiscard_NotOverFailure(r) ==
    /\ r.type = "Discard"
    /\ IF resultType = "Success"
         THEN resultType' = "Discard" /\ messages' = <<r.description>>
         ELSE UNCHANGED <<resultType, messages>>

\* Only the first discard counts, and it overrides all.
reportDiscard(r) ==
    /\ r.type = "Discard"
    /\ IF resultType # "Discard"
         THEN resultType' = "Discard" /\ messages' = <<r.description>>
         ELSE UNCHANGED <<resultType, messages>>

\* Mutant: the messages of successes stay before those of failures.
reportFailure_KeepsSuccess(r) ==
    /\ r.type = "Failure"
    /\ IF resultType # "Discard"
         THEN resultType' = "Failure" /\ messages' = Append(messages, r.description)
         ELSE UNCHANGED <<resultType, messages>>

\* A failure overrides successes, and joins other failures.
reportFailure(r) ==
    /\ r.type = "Failure"
    /\ IF resultType # "Discard"
         THEN /\ resultType' = "Failure"
              /\ messages' = IF resultType = "Success" THEN <<r.description>>
                             ELSE Append(messages, r.description)
         ELSE UNCHANGED <<resultType, messages>>

\* The last success counts, if there is nothing else.
reportSuccess(r) ==
    /\ r.type = "Success"
    /\ messages' = IF resultType = "Success" THEN <<r.description>> ELSE messages
    /\ UNCHANGED resultType

reportResult(r) ==
    /\ reportDiscard(r) \/ reportFailure(r) \/ reportSuccess(r)
    /\ reported' = Append(reported, r)

\* Something in the body reports to the current context.
Report ==
    /\ running /\ Len(reported) < MaxReports
    /\ \E r \in CaseResult : reportResult(r)
    /\ UNCHANGED running

\* The body returns or throws, and the adapter reports that last.
EndAs(how, r) ==
    /\ running /\ running' = FALSE
    /\ r.type \in Endings[how] /\ reportResult(r)

End == \E how \in DOMAIN Endings, r \in CaseResult : EndAs(how, r)

Init ==
    /\ resultType = "Success" /\ messages = <<>>
    /\ running = TRUE /\ reported = <<>>

Next == Report \/ End

Spec == Init /\ [][Next]_vars

-----------------------------------------------------------------------------
(* Properties *)

TypeOK ==
    /\ resultType \in Types
    /\ messages \in Seq(Descriptions)
    /\ running \in BOOLEAN
    /\ reported \in Seq(CaseResult) /\ Len(reported) <= MaxReports + 1
    /\ messages = <<>> <=> reported = <<>>

Reported(type) == \E k \in DOMAIN reported : reported[k].type = type

\* The verdict does not depend on the order of the reports: a discard anywhere wins,
\* then a failure anywhere; what a body does last cannot hide what it did before.
WorstCounts ==
    resultType = IF Reported("Discard") THEN "Discard"
                 ELSE IF Reported("Failure") THEN "Failure" ELSE "Success"

\* What a sequence holds at some of its positions, in order.
At(s, positions) ==
    LET upTo[n \in 0..Len(s)] ==
          IF n = 0 THEN <<>>
          ELSE IF n \in positions THEN Append(upTo[n - 1], s[n]) ELSE upTo[n - 1]
    IN upTo[Len(s)]

DescriptionsOf(type) ==
    At([k \in DOMAIN reported |-> reported[k].description],
       {k \in DOMAIN reported : reported[k].type = type})

\* The description of the result explains that verdict and nothing else: the first
\* discard, every failure in order, or the last success.
MessagesExplain ==
    reported # <<>> =>
      LET those == DescriptionsOf(resultType)
      IN messages = CASE resultType = "Discard" -> <<Head(those)>>
                      [] resultType = "Failure" -> those
                      [] resultType = "Success" -> <<those[Len(those)]>>
=============================================================================
