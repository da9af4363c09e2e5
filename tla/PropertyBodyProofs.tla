------------------------- MODULE PropertyBodyProofs -------------------------
(***************************************************************************)
(* Theorems about PropertyContext and PropertyBody, for any descriptions,  *)
(* lines, tags and events, and any number of reports and statements.       *)
(*                                                                         *)
(* At and FlattenSeq are recursive functions of a sequence.  What they     *)
(* make of one more element is proved by induction on sets of numbers.     *)
(***************************************************************************)
EXTENDS PropertyBody, SequenceTheorems, WellFoundedInduction, TLAPS

-----------------------------------------------------------------------------
(* Induction, and recursive functions of a sequence *)

\* Every set of numbers that is not empty has a least one.
LEMMA LeastNumber ==
    ASSUME NEW T, T \subseteq Nat, T # {}
    PROVE  \E x \in T : \A y \in T : ~ (y < x)
<1> DEFINE R == OpToRel(<, Nat)
<1>1. IsWellFoundedOn(R, Nat)
  BY NatLessThanWellFounded
<1>2. \E x \in T : \A y \in T : ~ (<<y, x>> \in R)
  <2> HIDE DEF R
  <2> QED
    BY <1>1, WFMin, Zenon
<1>3. \A x, y \in Nat : y < x => <<y, x>> \in R
  BY DEF OpToRel
<1> QED
  BY <1>2, <1>3

\* Induction, for a set of numbers.
LEMMA Induction ==
    ASSUME NEW S, 0 \in S, \A n \in Nat : n \in S => n + 1 \in S
    PROVE  Nat \subseteq S
<1> SUFFICES ASSUME Nat \ S # {} PROVE FALSE
  OBVIOUS
<1>1. PICK x \in Nat \ S : \A y \in Nat \ S : ~ (y < x)
  BY LeastNumber
<1>2. x # 0 /\ x - 1 \in Nat
  OBVIOUS
<1>3. x - 1 \in S
  BY <1>1, <1>2
<1> QED
  BY <1>2, <1>3

\* The function by which At is defined, to the position m.
Step(s, positions, before, n) == IF n \in positions THEN Append(before, s[n]) ELSE before

IsUpTo(f, s, positions, m) ==
    f = [n \in 0..m |-> IF n = 0 THEN <<>> ELSE Step(s, positions, f[n - 1], n)]

LEMMA UpToExists ==
    ASSUME NEW s, NEW positions, NEW m \in Nat
    PROVE  \E f : IsUpTo(f, s, positions, m)
<1> DEFINE S == {n \in Nat : \E f : IsUpTo(f, s, positions, n)}
<1>1. 0 \in S
  <2> DEFINE f == [n \in 0..0 |-> <<>>]
  <2>1. IsUpTo(f, s, positions, 0)
    BY DEF IsUpTo
  <2> QED
    BY <2>1
<1>2. ASSUME NEW n \in Nat, n \in S
      PROVE  n + 1 \in S
  <2>1. PICK f : IsUpTo(f, s, positions, n)
    BY <1>2
  <2> DEFINE g == [k \in 0..(n + 1) |->
                     IF k = n + 1 THEN Step(s, positions, f[n], n + 1) ELSE f[k]]
  <2>2. \A k \in 0..n : f[k] = IF k = 0 THEN <<>> ELSE Step(s, positions, f[k - 1], k)
    BY <2>1 DEF IsUpTo
  <2>3. \A k \in 0..(n + 1) : g[k] = IF k = 0 THEN <<>> ELSE Step(s, positions, g[k - 1], k)
    BY <2>2
  <2>4. g = [k \in 0..(n + 1) |-> IF k = 0 THEN <<>> ELSE Step(s, positions, g[k - 1], k)]
    BY <2>3
  <2>5. IsUpTo(g, s, positions, n + 1)
    BY <2>4 DEF IsUpTo
  <2> QED
    BY <2>5
<1>3. Nat \subseteq S
  <2> HIDE DEF S
  <2> QED
    BY <1>1, <1>2, Induction
<1> QED
  BY <1>3

\* It depends on what is there to that position only.
LEMMA UpToAgrees ==
    ASSUME NEW s, NEW t, NEW P, NEW Q, NEW m \in Nat, NEW n \in Nat, NEW f, NEW g,
           IsUpTo(f, s, P, m), IsUpTo(g, t, Q, n),
           NEW j \in Nat, j <= m, j <= n,
           \A k \in 1..j : s[k] = t[k] /\ (k \in P <=> k \in Q)
    PROVE  f[j] = g[j]
<1> DEFINE S == {k \in Nat : k <= j => f[k] = g[k]}
<1>1. \A k \in 0..m : f[k] = IF k = 0 THEN <<>> ELSE Step(s, P, f[k - 1], k)
  BY DEF IsUpTo
<1>2. \A k \in 0..n : g[k] = IF k = 0 THEN <<>> ELSE Step(t, Q, g[k - 1], k)
  BY DEF IsUpTo
<1>3. 0 \in S
  BY <1>1, <1>2
<1>4. ASSUME NEW k \in Nat, k \in S
      PROVE  k + 1 \in S
  <2> SUFFICES ASSUME k + 1 <= j PROVE f[k + 1] = g[k + 1]
    OBVIOUS
  <2>1. f[k] = g[k]
    BY <1>4
  <2>2. f[k + 1] = Step(s, P, f[k], k + 1) /\ g[k + 1] = Step(t, Q, g[k], k + 1)
    BY <1>1, <1>2
  <2> QED
    BY <2>1, <2>2 DEF Step
<1>5. Nat \subseteq S
  <2> HIDE DEF S
  <2> QED
    BY <1>3, <1>4, Induction
<1> QED
  BY <1>5

\* At is its last value.
LEMMA AtUpTo ==
    ASSUME NEW s, NEW P, Len(s) \in Nat
    PROVE  \E f : IsUpTo(f, s, P, Len(s)) /\ At(s, P) = f[Len(s)]
<1>1. \E f : IsUpTo(f, s, P, Len(s))
  BY UpToExists
<1>2. IsUpTo(CHOOSE f : IsUpTo(f, s, P, Len(s)), s, P, Len(s))
  BY <1>1
<1>3. At(s, P) = (CHOOSE f : IsUpTo(f, s, P, Len(s)))[Len(s)]
  BY DEF At, IsUpTo, Step
<1> QED
  BY <1>2, <1>3

\* The same positions up to n.
SameTo(P, Q, n) == \A k \in 1..n : k \in P <=> k \in Q

\* One more element is there at the end, or not at all.
LEMMA AtAppend ==
    ASSUME NEW S, NEW s \in Seq(S), NEW x \in S, NEW P, NEW Q,
           SameTo(P, Q, Len(s))
    PROVE  /\ Len(s) + 1 \in Q => At(Append(s, x), Q) = Append(At(s, P), x)
           /\ Len(s) + 1 \notin Q => At(Append(s, x), Q) = At(s, P)
<1> DEFINE t == Append(s, x)
           m == Len(s)
<1>1. m \in Nat /\ Len(t) = m + 1 /\ t[m + 1] = x /\ \A k \in 1..m : s[k] = t[k]
  BY AppendProperties, LenProperties
<1>2. PICK f : IsUpTo(f, s, P, m) /\ At(s, P) = f[m]
  BY <1>1, AtUpTo
<1>3. PICK g : IsUpTo(g, t, Q, m + 1) /\ At(t, Q) = g[m + 1]
  <2> HIDE DEF t
  <2> QED
    BY <1>1, AtUpTo
<1> HIDE DEF m, t
<1>4. f[m] = g[m]
  BY <1>1, <1>2, <1>3, UpToAgrees DEF m, SameTo
<1>5. g[m + 1] = Step(t, Q, g[m], m + 1)
  BY <1>1, <1>3 DEF IsUpTo
<1> QED
  BY <1>1, <1>2, <1>3, <1>4, <1>5 DEF Step, m, t

LEMMA AtEmpty == \A P : At(<<>>, P) = <<>>
<1> TAKE P
<1>1. PICK f : IsUpTo(f, <<>>, P, 0) /\ At(<<>>, P) = f[0]
  BY AtUpTo
<1> QED
  BY <1>1 DEF IsUpTo

LEMMA AtType ==
    ASSUME NEW S, NEW s \in Seq(S), NEW P
    PROVE  At(s, P) \in Seq(S)
<1>1. Len(s) \in Nat /\ \A k \in 1..Len(s) : s[k] \in S
  BY LenProperties, ElementOfSeq
<1>2. PICK f : IsUpTo(f, s, P, Len(s)) /\ At(s, P) = f[Len(s)]
  BY <1>1, AtUpTo
<1> DEFINE T == {n \in Nat : n <= Len(s) => f[n] \in Seq(S)}
<1>3. \A k \in 0..Len(s) : f[k] = IF k = 0 THEN <<>> ELSE Step(s, P, f[k - 1], k)
  BY <1>2 DEF IsUpTo
<1>4. 0 \in T
  <2>1. f[0] = <<>>
    BY <1>1, <1>3
  <2> QED
    BY <2>1, EmptySeq
<1>5. ASSUME NEW k \in Nat, k \in T
      PROVE  k + 1 \in T
  <2> SUFFICES ASSUME k + 1 <= Len(s) PROVE f[k + 1] \in Seq(S)
    OBVIOUS
  <2>1. f[k] \in Seq(S) /\ s[k + 1] \in S
    BY <1>1, <1>5
  <2>2. f[k + 1] = Step(s, P, f[k], k + 1)
    BY <1>1, <1>3
  <2> QED
    BY <2>1, <2>2, AppendProperties DEF Step
<1>6. Nat \subseteq T
  <2> HIDE DEF T
  <2> QED
    BY <1>4, <1>5, Induction
<1> QED
  BY <1>1, <1>2, <1>6

-----------------------------------------------------------------------------
(* The context *)

\* What the verdict and the messages rest on: a step reports at most one result, and
\* what was not reported has no descriptions.
IInv ==
    /\ TypeOK /\ WorstCounts /\ MessagesExplain
    /\ running => Len(reported) <= MaxReports
    /\ \A type \in Types : Reported(type) <=> DescriptionsOf(type) # <<>>

\* A report adds its type to those that were reported, and no other.
LEMMA ReportedGrows ==
    ASSUME reported \in Seq(CaseResult), NEW r \in CaseResult,
           reported' = Append(reported, r)
    PROVE  \A type : Reported(type)' <=> (Reported(type) \/ r.type = type)
<1>1. DOMAIN reported' = 1..(Len(reported) + 1) /\ DOMAIN reported = 1..Len(reported)
  BY AppendProperties, LenProperties
<1>2. \A k \in 1..Len(reported) : reported'[k] = reported[k]
  BY AppendProperties
<1>3. reported'[Len(reported) + 1] = r
  BY AppendProperties
<1>4. Len(reported) \in Nat
  BY LenProperties
<1> QED
  BY <1>1, <1>2, <1>3, <1>4 DEF Reported

\* Its description joins those of its type.
LEMMA DescriptionsGrow ==
    ASSUME reported \in Seq(CaseResult), NEW r \in CaseResult,
           reported' = Append(reported, r), NEW type
    PROVE  /\ DescriptionsOf(type) \in Seq(Descriptions)
           /\ DescriptionsOf(type)' = IF r.type = type
                THEN Append(DescriptionsOf(type), r.description) ELSE DescriptionsOf(type)
<1> DEFINE n == Len(reported)
           ds == [k \in 1..n |-> reported[k].description]
           P == {k \in 1..n : reported[k].type = type}
           Q == {k \in 1..(n + 1) : reported'[k].type = type}
<1>0. r.description \in Descriptions
  BY DEF CaseResult
<1>1. /\ n \in Nat /\ DOMAIN reported' = 1..(n + 1) /\ DOMAIN reported = 1..n
      /\ \A k \in 1..n : reported'[k] = reported[k] /\ reported[k] \in CaseResult
      /\ reported'[n + 1] = r
  <2>1. n \in Nat /\ DOMAIN reported = 1..n
    BY LenProperties
  <2>2. reported' \in Seq(CaseResult) /\ Len(reported') = n + 1
    BY AppendProperties
  <2>3. DOMAIN reported' = 1..(n + 1)
    BY <2>2, LenProperties
  <2>4. \A k \in 1..n : reported'[k] = reported[k]
    BY AppendProperties
  <2>5. \A k \in 1..n : reported[k] \in CaseResult
    BY ElementOfSeq
  <2> QED
    BY <2>1, <2>3, <2>4, <2>5, AppendProperties
<1>2. ds \in Seq(Descriptions) /\ Len(ds) = n
  BY <1>1 DEF CaseResult
<1>3. [k \in 1..(n + 1) |-> reported'[k].description] = Append(ds, r.description)
  <2> DEFINE more == [k \in 1..(n + 1) |-> reported'[k].description]
  <2>1. more \in Seq(Descriptions) /\ Len(more) = n + 1
    <3>1. \A k \in 1..(n + 1) : reported'[k].description \in Descriptions
      BY <1>0, <1>1 DEF CaseResult
    <3> QED
      BY <1>1, <3>1
  <2>2. /\ Append(ds, r.description) \in Seq(Descriptions)
        /\ Len(Append(ds, r.description)) = n + 1
        /\ \A k \in 1..n : Append(ds, r.description)[k] = ds[k]
        /\ Append(ds, r.description)[n + 1] = r.description
    BY <1>0, <1>1, <1>2, AppendProperties
  <2>3. \A k \in 1..(n + 1) : more[k] = Append(ds, r.description)[k]
    BY <1>1, <2>2
  <2> QED
    BY <1>1, <2>1, <2>2, <2>3, SeqEqual
<1>4. /\ DescriptionsOf(type) = At(ds, P)
      /\ DescriptionsOf(type)' = At([k \in 1..(n + 1) |-> reported'[k].description], Q)
  BY <1>1 DEF DescriptionsOf
<1>5. \A k \in 1..n : k \in P <=> k \in Q
  BY <1>1
<1>6. n + 1 \in Q <=> r.type = type
  BY <1>1
<1> HIDE DEF P, Q, ds
<1>7. At(Append(ds, r.description), Q) =
        IF n + 1 \in Q THEN Append(At(ds, P), r.description) ELSE At(ds, P)
  <2>1. SameTo(P, Q, Len(ds))
    BY <1>2, <1>5 DEF SameTo
  <2>2. /\ Len(ds) + 1 \in Q =>
               At(Append(ds, r.description), Q) = Append(At(ds, P), r.description)
        /\ Len(ds) + 1 \notin Q => At(Append(ds, r.description), Q) = At(ds, P)
    <3>1. ds \in Seq(Descriptions)
      BY <1>2
    <3> QED
      BY <1>0, <3>1, <2>1, AtAppend
  <2> QED
    BY <1>2, <2>2
<1>8. At(ds, P) \in Seq(Descriptions)
  BY <1>2, AtType
<1> QED
  BY <1>3, <1>4, <1>6, <1>7, <1>8

\* One report keeps the types, the verdict and what explains it
\* (AdapterContext::reportResult).
LEMMA ReportStep ==
    ASSUME TypeOK, WorstCounts, MessagesExplain,
           \A type \in Types : Reported(type) <=> DescriptionsOf(type) # <<>>,
           NEW r \in CaseResult, reportResult(r)
    PROVE  /\ resultType' \in Types /\ messages' \in Seq(Descriptions)
           /\ messages' # <<>>
           /\ reported' \in Seq(CaseResult) /\ reported' # <<>>
           /\ Len(reported') = Len(reported) + 1
           /\ WorstCounts' /\ MessagesExplain'
           /\ \A type \in Types : Reported(type)' <=> DescriptionsOf(type)' # <<>>
<1>1. reported' = Append(reported, r) /\ reported \in Seq(CaseResult)
  BY DEF reportResult, TypeOK
<1>2. reported' \in Seq(CaseResult) /\ Len(reported') = Len(reported) + 1 /\ reported' # <<>>
  BY <1>1, AppendProperties
<1>3. \A type : Reported(type)' <=> (Reported(type) \/ r.type = type)
  BY <1>1, ReportedGrows
<1>4. r.type \in Types /\ r.description \in Descriptions
  BY DEF CaseResult
<1>5. resultType \in Types /\ messages \in Seq(Descriptions)
  BY DEF TypeOK
<1>6. <<r.description>> \in Seq(Descriptions) /\ <<r.description>> # <<>>
  BY <1>4
<1>7. Append(messages, r.description) \in Seq(Descriptions)
      /\ Append(messages, r.description) # <<>>
  BY <1>4, <1>5, AppendProperties
<1>8. messages = <<>> <=> reported = <<>>
  BY DEF TypeOK
<1>9. reported = <<>> => resultType = "Success"
  BY DEF WorstCounts, Reported
<1>10. ASSUME NEW type
       PROVE  /\ DescriptionsOf(type) \in Seq(Descriptions)
              /\ DescriptionsOf(type)' = IF r.type = type
                   THEN Append(DescriptionsOf(type), r.description) ELSE DescriptionsOf(type)
  BY <1>1, DescriptionsGrow
<1>11. \A type \in Types : Reported(type)' <=> DescriptionsOf(type)' # <<>>
  <2> SUFFICES ASSUME NEW type \in Types
               PROVE  Reported(type)' <=> DescriptionsOf(type)' # <<>>
    OBVIOUS
  <2>1. Append(DescriptionsOf(type), r.description) # <<>>
    BY <1>4, <1>10, AppendProperties
  <2> QED
    BY <2>1, <1>3, <1>10
\* The first, the last and the only description.
<1>12. ASSUME NEW ds \in Seq(Descriptions)
       PROVE  LET more == Append(ds, r.description) IN
              /\ more[Len(more)] = r.description
              /\ ds = <<>> => more = <<r.description>> /\ Head(more) = r.description
              /\ ds # <<>> => Head(more) = Head(ds)
  <2> DEFINE more == Append(ds, r.description)
  <2>1. /\ Len(more) = Len(ds) + 1 /\ more[Len(ds) + 1] = r.description
        /\ \A k \in 1..Len(ds) : more[k] = ds[k]
        /\ Len(ds) \in Nat
    BY <1>4, AppendProperties, LenProperties
  <2>2. ds # <<>> => Len(ds) > 0
    BY EmptySeq
  <2>3. Head(more) = more[1] /\ (ds # <<>> => Head(ds) = ds[1])
    BY <2>1, <2>2
  <2>4. ds = <<>> => more = <<r.description>>
    BY <1>4
  <2> QED
    BY <2>1, <2>2, <2>3, <2>4
<1>13. CASE reportDiscard(r)
  <2>1. /\ r.type = "Discard" /\ resultType' = "Discard"
        /\ resultType # "Discard" => messages' = <<r.description>>
        /\ resultType = "Discard" => messages' = messages
    BY <1>13, <1>5 DEF reportDiscard
  <2>2. WorstCounts'
    BY <2>1, <1>3 DEF WorstCounts
  <2>3. messages' \in Seq(Descriptions) /\ messages' # <<>>
    BY <2>1, <1>5, <1>6, <1>8, <1>9
  <2>4. messages' = <<Head(DescriptionsOf("Discard")')>>
    <3>1. DescriptionsOf("Discard")' = Append(DescriptionsOf("Discard"), r.description)
      BY <2>1, <1>10
    <3>2. resultType = "Discard" <=> DescriptionsOf("Discard") # <<>>
      BY DEF WorstCounts, Types
    <3>3. resultType = "Discard" => messages = <<Head(DescriptionsOf("Discard"))>>
      BY <1>9 DEF MessagesExplain
    <3> QED
      BY <2>1, <3>1, <3>2, <3>3, <1>10, <1>12
  <2> QED
    BY <2>1, <2>2, <2>3, <2>4, <1>2, <1>11 DEF Types, MessagesExplain
<1>14. CASE reportFailure(r)
  <2>1. /\ r.type = "Failure"
        /\ resultType' = IF resultType # "Discard" THEN "Failure" ELSE "Discard"
        /\ messages' = IF resultType = "Discard" THEN messages
                       ELSE IF resultType = "Success" THEN <<r.description>>
                       ELSE Append(messages, r.description)
    BY <1>14 DEF reportFailure
  <2>2. WorstCounts'
    BY <2>1, <1>3 DEF WorstCounts
  <2>3. messages' \in Seq(Descriptions) /\ messages' # <<>>
    BY <2>1, <1>5, <1>6, <1>7, <1>8, <1>9
  <2>4. CASE resultType = "Discard"
    <3>1. messages' = <<Head(DescriptionsOf("Discard")')>>
      BY <2>1, <2>4, <1>9, <1>10 DEF MessagesExplain
    <3> QED
      BY <2>1, <2>2, <2>3, <2>4, <3>1, <1>2, <1>11 DEF Types, MessagesExplain
  <2>5. CASE resultType # "Discard"
    <3>1. DescriptionsOf("Failure")' = Append(DescriptionsOf("Failure"), r.description)
      BY <2>1, <1>10
    <3>2. resultType = "Failure" <=> DescriptionsOf("Failure") # <<>>
      BY <2>5 DEF WorstCounts, Types
    <3>3. resultType = "Failure" => messages = DescriptionsOf("Failure")
      BY <1>9 DEF MessagesExplain
    <3>4. messages' = DescriptionsOf("Failure")'
      BY <2>1, <2>5, <3>1, <3>2, <3>3, <1>5, <1>10, <1>12 DEF Types
    <3> QED
      BY <2>1, <2>2, <2>3, <2>5, <3>4, <1>2, <1>11 DEF Types, MessagesExplain
  <2> QED
    BY <2>4, <2>5
<1>15. CASE reportSuccess(r)
  <2>1. /\ r.type = "Success" /\ resultType' = resultType
        /\ messages' = IF resultType = "Success" THEN <<r.description>> ELSE messages
    BY <1>15 DEF reportSuccess
  <2>2. WorstCounts'
    BY <2>1, <1>3 DEF WorstCounts
  <2>3. messages' \in Seq(Descriptions) /\ messages' # <<>>
    BY <2>1, <1>5, <1>6, <1>8, <1>9
  <2>4. MessagesExplain'
    <3>1. DescriptionsOf("Success")' = Append(DescriptionsOf("Success"), r.description)
      BY <2>1, <1>10
    <3>2. resultType # "Success" => DescriptionsOf(resultType)' = DescriptionsOf(resultType)
      BY <2>1, <1>10
    <3>3. CASE resultType = "Success"
      BY <2>1, <3>1, <3>3, <1>10, <1>12 DEF MessagesExplain
    <3>4. CASE resultType # "Success"
      BY <2>1, <3>2, <3>4, <1>9 DEF MessagesExplain
    <3> QED
      BY <3>3, <3>4
  <2> QED
    BY <2>1, <2>2, <2>3, <2>4, <1>2, <1>5, <1>11
<1> QED
  BY <1>13, <1>14, <1>15 DEF reportResult

\* IInv is an inductive invariant of the context.
THEOREM Invariance == Spec => []IInv
<1>1. Init => IInv
  <2> SUFFICES ASSUME Init PROVE IInv
    OBVIOUS
  <2>1. messages \in Seq(Descriptions) /\ reported \in Seq(CaseResult) /\ Len(reported) = 0
    BY DEF Init
  <2>2. \A type : ~ Reported(type)
    BY DEF Init, Reported
  <2>3. \A type : DescriptionsOf(type) = <<>>
    <3>1. [k \in DOMAIN reported |-> reported[k].description] = <<>>
      BY DEF Init
    <3> QED
      BY <3>1, AtEmpty DEF DescriptionsOf
  <2> QED
    BY <2>1, <2>2, <2>3, ContextAssumption
    DEF Init, IInv, TypeOK, WorstCounts, MessagesExplain, Types
<1>2. IInv /\ [Next]_vars => IInv'
  <2> SUFFICES ASSUME IInv, [Next]_vars PROVE IInv'
    OBVIOUS
  <2> USE ContextAssumption
  <2>0. reported \in Seq(CaseResult) /\ Len(reported) \in Nat
    BY LenProperties DEF IInv, TypeOK
  <2>1. ASSUME NEW r \in CaseResult, reportResult(r), running' \in BOOLEAN,
               Len(reported) < MaxReports \/ (Len(reported) <= MaxReports /\ running' = FALSE)
        PROVE  IInv'
    <3>1. /\ TypeOK /\ WorstCounts /\ MessagesExplain
          /\ \A type \in Types : Reported(type) <=> DescriptionsOf(type) # <<>>
      BY DEF IInv
    <3>2. /\ resultType' \in Types /\ messages' \in Seq(Descriptions)
          /\ messages' # <<>> /\ reported' # <<>> /\ reported' \in Seq(CaseResult)
          /\ Len(reported') = Len(reported) + 1 /\ WorstCounts' /\ MessagesExplain'
          /\ \A type \in Types : Reported(type)' <=> DescriptionsOf(type)' # <<>>
      BY <2>1, <3>1, ReportStep, Zenon
    <3>3. TypeOK'
      BY <2>0, <2>1, <3>2 DEF TypeOK
    <3> QED
      BY <2>0, <2>1, <3>2, <3>3 DEF IInv
  <2>2. CASE Report
    BY <2>1, <2>2 DEF Report, IInv, TypeOK
  <2>3. CASE End
    BY <2>1, <2>3 DEF End, EndAs, IInv
  <2>4. CASE UNCHANGED vars
    BY <2>4 DEF vars, IInv, TypeOK, WorstCounts, MessagesExplain, DescriptionsOf, Reported
  <2> QED
    BY <2>2, <2>3, <2>4 DEF Next
<1> QED
  BY <1>1, <1>2, PTL DEF Spec

\* The state always has its type.
THEOREM TypeCorrect == Spec => []TypeOK
<1>1. IInv => TypeOK
  BY DEF IInv
<1> QED
  BY <1>1, Invariance, PTL

\* However many results are reported, and in whatever order, the worst one is the
\* verdict of the test case (AdapterContext::reportResult, PropertyAdapter).
THEOREM Verdict == Spec => []WorstCounts
<1>1. IInv => WorstCounts
  BY DEF IInv
<1> QED
  BY <1>1, Invariance, PTL

-----------------------------------------------------------------------------
(* What a body and its framework do to the context *)

\* An exception that leaves an assertion ends the body in a way the adapter handles.
LEMMA CaughtIsEnd ==
    ASSUME NEW thrown \in Exceptions \cup Types, NEW r \in CaseResult, Caught(thrown, r)
    PROVE  Next
<1>1. (IF thrown \in Types THEN "throwCaseResult" ELSE thrown) \in DOMAIN Endings
  BY DEF Exceptions, Types, Endings
<1> QED
  BY <1>1 DEF Caught, End, Next

\* An assertion lets the body go on, or ends it.
LEMMA AssertionStep ==
    ASSUME NEW macro, NEW evaluation,
           NEW outcome \in {GoesOn} \cup Exceptions \cup Types,
           Assertion(macro, evaluation, outcome)
    PROVE  [Next]_vars
<1>1. CASE outcome = GoesOn
  BY <1>1 DEF Assertion
<1>2. CASE outcome # GoesOn
  <2>1. PICK r \in CaseResult : Caught(outcome, r)
    BY <1>2 DEF Assertion
  <2>2. outcome \in Exceptions \cup Types
    BY <1>2
  <2> QED
    BY <2>1, <2>2, CaughtIsEnd
<1> QED
  BY <1>1, <1>2

\* What the macros of Assertions.h make of an evaluation.
LEMMA OutcomesOfMacros ==
    /\ \A macro \in DOMAIN Conditional, e \in {"true", "false"} \cup Exceptions :
         doAssert(macro, e) \in {GoesOn} \cup Exceptions \cup Types
    /\ \A macro \in DOMAIN Unconditional : Unconditional[macro] \in Types
    /\ \A e : AssertThrows(e) \in {GoesOn} \cup Types
    /\ \A e : AssertThrowsAs("exception", e) \in {GoesOn} \cup Types
<1>1. ASSUME NEW macro \in DOMAIN Conditional, NEW e \in {"true", "false"} \cup Exceptions
      PROVE  doAssert(macro, e) \in {GoesOn} \cup Exceptions \cup Types
  <2>1. Conditional[macro].type \in Types
    BY DEF Conditional, Types
  <2>2. e \in Exceptions => e # Conditional[macro].expected
    BY DEF Exceptions, Types, Conditional
  <2>3. e \in Exceptions => doAssert(macro, e) = e
    BY <2>2 DEF doAssert
  <2>4. e \notin Exceptions => doAssert(macro, e) \in {GoesOn, Conditional[macro].type}
    BY DEF doAssert
  <2> QED
    BY <2>1, <2>3, <2>4
<1>2. \A macro \in DOMAIN Unconditional : Unconditional[macro] \in Types
  BY DEF Unconditional, Types
<1>3. \A e : AssertThrows(e) \in {GoesOn} \cup Types
  BY DEF AssertThrows, Types
<1>4. \A e : AssertThrowsAs("exception", e) \in {GoesOn} \cup Types
  BY DEF AssertThrowsAs, Types
<1> QED
  BY <1>1, <1>2, <1>3, <1>4

\* A statement of the body, or an event of the framework, is a step of the context.
LEMMA BodyStep == [BodyNext]_bodyVars => [Next]_vars
<1> SUFFICES ASSUME [BodyNext]_bodyVars PROVE [Next]_vars
  OBVIOUS
<1>1. CASE MakeAssertion
  <2>1. \E macro, e, outcome : /\ outcome \in {GoesOn} \cup Exceptions \cup Types
                                    /\ Assertion(macro, e, outcome)
    BY <1>1, OutcomesOfMacros DEF MakeAssertion
  <2> QED
    BY <2>1, AssertionStep
<1>2. CASE Return
  <2>1. PICK how \in {"void", "bool", "string", "CaseResult"}, r \in CaseResult : EndAs(how, r)
    BY <1>2 DEF Return
  <2>2. how \in DOMAIN Endings
    BY DEF Endings
  <2> QED
    BY <2>1, <2>2 DEF End, Next
<1>3. CASE ReportToContext
  BY <1>3 DEF ReportToContext, Next
<1>4. CASE RC_LOG \/ RC_TAG \/ RC_CLASSIFY \/ OnOther
  BY <1>4 DEF RC_LOG, RC_TAG, RC_CLASSIFY, AddTags, OnOther
<1>5. CASE OnTestPartResult
  <2>1. PICK type \in PartResults, d \in Descriptions :
          IF ~(type # "kFatalFailure" /\ InProperty)
            THEN UNCHANGED <<resultType, messages, reported>>
            ELSE /\ Len(reported) < MaxReports
                 /\ reportResult([type |-> IF type = "kSuccess" THEN "Success" ELSE "Failure",
                                  description |-> d])
    BY <1>5 DEF OnTestPartResult
  <2>2. UNCHANGED running
    BY <1>5 DEF OnTestPartResult
  <2>3. CASE ~(type # "kFatalFailure" /\ InProperty)
    BY <2>1, <2>2, <2>3 DEF vars
  <2>4. CASE type # "kFatalFailure" /\ InProperty
    <3>1. [type |-> IF type = "kSuccess" THEN "Success" ELSE "Failure", description |-> d]
            \in CaseResult
      BY DEF CaseResult, Types
    <3> QED
      BY <2>1, <2>2, <2>4, <3>1 DEF Report, Next, InProperty
  <2> QED
    BY <2>3, <2>4
<1>6. CASE UNCHANGED bodyVars
  BY <1>6 DEF bodyVars
<1> QED
  BY <1>1, <1>2, <1>3, <1>4, <1>5, <1>6 DEF BodyNext

\* A body under the adapter implements the context as it was specified alone.
THEOREM Implements == BodySpec => Spec
<1>1. BodyInit => Init
  BY DEF BodyInit
<1> QED
  BY <1>1, BodyStep, PTL DEF BodySpec, Spec

\* However a body mixes assertions, reports and exceptions, the worst result is the
\* verdict of the test case (PropertyAdapter, AdapterContext).
THEOREM BodyVerdict == BodySpec => []WorstCounts
  BY Implements, Verdict

-----------------------------------------------------------------------------
(* Concatenation *)

IsFlatten(f, ss, m) == f = [i \in 1..m |-> IF i = 1 THEN ss[i] ELSE f[i - 1] \o ss[i]]

LEMMA FlattenExists ==
    ASSUME NEW ss, NEW m \in Nat
    PROVE  \E f : IsFlatten(f, ss, m)
<1> DEFINE S == {n \in Nat : \E f : IsFlatten(f, ss, n)}
<1>1. 0 \in S
  <2> DEFINE f == [i \in 1..0 |-> <<>>]
  <2>1. IsFlatten(f, ss, 0)
    BY DEF IsFlatten
  <2> QED
    BY <2>1
<1>2. ASSUME NEW n \in Nat, n \in S
      PROVE  n + 1 \in S
  <2>1. PICK f : IsFlatten(f, ss, n)
    BY <1>2
  <2> DEFINE g == [i \in 1..(n + 1) |-> IF i # n + 1 THEN f[i]
                                        ELSE IF i = 1 THEN ss[i] ELSE f[n] \o ss[i]]
  <2>2. \A i \in 1..n : f[i] = IF i = 1 THEN ss[i] ELSE f[i - 1] \o ss[i]
    BY <2>1 DEF IsFlatten
  <2>3. \A i \in 1..(n + 1) : g[i] = IF i = 1 THEN ss[i] ELSE g[i - 1] \o ss[i]
    BY <2>2
  <2>4. g = [i \in 1..(n + 1) |-> IF i = 1 THEN ss[i] ELSE g[i - 1] \o ss[i]]
    BY <2>3
  <2>5. IsFlatten(g, ss, n + 1)
    BY <2>4 DEF IsFlatten
  <2> QED
    BY <2>5
<1>3. Nat \subseteq S
  <2> HIDE DEF S
  <2> QED
    BY <1>1, <1>2, Induction
<1> QED
  BY <1>3

LEMMA FlattenAgrees ==
    ASSUME NEW ss, NEW tt, NEW m \in Nat, NEW f, NEW g,
           IsFlatten(f, ss, m), IsFlatten(g, tt, m + 1),
           \A k \in 1..m : ss[k] = tt[k]
    PROVE  \A k \in 1..m : f[k] = g[k]
<1> DEFINE S == {k \in Nat : k \in 1..m => f[k] = g[k]}
<1>1. \A i \in 1..m : f[i] = IF i = 1 THEN ss[i] ELSE f[i - 1] \o ss[i]
  BY DEF IsFlatten
<1>2. \A i \in 1..(m + 1) : g[i] = IF i = 1 THEN tt[i] ELSE g[i - 1] \o tt[i]
  BY DEF IsFlatten
<1>3. 0 \in S
  OBVIOUS
<1>4. ASSUME NEW k \in Nat, k \in S
      PROVE  k + 1 \in S
  <2> SUFFICES ASSUME k + 1 \in 1..m PROVE f[k + 1] = g[k + 1]
    OBVIOUS
  <2>1. k = 0 \/ f[k] = g[k]
    BY <1>4
  <2>2. /\ f[k + 1] = IF k = 0 THEN ss[k + 1] ELSE f[k] \o ss[k + 1]
        /\ g[k + 1] = IF k = 0 THEN tt[k + 1] ELSE g[k] \o tt[k + 1]
    BY <1>1, <1>2
  <2> QED
    BY <2>1, <2>2
<1>5. Nat \subseteq S
  <2> HIDE DEF S
  <2> QED
    BY <1>3, <1>4, Induction
<1> QED
  BY <1>5

\* FlattenSeq is the last value.
LEMMA FlattenIsLast ==
    ASSUME NEW ss, Len(ss) \in Nat \ {0}
    PROVE  \E f : IsFlatten(f, ss, Len(ss)) /\ FlattenSeq(ss) = f[Len(ss)]
<1>1. \E f : IsFlatten(f, ss, Len(ss))
  BY FlattenExists
<1>2. IsFlatten(CHOOSE f : IsFlatten(f, ss, Len(ss)), ss, Len(ss))
  BY <1>1
<1>3. FlattenSeq(ss) = (CHOOSE f : IsFlatten(f, ss, Len(ss)))[Len(ss)]
  BY DEF FlattenSeq, IsFlatten
<1> QED
  BY <1>2, <1>3

LEMMA FlattenAppend ==
    ASSUME NEW T, NEW ss \in Seq(Seq(T)), NEW t \in Seq(T)
    PROVE  FlattenSeq(Append(ss, t)) = FlattenSeq(ss) \o t
<1> DEFINE tt == Append(ss, t)
           m == Len(ss)
<1>1. m \in Nat /\ Len(tt) = m + 1 /\ tt[m + 1] = t /\ \A k \in 1..m : ss[k] = tt[k]
  BY AppendProperties, LenProperties
<1>2. PICK g : IsFlatten(g, tt, m + 1) /\ FlattenSeq(tt) = g[m + 1]
  <2> HIDE DEF tt
  <2> QED
    BY <1>1, FlattenIsLast
<1> HIDE DEF tt, m
<1>3. g[m + 1] = IF m = 0 THEN tt[m + 1] ELSE g[m] \o tt[m + 1]
  <2>1. \A i \in 1..(m + 1) : g[i] = IF i = 1 THEN tt[i] ELSE g[i - 1] \o tt[i]
    BY <1>2 DEF IsFlatten
  <2>2. m + 1 \in 1..(m + 1) /\ (m + 1) - 1 = m /\ (m + 1 = 1 <=> m = 0)
    BY <1>1
  <2> QED
    BY <2>1, <2>2
<1>4. CASE m = 0
  <2>1. ss = <<>>
    BY <1>4, EmptySeq DEF m
  <2>2. FlattenSeq(ss) = <<>>
    BY <2>1, EmptySeq DEF FlattenSeq
  <2>3. <<>> \o t = t
    BY ConcatEmptySeq
  <2> QED
    BY <1>1, <1>2, <1>3, <1>4, <2>2, <2>3 DEF tt
<1>5. CASE m # 0
  <2>1. PICK f : IsFlatten(f, ss, m) /\ FlattenSeq(ss) = f[m]
    BY <1>1, <1>5, FlattenIsLast DEF m
  <2>2. \A k \in 1..m : f[k] = g[k]
    BY SMTT(30), <1>1, <1>2, <2>1, FlattenAgrees
  <2>3. f[m] = g[m]
    BY <1>1, <1>5, <2>2
  <2> QED
    BY <1>1, <1>2, <1>3, <1>5, <2>1, <2>3 DEF tt
<1> QED
  BY <1>4, <1>5 DEF tt

-----------------------------------------------------------------------------
(* The history *)

\* What the history h of a step says of it.
Told(h) ==
    /\ done' = Append(done, h)
    /\ Reported("Discard")' <=> (Reported("Discard") \/ Discards(h))
    /\ Reported("Failure")' <=> (Reported("Failure") \/ FailsCase(h))
    /\ running' <=> (running /\ ~ EndsBody(h))
    /\ m_logStream' = IF IsLog(h) THEN Append(m_logStream, h.line) ELSE m_logStream
    /\ m_tags' = IF AddsTags(h) THEN m_tags \o TagsOf(h) ELSE m_tags
    /\ AddsTags(h) => TagsOf(h) \in Seq(Tags)
    /\ m_delegate' = m_delegate
    /\ m_delegate => passedOn' = IF NotTaken(h) THEN Append(passedOn, h) ELSE passedOn

\* The type of the result that an exception becomes.
TypeOfThrown(thrown) ==
    CASE thrown = "GenerationFailure" -> "Discard"
      [] thrown \in {"exception", "unknown"} -> "Failure"
      [] OTHER -> thrown

LEMMA ResultOfThrown ==
    ASSUME NEW thrown \in Exceptions \cup Types, NEW r \in CaseResult,
           thrown \in Types => r.type = thrown, Caught(thrown, r)
    PROVE  /\ running /\ running' = FALSE /\ reportResult(r)
           /\ r.type = TypeOfThrown(thrown)
<1>1. /\ running /\ running' = FALSE /\ reportResult(r)
      /\ r.type \in Endings[IF thrown \in Types THEN "throwCaseResult" ELSE thrown]
  BY DEF Caught, EndAs
<1> QED
  BY <1>1 DEF Exceptions, Types, Endings, TypeOfThrown

\* An assertion ends the body by what it throws, and reports that.
LEMMA AssertionReports ==
    ASSUME TypeOK, NEW macro, NEW evaluation,
           NEW outcome \in {GoesOn} \cup Exceptions \cup Types,
           Assertion(macro, evaluation, outcome)
    PROVE  /\ running /\ (running' <=> outcome = GoesOn)
           /\ \A type \in {"Discard", "Failure"} :
                Reported(type)' <=> (Reported(type) \/ TypeOfThrown(outcome) = type)
<1>0. running
  BY DEF Assertion
<1>1. CASE outcome = GoesOn
  <2>1. UNCHANGED vars
    BY <1>1 DEF Assertion
  <2>2. TypeOfThrown(outcome) \notin {"Discard", "Failure"}
    BY <1>1 DEF TypeOfThrown, GoesOn
  <2> QED
    BY <2>1, <2>2, <1>0, <1>1 DEF vars, Reported
<1>2. CASE outcome # GoesOn
  <2>1. PICK r \in CaseResult : (outcome \in Types => r.type = outcome) /\ Caught(outcome, r)
    BY <1>2 DEF Assertion
  <2>2. running' = FALSE /\ reportResult(r) /\ r.type = TypeOfThrown(outcome)
    BY <1>2, <2>1, ResultOfThrown
  <2>3. \A type : Reported(type)' <=> (Reported(type) \/ r.type = type)
    BY <2>2, ReportedGrows DEF reportResult, TypeOK
  <2> QED
    BY <1>0, <1>2, <2>2, <2>3
<1> QED
  BY <1>1, <1>2

\* What the documentation says of an assertion is what its outcome says.
Documented(macro, evaluation, outcome) ==
    LET h == [does |-> macro, evaluation |-> evaluation] IN
    /\ Discards(h) <=> TypeOfThrown(outcome) = "Discard"
    /\ FailsCase(h) <=> TypeOfThrown(outcome) = "Failure"
    /\ EndsBody(h) <=> outcome # GoesOn
    /\ ~ IsLog(h) /\ ~ AddsTags(h) /\ ~ NotTaken(h)

LEMMA ConditionalDocumented ==
    ASSUME NEW macro \in DOMAIN Conditional, NEW e \in {"true", "false"} \cup Exceptions
    PROVE  Documented(macro, e, doAssert(macro, e))
<1>1. DOMAIN Conditional = {"RC_ASSERT", "RC_ASSERT_FALSE", "RC_SUCCEED_IF", "RC_PRE"}
  BY DEF Conditional
<1>2. macro \notin Events /\ macro \notin PartResults
  BY <1>1, BodyAssumption DEF Statements, PartResults
<1> DEFINE h == [does |-> macro, evaluation |-> e]
<1>3. ~ IsLog(h) /\ ~ AddsTags(h) /\ ~ NotTaken(h)
  BY <1>1, <1>2 DEF IsLog, AddsTags, NotTaken
<1>4. CASE e \in Exceptions
  <2>1. doAssert(macro, e) = e
    <3>1. e # Conditional[macro].expected
      BY <1>4 DEF Exceptions, Types, Conditional
    <3> QED
      BY <1>4, <3>1 DEF doAssert
  <2>2. e # GoesOn
    BY <1>4 DEF Exceptions, Types, GoesOn
  <2>3. Discards(h) <=> e \in {"GenerationFailure", "Discard"}
    BY <1>1, <1>4 DEF Discards, Escapes, Exceptions, Types
  <2>4. FailsCase(h) <=> e \in {"exception", "unknown", "Failure"}
    BY <1>1, <1>4 DEF FailsCase, Escapes, Exceptions, Types
  <2>5. EndsBody(h)
    BY <1>4 DEF EndsBody, Escapes
  <2>6. /\ TypeOfThrown(e) = "Discard" <=> e \in {"GenerationFailure", "Discard"}
        /\ TypeOfThrown(e) = "Failure" <=> e \in {"exception", "unknown", "Failure"}
    BY DEF TypeOfThrown
  <2> QED
    BY <1>3, <2>1, <2>2, <2>3, <2>4, <2>5, <2>6 DEF Documented
<1>5. CASE e \notin Exceptions
  <2>1. e \in {"true", "false"}
    BY <1>5
  <2> DEFINE o == doAssert(macro, e)
  <2>2. o = IF e = Conditional[macro].expected THEN GoesOn ELSE Conditional[macro].type
    BY <1>5 DEF doAssert
  <2>3. /\ macro \in {"RC_ASSERT", "RC_ASSERT_FALSE"} => Conditional[macro].type = "Failure"
        /\ macro = "RC_SUCCEED_IF" => Conditional[macro].type = "Success"
        /\ macro = "RC_PRE" => Conditional[macro].type = "Discard"
        /\ macro \in {"RC_ASSERT", "RC_PRE"} => Conditional[macro].expected = "true"
        /\ macro \in {"RC_ASSERT_FALSE", "RC_SUCCEED_IF"} => Conditional[macro].expected = "false"
    BY DEF Conditional
  <2>4. /\ o = GoesOn <=> e = Conditional[macro].expected
        /\ o = "Discard" <=> macro = "RC_PRE" /\ e = "false"
        /\ o = "Failure" <=> \/ macro = "RC_ASSERT" /\ e = "false"
                             \/ macro = "RC_ASSERT_FALSE" /\ e = "true"
        /\ o \in {GoesOn, "Success", "Discard", "Failure"}
    BY <1>1, <2>1, <2>2, <2>3 DEF GoesOn
  <2> HIDE DEF o
  <2>5. /\ TypeOfThrown(o) = "Discard" <=> o = "Discard"
        /\ TypeOfThrown(o) = "Failure" <=> o = "Failure"
    BY <2>4 DEF TypeOfThrown, GoesOn
  <2>6. \A S \in SUBSET Exceptions : ~ Escapes(h, S)
    BY <1>5 DEF Escapes
  <2>7. {"GenerationFailure", "Discard"} \in SUBSET Exceptions
        /\ {"exception", "unknown", "Failure"} \in SUBSET Exceptions
    BY DEF Exceptions, Types
  <2>8. Discards(h) <=> macro = "RC_PRE" /\ e = "false"
    BY <1>1, <2>6, <2>7 DEF Discards
  <2>9. FailsCase(h) <=> \/ macro = "RC_ASSERT" /\ e = "false"
                         \/ macro = "RC_ASSERT_FALSE" /\ e = "true"
    BY <1>1, <2>6, <2>7 DEF FailsCase
  <2>10. EndsBody(h) <=> e # Conditional[macro].expected
    BY <1>1, <2>1, <2>3, <2>6, <2>8, <2>9 DEF EndsBody
  <2> QED
    BY <1>3, <2>4, <2>5, <2>8, <2>9, <2>10 DEF Documented, o
<1> QED
  BY <1>4, <1>5

LEMMA UnconditionalDocumented ==
    ASSUME NEW macro \in DOMAIN Unconditional
    PROVE  Documented(macro, "none", Unconditional[macro])
<1>1. DOMAIN Unconditional = {"RC_FAIL", "RC_SUCCEED", "RC_DISCARD"}
  BY DEF Unconditional
<1>2. macro \notin Events
  BY <1>1, BodyAssumption DEF Statements
<1>3. DOMAIN Conditional = {"RC_ASSERT", "RC_ASSERT_FALSE", "RC_SUCCEED_IF", "RC_PRE"}
  BY DEF Conditional
<1>4. /\ macro = "RC_FAIL" => Unconditional[macro] = "Failure"
      /\ macro = "RC_SUCCEED" => Unconditional[macro] = "Success"
      /\ macro = "RC_DISCARD" => Unconditional[macro] = "Discard"
  BY DEF Unconditional
<1> QED
  BY <1>1, <1>2, <1>3, <1>4
  DEF Documented, Discards, FailsCase, EndsBody, Escapes, IsLog, AddsTags, NotTaken,
      TypeOfThrown, GoesOn, PartResults

LEMMA ThrowsDocumented ==
    ASSUME NEW e \in {"none"} \cup Exceptions
    PROVE  /\ Documented("RC_ASSERT_THROWS", e, AssertThrows(e))
           /\ Documented("RC_ASSERT_THROWS_AS", e, AssertThrowsAs("exception", e))
<1>1. DOMAIN Conditional = {"RC_ASSERT", "RC_ASSERT_FALSE", "RC_SUCCEED_IF", "RC_PRE"}
  BY DEF Conditional
<1>2. "RC_ASSERT_THROWS" \notin Events /\ "RC_ASSERT_THROWS_AS" \notin Events
  BY BodyAssumption DEF Statements
<1>3. "none" \notin Exceptions
  BY DEF Exceptions, Types
<1>4. AssertThrows(e) = IF e = "none" THEN "Failure" ELSE GoesOn
  BY <1>3 DEF AssertThrows
<1>5. Documented("RC_ASSERT_THROWS", e, AssertThrows(e))
  BY <1>1, <1>2, <1>4
  DEF Documented, Discards, FailsCase, EndsBody, Escapes, IsLog, AddsTags, NotTaken,
      TypeOfThrown, GoesOn, PartResults
<1>6. Documented("RC_ASSERT_THROWS_AS", e, AssertThrowsAs("exception", e))
  BY <1>1, <1>2
  DEF Documented, Discards, FailsCase, EndsBody, Escapes, IsLog, AddsTags, NotTaken,
      TypeOfThrown, GoesOn, PartResults, AssertThrowsAs
<1> QED
  BY <1>5, <1>6

\* Every assertion is told as it is documented.
LEMMA AssertionTold ==
    ASSUME TypeOK, NEW macro, NEW evaluation,
           NEW outcome \in {GoesOn} \cup Exceptions \cup Types,
           Assertion(macro, evaluation, outcome), Documented(macro, evaluation, outcome)
    PROVE  Told([does |-> macro, evaluation |-> evaluation])
<1> DEFINE h == [does |-> macro, evaluation |-> evaluation]
<1>1. /\ done' = Append(done, h)
      /\ UNCHANGED <<m_logStream, m_tags, m_delegate, passedOn>>
  BY DEF Assertion, Did
<1>2. /\ running /\ (running' <=> outcome = GoesOn)
      /\ \A type \in {"Discard", "Failure"} :
           Reported(type)' <=> (Reported(type) \/ TypeOfThrown(outcome) = type)
  BY AssertionReports
<1>3. /\ Discards(h) <=> TypeOfThrown(outcome) = "Discard"
      /\ FailsCase(h) <=> TypeOfThrown(outcome) = "Failure"
      /\ EndsBody(h) <=> outcome # GoesOn
      /\ ~ IsLog(h) /\ ~ AddsTags(h) /\ ~ NotTaken(h)
  BY DEF Documented
<1> QED
  BY <1>1, <1>2, <1>3 DEF Told

\* What is returned or reported counts by its type.
LEMMA ReportTold ==
    ASSUME TypeOK, NEW r \in CaseResult, reportResult(r), running,
           NEW what \in {"return", "report"}, running' <=> what = "report",
           done' = Append(done, [does |-> what, type |-> r.type]),
           UNCHANGED <<m_logStream, m_tags, m_delegate, passedOn>>
    PROVE  Told([does |-> what, type |-> r.type])
<1> DEFINE h == [does |-> what, type |-> r.type]
<1>1. \A type : Reported(type)' <=> (Reported(type) \/ r.type = type)
  BY ReportedGrows DEF reportResult, TypeOK
<1>2. what \notin DOMAIN Conditional /\ what \notin Events /\ what \notin PartResults
  BY BodyAssumption DEF Conditional, Statements, PartResults
<1>3. /\ Discards(h) <=> r.type = "Discard"
      /\ FailsCase(h) <=> r.type = "Failure"
  BY <1>2 DEF Discards, FailsCase, Escapes
<1>4. EndsBody(h) <=> what = "return"
  BY <1>2 DEF EndsBody, Escapes
<1>5. ~ IsLog(h) /\ ~ AddsTags(h) /\ ~ NotTaken(h)
  BY <1>2 DEF IsLog, AddsTags, NotTaken
<1> QED
  BY <1>1, <1>3, <1>4, <1>5 DEF Told

\* What is not about the verdict.
LEMMA OtherTold ==
    ASSUME NEW h, h.does \in {"log", "tag", "classify", "kSuccess", "kFatalFailure"} \cup Events
                  \/ (h.does = "kNonFatalFailure" /\ ~ h.inProperty)
    PROVE  ~ Discards(h) /\ ~ FailsCase(h) /\ ~ EndsBody(h)
<1>1. DOMAIN Conditional = {"RC_ASSERT", "RC_ASSERT_FALSE", "RC_SUCCEED_IF", "RC_PRE"}
  BY DEF Conditional
<1>2. h.does \notin {"RC_ASSERT", "RC_ASSERT_FALSE", "RC_SUCCEED_IF", "RC_PRE", "RC_FAIL",
                     "RC_SUCCEED", "RC_DISCARD", "RC_ASSERT_THROWS", "RC_ASSERT_THROWS_AS",
                     "return", "report"}
  BY BodyAssumption DEF Statements
<1>3. h.does = "kNonFatalFailure" => ~ h.inProperty
  BY BodyAssumption DEF PartResults
<1>4. ~ Discards(h) /\ ~ FailsCase(h)
  BY <1>1, <1>2, <1>3 DEF Discards, FailsCase, Escapes
<1> QED
  BY <1>1, <1>2, <1>4 DEF EndsBody, Escapes

\* Every step of a body is told in the history.
LEMMA StepTold ==
    ASSUME TypeOK, BodyNext
    PROVE  \E h : Told(h)
<1>1. CASE MakeAssertion
  <2>1. \E macro, e, outcome : /\ outcome \in {GoesOn} \cup Exceptions \cup Types
                               /\ Assertion(macro, e, outcome)
                               /\ Documented(macro, e, outcome)
    <3>1. CASE \E macro \in DOMAIN Conditional, e \in {"true", "false"} \cup Exceptions :
                 Assertion(macro, e, doAssert(macro, e))
      BY <3>1, OutcomesOfMacros, ConditionalDocumented
    <3>2. CASE \E macro \in DOMAIN Unconditional :
                 Assertion(macro, "none", Unconditional[macro])
      BY <3>2, OutcomesOfMacros, UnconditionalDocumented
    <3>3. CASE \E e \in {"none"} \cup Exceptions :
                 Assertion("RC_ASSERT_THROWS", e, AssertThrows(e))
      BY <3>3, OutcomesOfMacros, ThrowsDocumented
    <3>4. CASE \E e \in {"none"} \cup Exceptions :
                 Assertion("RC_ASSERT_THROWS_AS", e, AssertThrowsAs("exception", e))
      BY <3>4, OutcomesOfMacros, ThrowsDocumented
    <3> QED
      BY <1>1, <3>1, <3>2, <3>3, <3>4 DEF MakeAssertion
  <2> QED
    BY <2>1, AssertionTold
<1>2. CASE Return
  <2>1. PICK how \in {"void", "bool", "string", "CaseResult"}, r \in CaseResult :
          EndAs(how, r) /\ Did([does |-> "return", type |-> r.type])
    BY <1>2 DEF Return
  <2> QED
    BY <1>2, <2>1, ReportTold DEF Return, EndAs, Did
<1>3. CASE ReportToContext
  <2>1. PICK r \in CaseResult : reportResult(r)
    BY <1>3 DEF ReportToContext, Report
  <2>2. Last(reported') = r
    <3>1. reported' = Append(reported, r) /\ reported \in Seq(CaseResult)
      BY <2>1 DEF reportResult, TypeOK
    <3>2. Len(reported') = Len(reported) + 1 /\ reported'[Len(reported) + 1] = r
      BY <3>1, AppendProperties
    <3> QED
      BY <3>2 DEF Last
  <2> QED
    BY <1>3, <2>1, <2>2, ReportTold DEF ReportToContext, Report, Did, TypeOK
<1>4. CASE RC_LOG
  <2>1. PICK line \in Lines :
          /\ Did([does |-> "log", line |-> line, inProperty |-> InProperty])
          /\ m_logStream' = IF InProperty THEN Append(m_logStream, line) ELSE m_logStream
    BY <1>4 DEF RC_LOG
  <2> DEFINE h == [does |-> "log", line |-> line, inProperty |-> InProperty]
  <2>2. ~ Discards(h) /\ ~ FailsCase(h) /\ ~ EndsBody(h)
    BY OtherTold
  <2>3. "log" \notin Events
    BY BodyAssumption DEF Statements
  <2>4. (IsLog(h) <=> InProperty) /\ ~ AddsTags(h) /\ ~ NotTaken(h)
    BY <2>3 DEF IsLog, AddsTags, NotTaken, PartResults
  <2> QED
    BY <1>4, <2>1, <2>2, <2>4 DEF RC_LOG, Told, Did, vars, Reported
<1>5. CASE RC_TAG
  <2>1. PICK t \in Tags, u \in Tags :
          AddTags([does |-> "tag", tags |-> <<t, u>>, inProperty |-> InProperty], <<t, u>>)
    BY <1>5 DEF RC_TAG
  <2> DEFINE h == [does |-> "tag", tags |-> <<t, u>>, inProperty |-> InProperty]
  <2>2. ~ Discards(h) /\ ~ FailsCase(h) /\ ~ EndsBody(h)
    BY OtherTold
  <2>3. "tag" \notin Events
    BY BodyAssumption DEF Statements
  <2>4. ~ IsLog(h) /\ (AddsTags(h) <=> InProperty) /\ ~ NotTaken(h)
    BY <2>3 DEF IsLog, AddsTags, NotTaken, PartResults
  <2>5. TagsOf(h) = <<t, u>> /\ <<t, u>> \in Seq(Tags)
    BY DEF TagsOf
  <2> QED
    BY <2>1, <2>2, <2>4, <2>5 DEF AddTags, Told, Did, vars, Reported
<1>6. CASE RC_CLASSIFY
  <2>1. PICK holds \in BOOLEAN, c \in Tags, tags \in {<<>>} \cup {<<t>> : t \in Tags} :
          AddTags([does |-> "classify", holds |-> holds, condition |-> c, tags |-> tags,
                   inProperty |-> InProperty], Classify(holds, c, tags))
    BY <1>6 DEF RC_CLASSIFY
  <2> DEFINE h == [does |-> "classify", holds |-> holds, condition |-> c, tags |-> tags,
                   inProperty |-> InProperty]
  <2>2. ~ Discards(h) /\ ~ FailsCase(h) /\ ~ EndsBody(h)
    BY OtherTold
  <2>3. "classify" \notin Events
    BY BodyAssumption DEF Statements
  <2>4. ~ IsLog(h) /\ (AddsTags(h) <=> InProperty) /\ ~ NotTaken(h)
    BY <2>3 DEF IsLog, AddsTags, NotTaken, PartResults
  <2>5. TagsOf(h) = Classify(holds, c, tags)
    BY DEF TagsOf, Classify
  <2>6. Classify(holds, c, tags) \in Seq(Tags)
    <3>1. \A t \in Tags : <<t>> \in Seq(Tags)
      OBVIOUS
    <3>2. tags \in Seq(Tags) /\ <<c>> \in Seq(Tags) /\ <<>> \in Seq(Tags)
      BY <3>1, EmptySeq
    <3> QED
      BY <3>2 DEF Classify
  <2> QED
    BY <2>1, <2>2, <2>4, <2>5, <2>6 DEF AddTags, Told, Did, vars, Reported
<1>7. CASE OnTestPartResult
  <2>1. PICK type \in PartResults, d \in Descriptions :
          LET event == [does |-> type, description |-> d, inProperty |-> InProperty]
              taken == type # "kFatalFailure" /\ InProperty
          IN /\ Did(event) /\ PassOn(event, taken)
             /\ IF ~taken THEN UNCHANGED <<resultType, messages, reported>>
                ELSE /\ Len(reported) < MaxReports
                     /\ reportResult([type |-> IF type = "kSuccess" THEN "Success" ELSE "Failure",
                                      description |-> d])
    BY <1>7 DEF OnTestPartResult
  <2> DEFINE h == [does |-> type, description |-> d, inProperty |-> InProperty]
             r == [type |-> IF type = "kSuccess" THEN "Success" ELSE "Failure",
                   description |-> d]
  <2>2. UNCHANGED <<running, m_logStream, m_tags, m_delegate>>
    BY <1>7 DEF OnTestPartResult
  <2>3. type \notin Events /\ type \in {"kSuccess", "kNonFatalFailure", "kFatalFailure"}
    BY BodyAssumption DEF PartResults
  <2>4. /\ ~ IsLog(h) /\ ~ AddsTags(h)
        /\ NotTaken(h) <=> ~ (type # "kFatalFailure" /\ InProperty)
    BY <2>3 DEF IsLog, AddsTags, NotTaken, PartResults
  <2>5. passedOn' = IF m_delegate /\ NotTaken(h) THEN Append(passedOn, h) ELSE passedOn
    BY <2>1, <2>4 DEF PassOn
  <2>6. done' = Append(done, h)
    BY <2>1 DEF Did
  <2>7. CASE type = "kFatalFailure" \/ ~ InProperty
    <3>1. ~ Discards(h) /\ ~ FailsCase(h) /\ ~ EndsBody(h)
      BY <2>3, <2>7, OtherTold
    <3>2. UNCHANGED <<resultType, messages, reported>>
      BY <2>1, <2>7
    <3> QED
      BY <2>2, <2>4, <2>5, <2>6, <3>1, <3>2 DEF Told, Reported
  <2>8. CASE type # "kFatalFailure" /\ InProperty
    <3>1. r \in CaseResult /\ reportResult(r)
      BY <2>1, <2>8 DEF CaseResult, Types
    <3>2. \A t : Reported(t)' <=> (Reported(t) \/ r.type = t)
      BY <3>1, ReportedGrows DEF reportResult, TypeOK
    <3>3. DOMAIN Conditional = {"RC_ASSERT", "RC_ASSERT_FALSE", "RC_SUCCEED_IF", "RC_PRE"}
      BY DEF Conditional
    <3>4. ~ Discards(h) /\ ~ EndsBody(h)
      BY <2>3, <2>8, <3>3 DEF Discards, EndsBody, FailsCase, Escapes
    <3>5. FailsCase(h) <=> r.type = "Failure"
      BY <2>3, <2>8, <3>3 DEF FailsCase, Escapes
    <3>6. r.type # "Discard"
      OBVIOUS
    <3> QED
      BY <2>2, <2>4, <2>5, <2>6, <3>2, <3>4, <3>5, <3>6 DEF Told
  <2> QED
    BY <2>7, <2>8
<1>8. CASE OnOther
  <2>1. PICK name \in Events :
          /\ Did([does |-> name, inProperty |-> InProperty])
          /\ PassOn([does |-> name, inProperty |-> InProperty], FALSE)
    BY <1>8 DEF OnOther
  <2> DEFINE h == [does |-> name, inProperty |-> InProperty]
  <2>2. ~ Discards(h) /\ ~ FailsCase(h) /\ ~ EndsBody(h)
    BY OtherTold
  <2>3. name \notin {"log", "tag", "classify"}
    BY BodyAssumption DEF Statements
  <2>4. ~ IsLog(h) /\ ~ AddsTags(h) /\ NotTaken(h)
    BY <2>3 DEF IsLog, AddsTags, NotTaken
  <2>5. passedOn' = IF m_delegate THEN Append(passedOn, h) ELSE passedOn
    BY <2>1 DEF PassOn
  <2> QED
    BY <1>8, <2>1, <2>2, <2>4, <2>5 DEF OnOther, Told, Did, vars, Reported
<1> QED
  BY <1>1, <1>2, <1>3, <1>4, <1>5, <1>6, <1>7, <1>8 DEF BodyNext

LinesOf(those) == [k \in DOMAIN those |-> those[k].line]
AllTagsOf(those) == [k \in DOMAIN those |-> TagsOf(those[k])]

\* What the state of a body keeps of its history.
HistoryInv ==
    /\ \E S : done \in Seq(S)
    /\ Reported("Discard") <=> Happened(Discards)
    /\ Reported("Failure") <=> Happened(FailsCase)
    /\ EndDocumented
    /\ m_logStream = LinesOf(Those(IsLog))
    /\ AllTagsOf(Those(AddsTags)) \in Seq(Seq(Tags))
    /\ m_tags = FlattenSeq(AllTagsOf(Those(AddsTags)))
    /\ DelegateSeesRest

\* One more line.
LEMMA LinesGrow ==
    ASSUME NEW S, NEW those \in Seq(S), NEW h \in S
    PROVE  LinesOf(Append(those, h)) = Append(LinesOf(those), h.line)
<1> DEFINE T == {x.line : x \in S}
           n == Len(those)
           more == Append(those, h)
<1>1. /\ n \in Nat /\ DOMAIN those = 1..n
      /\ \A k \in 1..n : those[k] \in S
  BY LenProperties, ElementOfSeq
<1>2. /\ DOMAIN more = 1..(n + 1) /\ more[n + 1] = h
      /\ \A k \in 1..n : more[k] = those[k]
  <2>1. more \in Seq(S) /\ Len(more) = n + 1
    BY AppendProperties
  <2> QED
    BY <2>1, AppendProperties, LenProperties
<1>3. LinesOf(those) \in Seq(T) /\ Len(LinesOf(those)) = n
  BY <1>1 DEF LinesOf
<1>4. LinesOf(more) \in Seq(T) /\ Len(LinesOf(more)) = n + 1
  <2>1. \A k \in 1..(n + 1) : more[k].line \in T
    BY <1>1, <1>2
  <2> HIDE DEF T, more
  <2> QED
    BY <1>1, <1>2, <2>1 DEF LinesOf
<1>5. /\ Append(LinesOf(those), h.line) \in Seq(T)
      /\ Len(Append(LinesOf(those), h.line)) = n + 1
      /\ \A k \in 1..n : Append(LinesOf(those), h.line)[k] = LinesOf(those)[k]
      /\ Append(LinesOf(those), h.line)[n + 1] = h.line
  <2>1. h.line \in T
    OBVIOUS
  <2> HIDE DEF T
  <2> QED
    BY <1>3, <2>1, AppendProperties
<1>6. \A k \in 1..(n + 1) : LinesOf(more)[k] = Append(LinesOf(those), h.line)[k]
  <2> HIDE DEF T, more
  <2>1. \A k \in 1..n : LinesOf(those)[k] = those[k].line
    BY <1>1 DEF LinesOf
  <2>2. \A k \in 1..(n + 1) : LinesOf(more)[k] = more[k].line
    BY <1>1, <1>2 DEF LinesOf
  <2> QED
    BY <1>1, <1>2, <1>5, <2>1, <2>2
<1> HIDE DEF T, more
<1>7. LinesOf(more) = Append(LinesOf(those), h.line)
  BY <1>4, <1>5, <1>6, SeqEqual
<1> QED
  BY <1>7 DEF more

\* The tags of one more statement.
LEMMA AllTagsGrow ==
    ASSUME NEW S, NEW those \in Seq(S), NEW h \in S,
           AllTagsOf(those) \in Seq(Seq(Tags)), TagsOf(h) \in Seq(Tags)
    PROVE  AllTagsOf(Append(those, h)) = Append(AllTagsOf(those), TagsOf(h))
<1> DEFINE T == Seq(Tags)
           n == Len(those)
           more == Append(those, h)
<1>1. n \in Nat /\ DOMAIN those = 1..n
  BY LenProperties
<1>2. /\ DOMAIN more = 1..(n + 1) /\ more[n + 1] = h
      /\ \A k \in 1..n : more[k] = those[k]
  <2>1. more \in Seq(S) /\ Len(more) = n + 1
    BY AppendProperties
  <2> QED
    BY <2>1, AppendProperties, LenProperties
<1> HIDE DEF T, more
<1>3. AllTagsOf(those) \in Seq(T) /\ Len(AllTagsOf(those)) = n
  BY <1>1 DEF AllTagsOf, T
<1>4. \A k \in 1..n : AllTagsOf(those)[k] = TagsOf(those[k]) /\ TagsOf(those[k]) \in T
  <2>1. \A k \in 1..n : AllTagsOf(those)[k] \in T
    BY <1>3, ElementOfSeq
  <2> QED
    BY <1>1, <2>1 DEF AllTagsOf
<1>5. TagsOf(h) \in T
  BY DEF T
<1>6. AllTagsOf(more) \in Seq(T) /\ Len(AllTagsOf(more)) = n + 1
  <2>1. \A k \in 1..(n + 1) : TagsOf(more[k]) \in T
    BY SMTT(30), <1>1, <1>2, <1>4, <1>5
  <2> QED
    BY <1>1, <1>2, <2>1 DEF AllTagsOf
<1>7. /\ Append(AllTagsOf(those), TagsOf(h)) \in Seq(T)
      /\ Len(Append(AllTagsOf(those), TagsOf(h))) = n + 1
      /\ \A k \in 1..n : Append(AllTagsOf(those), TagsOf(h))[k] = AllTagsOf(those)[k]
      /\ Append(AllTagsOf(those), TagsOf(h))[n + 1] = TagsOf(h)
  BY <1>3, <1>5, AppendProperties
<1>8. \A k \in 1..(n + 1) : AllTagsOf(more)[k] = Append(AllTagsOf(those), TagsOf(h))[k]
  <2>1. \A k \in 1..(n + 1) : AllTagsOf(more)[k] = TagsOf(more[k])
    BY <1>1, <1>2 DEF AllTagsOf
  <2> QED
    BY <1>1, <1>2, <1>4, <1>7, <2>1
<1>9. AllTagsOf(more) = Append(AllTagsOf(those), TagsOf(h))
  BY <1>6, <1>7, <1>8, SeqEqual
<1> QED
  BY <1>9 DEF more

\* A step adds one entry to the history, and to what it is one of.
LEMMA HistoryGrows ==
    ASSUME NEW S, done \in Seq(S), NEW h \in S, done' = Append(done, h)
    PROVE  /\ Happened(Discards)' <=> (Happened(Discards) \/ Discards(h))
           /\ Happened(FailsCase)' <=> (Happened(FailsCase) \/ FailsCase(h))
           /\ Happened(EndsBody)' <=> (Happened(EndsBody) \/ EndsBody(h))
           /\ Those(IsLog)' = IF IsLog(h) THEN Append(Those(IsLog), h) ELSE Those(IsLog)
           /\ Those(AddsTags)' = IF AddsTags(h) THEN Append(Those(AddsTags), h)
                                 ELSE Those(AddsTags)
           /\ Those(NotTaken)' = IF NotTaken(h) THEN Append(Those(NotTaken), h)
                                 ELSE Those(NotTaken)
<1> DEFINE n == Len(done)
<1>1. /\ n \in Nat /\ DOMAIN done = 1..n /\ DOMAIN done' = 1..(n + 1)
      /\ done'[n + 1] = h /\ \A k \in 1..n : done'[k] = done[k]
  <2>1. done' \in Seq(S) /\ Len(done') = n + 1
    BY AppendProperties
  <2> QED
    BY <2>1, AppendProperties, LenProperties
<1> HIDE DEF n
<1>2. Happened(Discards)' <=> (Happened(Discards) \/ Discards(h))
  BY <1>1 DEF Happened
<1>3. Happened(FailsCase)' <=> (Happened(FailsCase) \/ FailsCase(h))
  BY <1>1 DEF Happened
<1>4. Happened(EndsBody)' <=> (Happened(EndsBody) \/ EndsBody(h))
  BY <1>1 DEF Happened
<1>5. ASSUME NEW P, NEW Q, SameTo(P, Q, n)
      PROVE  /\ n + 1 \in Q => At(done', Q) = Append(At(done, P), h)
             /\ n + 1 \notin Q => At(done', Q) = At(done, P)
  BY <1>5, AtAppend DEF n
<1>6. Those(IsLog)' = IF IsLog(h) THEN Append(Those(IsLog), h) ELSE Those(IsLog)
  <2> DEFINE P == {k \in 1..n : IsLog(done[k])}
             Q == {k \in 1..(n + 1) : IsLog(done'[k])}
  <2>1. SameTo(P, Q, n) /\ (n + 1 \in Q <=> IsLog(h))
    BY <1>1 DEF SameTo
  <2>2. Those(IsLog) = At(done, P) /\ Those(IsLog)' = At(done', Q)
    BY <1>1 DEF Those
  <2> HIDE DEF P, Q
  <2> QED
    BY <1>5, <2>1, <2>2
<1>7. Those(AddsTags)' = IF AddsTags(h) THEN Append(Those(AddsTags), h) ELSE Those(AddsTags)
  <2> DEFINE P == {k \in 1..n : AddsTags(done[k])}
             Q == {k \in 1..(n + 1) : AddsTags(done'[k])}
  <2>1. SameTo(P, Q, n) /\ (n + 1 \in Q <=> AddsTags(h))
    BY <1>1 DEF SameTo
  <2>2. Those(AddsTags) = At(done, P) /\ Those(AddsTags)' = At(done', Q)
    BY <1>1 DEF Those
  <2> HIDE DEF P, Q
  <2> QED
    BY <1>5, <2>1, <2>2
<1>8. Those(NotTaken)' = IF NotTaken(h) THEN Append(Those(NotTaken), h) ELSE Those(NotTaken)
  <2> DEFINE P == {k \in 1..n : NotTaken(done[k])}
             Q == {k \in 1..(n + 1) : NotTaken(done'[k])}
  <2>1. SameTo(P, Q, n) /\ (n + 1 \in Q <=> NotTaken(h))
    BY <1>1 DEF SameTo
  <2>2. Those(NotTaken) = At(done, P) /\ Those(NotTaken)' = At(done', Q)
    BY <1>1 DEF Those
  <2> HIDE DEF P, Q
  <2> QED
    BY <1>5, <2>1, <2>2
<1> QED
  BY <1>2, <1>3, <1>4, <1>6, <1>7, <1>8

LEMMA HistoryStep ==
    ASSUME HistoryInv, TypeOK, TypeOK', NEW h, Told(h)
    PROVE  HistoryInv'
<1>1. PICK S0 : done \in Seq(S0)
  BY DEF HistoryInv
<1> DEFINE S == S0 \cup {h}
<1>2. done \in Seq(S) /\ h \in S
  BY <1>1, SeqMonotonic
<1> HIDE DEF S
<1>3. done' = Append(done, h) /\ done' \in Seq(S)
  BY <1>2, AppendProperties DEF Told
<1>4. /\ Happened(Discards)' <=> (Happened(Discards) \/ Discards(h))
      /\ Happened(FailsCase)' <=> (Happened(FailsCase) \/ FailsCase(h))
      /\ Happened(EndsBody)' <=> (Happened(EndsBody) \/ EndsBody(h))
      /\ Those(IsLog)' = IF IsLog(h) THEN Append(Those(IsLog), h) ELSE Those(IsLog)
      /\ Those(AddsTags)' = IF AddsTags(h) THEN Append(Those(AddsTags), h)
                            ELSE Those(AddsTags)
      /\ Those(NotTaken)' = IF NotTaken(h) THEN Append(Those(NotTaken), h)
                            ELSE Those(NotTaken)
  BY <1>2, <1>3, HistoryGrows
<1>5. Those(IsLog) \in Seq(S) /\ Those(AddsTags) \in Seq(S)
  BY <1>2, AtType DEF Those
<1>6. /\ Reported("Discard")' <=> Happened(Discards)'
      /\ Reported("Failure")' <=> Happened(FailsCase)'
  BY <1>4 DEF HistoryInv, Told
<1>7. EndDocumented'
  BY <1>4 DEF HistoryInv, Told, EndDocumented, TypeOK
<1>8. m_logStream' = LinesOf(Those(IsLog)')
  <2>1. CASE IsLog(h)
    <3>1. LinesOf(Append(Those(IsLog), h)) = Append(LinesOf(Those(IsLog)), h.line)
      BY <1>2, <1>5, LinesGrow
    <3> QED
      BY <1>4, <2>1, <3>1 DEF HistoryInv, Told
  <2>2. CASE ~ IsLog(h)
    BY <1>4, <2>2 DEF HistoryInv, Told
  <2> QED
    BY <2>1, <2>2
<1>9. /\ AllTagsOf(Those(AddsTags)') \in Seq(Seq(Tags))
      /\ m_tags' = FlattenSeq(AllTagsOf(Those(AddsTags)'))
  <2>1. CASE AddsTags(h)
    <3>1. TagsOf(h) \in Seq(Tags) /\ AllTagsOf(Those(AddsTags)) \in Seq(Seq(Tags))
      BY <2>1 DEF HistoryInv, Told
    <3>2. AllTagsOf(Append(Those(AddsTags), h)) = Append(AllTagsOf(Those(AddsTags)), TagsOf(h))
      BY <1>2, <1>5, <3>1, AllTagsGrow
    <3>3. FlattenSeq(Append(AllTagsOf(Those(AddsTags)), TagsOf(h)))
            = FlattenSeq(AllTagsOf(Those(AddsTags))) \o TagsOf(h)
      BY <3>1, FlattenAppend
    <3>4. Append(AllTagsOf(Those(AddsTags)), TagsOf(h)) \in Seq(Seq(Tags))
      BY <3>1, AppendProperties
    <3> QED
      BY <1>4, <2>1, <3>2, <3>3, <3>4 DEF HistoryInv, Told
  <2>2. CASE ~ AddsTags(h)
    BY <1>4, <2>2 DEF HistoryInv, Told
  <2> QED
    BY <2>1, <2>2
<1>10. DelegateSeesRest'
  BY <1>4 DEF HistoryInv, Told, DelegateSeesRest
<1> QED
  BY <1>3, <1>6, <1>7, <1>8, <1>9, <1>10 DEF HistoryInv

LEMMA HistoryInit == BodyInit => HistoryInv
<1> SUFFICES ASSUME BodyInit PROVE HistoryInv
  OBVIOUS
<1>1. done = <<>> /\ DOMAIN done = {} /\ \A S : done \in Seq(S)
  BY EmptySeq DEF BodyInit
<1>2. ~ Happened(Discards) /\ ~ Happened(FailsCase) /\ ~ Happened(EndsBody)
  BY <1>1 DEF Happened
<1>3. ~ Reported("Discard") /\ ~ Reported("Failure") /\ running
  BY DEF BodyInit, Init, Reported
<1>4. Those(IsLog) = <<>> /\ Those(AddsTags) = <<>> /\ Those(NotTaken) = <<>>
  BY <1>1, AtEmpty DEF Those
<1>5. LinesOf(<<>>) = <<>> /\ AllTagsOf(<<>>) = <<>>
  BY DEF LinesOf, AllTagsOf
<1>6. FlattenSeq(<<>>) = <<>> /\ <<>> \in Seq(Seq(Tags))
  BY EmptySeq DEF FlattenSeq
<1>7. m_logStream = <<>> /\ m_tags = <<>> /\ passedOn = <<>>
  BY DEF BodyInit
<1> QED
  BY <1>1, <1>2, <1>3, <1>4, <1>5, <1>6, <1>7
  DEF HistoryInv, EndDocumented, DelegateSeesRest

\* What the state of a body says of its history, always.
THEOREM HistoryInvariance == BodySpec => []HistoryInv
<1>1. TypeOK /\ TypeOK' /\ HistoryInv /\ [BodyNext]_bodyVars => HistoryInv'
  <2> SUFFICES ASSUME TypeOK, TypeOK', HistoryInv, [BodyNext]_bodyVars PROVE HistoryInv'
    OBVIOUS
  <2>1. CASE BodyNext
    BY <2>1, StepTold, HistoryStep
  <2>2. CASE UNCHANGED bodyVars
    BY <2>2 DEF bodyVars, vars, HistoryInv, Reported, Happened, EndDocumented, Those,
                DelegateSeesRest
  <2> QED
    BY <2>1, <2>2
<1>2. BodySpec => []TypeOK
  BY Implements, TypeCorrect
<1> QED
  BY <1>1, <1>2, HistoryInit, PTL DEF BodySpec

\* The result of a case tells all that happened in its body, for any body, messages,
\* tags and events: the documented verdict, the messages that explain it, the log and
\* the tags; and the framework has seen the rest, and only that.
THEOREM TellsAll == BodySpec => []ResultTellsAll
<1>1. IInv /\ HistoryInv => ResultTellsAll
  <2> SUFFICES ASSUME IInv, HistoryInv PROVE ResultTellsAll
    OBVIOUS
  <2>1. VerdictDocumented
    BY DEF IInv, WorstCounts, HistoryInv, VerdictDocumented, Result
  <2>2. LogAndTagsKept
    BY DEF HistoryInv, LogAndTagsKept, Result, LinesOf, AllTagsOf
  <2> QED
    BY <2>1, <2>2 DEF IInv, HistoryInv, ResultTellsAll
<1> QED
  BY <1>1, Implements, Invariance, HistoryInvariance, PTL
=============================================================================
