------------------------- MODULE StatefulTestProofs -------------------------
(***************************************************************************)
(* Sequences of commands under any number of commands, types of them and   *)
(* tries, for every answer their preconditions can give: what is generated *)
(* and repaired is valid from start to end, a repair changes no more than  *)
(* it must, and the system under test and its model stay in step.          *)
(*                                                                         *)
(* The argument follows the loop.  The entries it has been through are     *)
(* valid one after the other, and the state it threads is the one they     *)
(* lead to.  Of the entries of a shrink, all but one come unchanged from   *)
(* the parent or, behind the loop, are made anew where they had to be; the *)
(* one that was shrunk is not ahead of the loop, or everything up to it is *)
(* as legal as it was when it was picked, so that it is kept.              *)
(***************************************************************************)
EXTENDS StatefulTest, FiniteSetTheorems, SequenceTheorems, TLAPS

IsSeq(s) == s \in Seq({s[k] : k \in DOMAIN s})

\* The state that the first n commands lead to.
Applied(es, n) == [j \in 1..n |-> es[j].command]

\* The command has said v in the state s.
Said(command, s, v) ==
    <<command, s>> \in DOMAIN checks /\ checks[<<command, s>>] = v

Valid(es, k) == Said(es[k].command, Applied(es, k - 1), "valid")

\* The entries that the loop has been through.
Through == IF pc = "repair" THEN i - 1 ELSE Len(entries)

Types ==
    /\ IsSeq(entries)
    /\ \A k \in DOMAIN entries :
         \E random, command : entries[k] = Entry(random, command)
    /\ i \in Nat
    /\ pc \in {"generate", "repair", "ready", "threw"}
    /\ pc = "generate" => parent = <<>>

\* The loop of generateInitial and of repairEntries.
Loop ==
    pc # "threw" =>
      /\ Through \in 0..Len(entries)
      /\ pc # "ready" => state = Applied(entries, Through)
      /\ \A k \in 1..Through : Valid(entries, k)

\* The entry is the parent's, or was remade behind the loop.
Accounted(k) ==
    Kept(entries[k]) \/ (k <= Through /\ Remade(entries[k], stateAt(k)))

\* All entries but at most the one at c, which is the parent's shrunk, and is legal
\* ahead of the loop.
Shrinks(c) ==
    /\ \A k \in DOMAIN entries : k # c => Accounted(k)
    /\ c \in DOMAIN entries => Reduced(entries[c])
    /\ c \in DOMAIN entries /\ c > Through =>
         \A k \in (Through + 1)..c :
           \E v \in {"valid", "discards"} : Said(entries[k].command, Applied(entries, k - 1), v)

Repairs == pc \in {"repair", "ready"} /\ parent # <<>> => \E c \in Nat : Shrinks(c)

\* runAll, on a sequence that is ready.
Runs ==
    /\ test \in {"none", "running", "passed", "failed", "discarded"}
    /\ test # "none" => pc = "ready"
    /\ IsSeq(sut)
    /\ test = "running" =>
         /\ next \in 1..(Len(entries) + 1) /\ Len(sut) = next - 1
         /\ model = Applied(entries, next - 1)
         /\ \A k \in 1..(next - 1) : sut[k].command = entries[k].command

\* Each entry has a Random of its own: as generated, that of its place.
Apart(es) == \A j, k \in DOMAIN es : j # k => es[j].random # es[k].random

OwnRandoms ==
    /\ Apart(entries)
    /\ pc = "generate" => \A k \in DOMAIN entries : entries[k].random = k

CInv == Types /\ Loop /\ Repairs
IInv == CInv /\ Runs /\ ModelInStep
-----------------------------------------------------------------------------
(* Sequences *)

LEMMA SeqFacts ==
    ASSUME NEW s, IsSeq(s)
    PROVE  Len(s) \in Nat /\ DOMAIN s = 1..Len(s)
BY LenProperties DEF IsSeq

LEMMA IsSeqOf ==
    ASSUME NEW S, NEW s \in Seq(S)
    PROVE  IsSeq(s)
<1>1. s \in [1..Len(s) -> S] /\ Len(s) \in Nat /\ DOMAIN s = 1..Len(s)
  BY LenProperties
<1> DEFINE T == {s[k] : k \in DOMAIN s}
<1>2. s \in [1..Len(s) -> T]
  BY <1>1
<1>3. s \in Seq(T)
  <2> HIDE DEF T
  <2> QED
    BY <1>1, <1>2
<1> QED
  BY <1>3 DEF IsSeq

\* Append: the sequence, and one more.
LEMMA Appended ==
    ASSUME NEW s, IsSeq(s), NEW e
    PROVE  /\ IsSeq(Append(s, e)) /\ Len(Append(s, e)) = Len(s) + 1
           /\ \A k \in 1..Len(s) : Append(s, e)[k] = s[k]
           /\ Append(s, e)[Len(s) + 1] = e
<1> DEFINE S == {s[k] : k \in DOMAIN s} \cup {e}
           a == Append(s, e)
<1>1. s \in Seq(S)
  <2>1. s \in [1..Len(s) -> S] /\ Len(s) \in Nat
    BY LenProperties DEF IsSeq
  <2> QED
    BY <2>1 DEF IsSeq
<1>2. /\ a \in Seq(S) /\ Len(a) = Len(s) + 1
      /\ \A k \in 1..Len(s) : a[k] = s[k]
      /\ a[Len(s) + 1] = e
  BY <1>1, AppendProperties
<1>3. IsSeq(a)
  BY <1>2, IsSeqOf
<1> QED
  BY <1>2, <1>3

\* What is left of a sequence behind its first n elements.
LEMMA RestOf ==
    ASSUME NEW S, NEW s, NEW len \in Nat, NEW n \in 0..len,
           \A k \in (n + 1)..len : s[k] \in S
    PROVE  /\ SubSeq(s, n + 1, len) \in Seq(S)
           /\ Len(SubSeq(s, n + 1, len)) = len - n
           /\ \A k \in 1..(len - n) : SubSeq(s, n + 1, len)[k] = s[n + k]
<1> DEFINE r == SubSeq(s, n + 1, len)
<1>1. /\ r \in Seq(S)
      /\ Len(r) = IF n + 1 <= len THEN len - (n + 1) + 1 ELSE 0
      /\ \A k \in 1..(len - (n + 1) + 1) : r[k] = s[(n + 1) + k - 1]
  BY SubSeqProperties
<1> HIDE DEF r
<1>2. Len(r) = len - n
  BY <1>1
<1>3. len - (n + 1) + 1 = len - n
  OBVIOUS
<1>4. ASSUME NEW k \in 1..(len - n) PROVE r[k] = s[n + k]
  <2>1. r[k] = s[(n + 1) + k - 1]
    BY <1>1, <1>3
  <2>2. (n + 1) + k - 1 = n + k
    OBVIOUS
  <2> QED
    BY <2>1, <2>2
<1> QED
  BY <1>1, <1>2, <1>4 DEF r

\* Without: what is before the range, and what is after it.
LEMMA WithoutRange ==
    ASSUME NEW es, IsSeq(es), NEW m \in 1..Len(es), NEW n \in m..Len(es)
    PROVE  LET w == Without(es, <<m, n>>)
           IN /\ IsSeq(w) /\ Len(w) = Len(es) - (n - m + 1)
              /\ \A k \in 1..(m - 1) : w[k] = es[k]
              /\ \A k \in m..Len(w) : w[k] = es[k + (n - m + 1)]
<1> DEFINE S == {es[k] : k \in DOMAIN es}
           l == SubSeq(es, 1, m - 1)
           r == SubSeq(es, n + 1, Len(es))
           w == l \o r
<1>1. Len(es) \in Nat /\ DOMAIN es = 1..Len(es)
  BY SeqFacts
<1>2. l \in Seq(S) /\ Len(l) = m - 1 /\ \A k \in 1..(m - 1) : l[k] = es[k]
  <2>1. \A k \in 1..(m - 1) : es[k] \in S
    BY <1>1
  <2> HIDE DEF S
  <2>2. /\ l \in Seq(S) /\ Len(l) = IF 1 <= m - 1 THEN (m - 1) - 1 + 1 ELSE 0
        /\ \A k \in 1..((m - 1) - 1 + 1) : l[k] = es[1 + k - 1]
    BY <2>1, SubSeqProperties
  <2> QED
    BY <2>2, <1>1
<1>3. r \in Seq(S) /\ Len(r) = Len(es) - n /\ \A k \in 1..(Len(es) - n) : r[k] = es[n + k]
  <2>1. \A k \in (n + 1)..Len(es) : es[k] \in S
    BY <1>1
  <2>2. n \in 0..Len(es)
    BY <1>1
  <2> DEFINE z == Len(es)
  <2> HIDE DEF S, l, w, z
  <2>3. z \in Nat /\ n \in 0..z /\ \A k \in (n + 1)..z : es[k] \in S
    BY <1>1, <2>1, <2>2 DEF z
  <2>4. /\ SubSeq(es, n + 1, z) \in Seq(S)
        /\ Len(SubSeq(es, n + 1, z)) = z - n
        /\ \A k \in 1..(z - n) : SubSeq(es, n + 1, z)[k] = es[n + k]
    BY <2>3, RestOf
  <2> QED
    BY <2>4, Zenon DEF z
<1>4. /\ w \in Seq(S) /\ Len(w) = Len(l) + Len(r)
      /\ \A k \in 1..(Len(l) + Len(r)) : w[k] = IF k <= Len(l) THEN l[k] ELSE r[k - Len(l)]
  BY <1>2, <1>3, ConcatProperties
<1>5. IsSeq(w)
  BY <1>4, IsSeqOf
<1>9. Without(es, <<m, n>>) = w
  BY DEF Without
<1> HIDE DEF l, r, w
<1>6. Len(w) = Len(es) - (n - m + 1)
  BY <1>1, <1>2, <1>3, <1>4
<1>7. ASSUME NEW k \in 1..(m - 1) PROVE w[k] = es[k]
  <2>1. k \in 1..(Len(l) + Len(r)) /\ k <= Len(l)
    BY <1>1, <1>2, <1>3
  <2> QED
    BY <1>2, <1>4, <2>1
<1>8. ASSUME NEW k \in m..Len(w) PROVE w[k] = es[k + (n - m + 1)]
  <2>1. k \in 1..(Len(l) + Len(r)) /\ ~ k <= Len(l)
    BY <1>1, <1>2, <1>3, <1>4
  <2>2. w[k] = r[k - (m - 1)]
    BY <1>2, <1>4, <2>1
  <2>3. k - (m - 1) \in 1..(Len(es) - n)
    BY <1>1, <1>6
  <2>4. n + (k - (m - 1)) = k + (n - m + 1)
    BY <1>1, <1>6
  <2> QED
    BY <1>3, <2>2, <2>3, <2>4
<1> QED
  BY <1>5, <1>6, <1>7, <1>8, <1>9

\* One entry in the place of another.
LEMMA Replaced ==
    ASSUME NEW es, IsSeq(es), NEW n \in 1..Len(es), NEW e
    PROVE  LET r == [es EXCEPT ![n] = e]
           IN /\ IsSeq(r) /\ Len(r) = Len(es) /\ r[n] = e
              /\ \A k \in 1..Len(es) : k # n => r[k] = es[k]
<1> DEFINE S == {es[k] : k \in DOMAIN es} \cup {e}
           r == [es EXCEPT ![n] = e]
<1>1. es \in Seq(S)
  <2>1. es \in [1..Len(es) -> S] /\ Len(es) \in Nat
    BY LenProperties DEF IsSeq
  <2> QED
    BY <2>1 DEF IsSeq
<1>2. /\ r \in Seq(S) /\ Len(r) = Len(es)
      /\ \A k \in 1..Len(es) : r[k] = IF k = n THEN e ELSE es[k]
  BY <1>1, ExceptSeq
<1>3. IsSeq(r)
  BY <1>2, IsSeqOf
<1> QED
  BY <1>2, <1>3

-----------------------------------------------------------------------------
(* States *)

\* The state before an entry, in the words of this module.
LEMMA AppliedSubSeq ==
    ASSUME NEW es, IsSeq(es), NEW n \in 0..Len(es)
    PROVE  SubSeq(Commands(es), 1, n) = Applied(es, n)
<1> DEFINE cs == Commands(es)
           s  == SubSeq(cs, 1, n)
           S  == {cs[k] : k \in DOMAIN cs}
<1>1. Len(es) \in Nat /\ DOMAIN cs = 1..Len(es) /\ \A k \in 1..Len(es) : cs[k] = es[k].command
  BY SeqFacts DEF Commands
<1>2. \A k \in 1..n : cs[k] \in S
  BY <1>1
<1>3. /\ s \in Seq(S) /\ Len(s) = IF 1 <= n THEN n - 1 + 1 ELSE 0
      /\ \A k \in 1..(n - 1 + 1) : s[k] = cs[1 + k - 1]
  <2> HIDE DEF S, cs
  <2> QED
    BY <1>1, <1>2, SubSeqProperties
<1>4. Len(s) = n /\ \A k \in 1..n : s[k] = es[k].command
  BY <1>1, <1>3
<1>5. s \in [1..n -> S]
  BY <1>3, <1>4, LenProperties
<1> HIDE DEF s, S, cs
<1>6. s = [k \in 1..n |-> es[k].command]
  BY <1>4, <1>5
<1> QED
  BY <1>6 DEF Applied, s, cs

\* One command more.
LEMMA AppliedNext ==
    ASSUME NEW es, NEW n \in Nat
    PROVE  Append(Applied(es, n), es[n + 1].command) = Applied(es, n + 1)
<1> DEFINE a == Applied(es, n)
           b == Append(a, es[n + 1].command)
<1>1. a \in Seq({a[k] : k \in 1..n}) /\ Len(a) = n /\ \A k \in 1..n : a[k] = es[k].command
  BY DEF Applied
<1>2. IsSeq(a)
  BY <1>1, IsSeqOf
<1>3. /\ IsSeq(b) /\ Len(b) = n + 1 /\ b[n + 1] = es[n + 1].command
      /\ \A k \in 1..n : b[k] = es[k].command
  BY <1>1, <1>2, Appended
<1>4. b \in [1..(n + 1) -> {b[k] : k \in DOMAIN b}]
  BY <1>3, LenProperties DEF IsSeq
<1>5. \A k \in 1..(n + 1) : b[k] = es[k].command
  BY <1>3
<1> HIDE DEF a, b
<1>6. b = [k \in 1..(n + 1) |-> es[k].command]
  BY <1>4, <1>5
<1> QED
  BY <1>6 DEF Applied, a, b

\* Only the commands matter.
LEMMA AppliedSame ==
    ASSUME NEW es, NEW fs, NEW n \in Nat, \A k \in 1..n : es[k].command = fs[k].command
    PROVE  Applied(es, n) = Applied(fs, n)
BY DEF Applied

-----------------------------------------------------------------------------
(* Answers *)

\* What was said stays said.
Grows == \A q \in DOMAIN checks : q \in DOMAIN checks' /\ checks'[q] = checks[q]

LEMMA RememberedAnswers ==
    ASSUME NEW known, NEW asked, NEW v, asked \in DOMAIN known => known[asked] = v
    PROVE  LET r == Remembered(asked, v, known)
           IN /\ asked \in DOMAIN r /\ r[asked] = v
              /\ \A q \in DOMAIN known : q \in DOMAIN r /\ r[q] = known[q]
BY DEF Remembered

LEMMA SaysGrows ==
    ASSUME NEW command, NEW s, NEW v, Says(command, s, v)
    PROVE  /\ Grows
           /\ <<command, s>> \in DOMAIN checks' /\ checks'[<<command, s>>] = v
           /\ <<command, s>> \in DOMAIN checks => checks[<<command, s>>] = v
<1>1. <<command, s>> \in DOMAIN checks => checks[<<command, s>>] = v
  BY DEF Says
<1>2. checks' = Remembered(<<command, s>>, v, checks)
  BY DEF Says
<1> QED
  BY <1>1, <1>2, RememberedAnswers DEF Grows

-----------------------------------------------------------------------------
(* Steps of the sequence *)

\* The state before an entry.
LEMMA StateAtIs ==
    ASSUME Types
    PROVE  \A k \in DOMAIN entries : stateAt(k) = Applied(entries, k - 1)
<1> TAKE k \in DOMAIN entries
<1>1. IsSeq(entries) /\ k - 1 \in 0..Len(entries)
  BY SeqFacts DEF Types
<1> QED
  BY <1>1, AppliedSubSeq DEF stateAt

\* An entry that was accounted for still is, if it and what is before it stay.
LEMMA AccountedStays ==
    ASSUME Types, Types', Grows, parent' = parent,
           NEW k \in DOMAIN entries, k \in DOMAIN entries', entries'[k] = entries[k],
           k <= Through => Applied(entries', k - 1) = Applied(entries, k - 1),
           k <= Through => k <= Through',
           Accounted(k)
    PROVE  Accounted(k)'
<1>1. CASE Kept(entries[k])
  BY <1>1 DEF Accounted, Kept
<1>2. CASE k <= Through /\ Remade(entries[k], stateAt(k))
  <2> DEFINE s == Applied(entries, k - 1)
  <2>1. stateAt(k) = s
    BY StateAtIs
  <2>2. stateAt(k)' = s
    <3>1. IsSeq(entries') /\ k - 1 \in 0..Len(entries')
      BY SeqFacts DEF Types
    <3>2. SubSeq(Commands(entries'), 1, k - 1) = Applied(entries', k - 1)
      BY <3>1, AppliedSubSeq
    <3> QED
      BY <1>2, <3>2 DEF stateAt, Commands
  <2>3. PICK p \in DOMAIN parent :
          /\ parent[p].random = entries[k].random
          /\ entries[k].command = Generated(entries[k].random, s)
          /\ <<parent[p].command, s>> \in DOMAIN checks
          /\ checks[<<parent[p].command, s>>] = "invalid"
    BY <1>2, <2>1 DEF Remade
  <2>4. /\ <<parent[p].command, s>> \in DOMAIN checks'
        /\ checks'[<<parent[p].command, s>>] = "invalid"
    BY <2>3 DEF Grows
  <2>5. Remade(entries[k], stateAt(k))'
    <3> HIDE DEF s
    <3> QED
      BY <2>2, <2>3, <2>4 DEF Remade, Generated, Given, Kind
  <2> QED
    BY <1>2, <2>5 DEF Accounted
<1> QED
  BY <1>1, <1>2 DEF Accounted

\* Nothing of the sequence moves.
LEMMA Unmoved ==
    ASSUME CInv, Grows, UNCHANGED <<entries, state, pc, i, parent>>
    PROVE  CInv'
<1>1. Types'
  BY DEF CInv, Types
<1>2. Through' = Through
  BY DEF Through
<1>3. Loop'
  BY <1>2 DEF CInv, Loop, Grows, Valid, Said, Applied
<1>4. Repairs'
  <2> SUFFICES ASSUME pc \in {"repair", "ready"}, parent # <<>>
               PROVE  \E c \in Nat : Shrinks(c)'
    BY DEF Repairs
  <2>1. PICK c \in Nat : Shrinks(c)
    BY DEF CInv, Repairs
  <2>2. \A k \in DOMAIN entries' : k # c => Accounted(k)'
    <3> TAKE k \in DOMAIN entries'
    <3> HAVE k # c
    <3>1. Accounted(k)
      BY <2>1 DEF Shrinks
    <3>2. Applied(entries', k - 1) = Applied(entries, k - 1)
      OBVIOUS
    <3> QED
      BY <1>1, <1>2, <3>1, <3>2, AccountedStays DEF CInv
  <2>3. c \in DOMAIN entries' => Reduced(entries[c])'
    BY <2>1 DEF Shrinks, Reduced
  <2>4. ASSUME c \in DOMAIN entries', c > Through', NEW k \in (Through' + 1)..c
        PROVE  \E v \in {"valid", "discards"} :
                 Said(entries[k].command, Applied(entries, k - 1), v)'
    <3>1. PICK v \in {"valid", "discards"} : Said(entries[k].command, Applied(entries, k - 1), v)
      BY <2>1, <2>4, <1>2 DEF Shrinks
    <3> QED
      BY <3>1 DEF Said, Grows, Applied
  <2> QED
    BY <2>2, <2>3, <2>4 DEF Shrinks
<1> QED
  BY <1>1, <1>3, <1>4 DEF CInv

\* Generation or repair ends with what was thrown.
LEMMA FailsStays ==
    ASSUME CInv, parent' = parent, pc = "generate" => parent = <<>>,
           NEW command, NEW s, Fails(command, s)
    PROVE  CInv' /\ Grows
<1>1. Grows /\ ApplyThrows
  <2>1. PICK v \in {"discards", "throws"} : Says(command, s, v)
    BY DEF Fails
  <2> QED
    BY <2>1, SaysGrows DEF Fails
<1> QED
  BY <1>1 DEF ApplyThrows, CInv, Types, Loop, Repairs

\* generateInitial: one try.
LEMMA TryStep ==
    ASSUME CInv, Try
    PROVE  CInv' /\ Grows
<1> DEFINE n       == Len(entries)
           command == Generated(n + 1, state)
<1>0. /\ pc = "generate" /\ parent = <<>> /\ parent' = <<>>
      /\ IsSeq(entries) /\ n \in Nat /\ DOMAIN entries = 1..n
      /\ \A k \in DOMAIN entries : \E r, c : entries[k] = Entry(r, c)
      /\ state = Applied(entries, n) /\ \A k \in 1..n : Valid(entries, k)
      /\ i \in Nat
  BY SeqFacts DEF Try, CInv, Types, Loop, Through
<1>1. CASE /\ Says(command, state, "valid")
           /\ entries' = Append(entries, Entry(n + 1, command))
           /\ state' = Append(state, command)
           /\ UNCHANGED <<pc, i>>
  <2>1. /\ IsSeq(entries') /\ Len(entries') = n + 1 /\ DOMAIN entries' = 1..(n + 1)
        /\ \A k \in 1..n : entries'[k] = entries[k]
        /\ entries'[n + 1] = Entry(n + 1, command)
    BY <1>0, <1>1, Appended, SeqFacts
  <2>2. Types'
    BY <1>0, <1>1, <2>1 DEF Types
  <2>3. \A k \in 0..n : Applied(entries', k) = Applied(entries, k)
    BY <1>0, <2>1, AppliedSame
  <2>4. entries'[n + 1].command = command
    BY <2>1 DEF Entry
  <2>5. state' = Applied(entries', n + 1)
    <3>1. Append(Applied(entries', n), entries'[n + 1].command) = Applied(entries', n + 1)
      BY <1>0, AppliedNext
    <3>2. Applied(entries', n) = state
      BY <1>0, <2>3
    <3> QED
      BY <1>1, <2>4, <3>1, <3>2
  <2>6. Grows /\ <<command, state>> \in DOMAIN checks' /\ checks'[<<command, state>>] = "valid"
    BY <1>1, SaysGrows
  <2>7. ASSUME NEW k \in 1..(n + 1) PROVE Valid(entries, k)'
    <3>1. CASE k \in 1..n
      BY <1>0, <2>1, <2>3, <2>6, <3>1 DEF Valid, Said, Grows
    <3>2. CASE k = n + 1
      <4>1. Applied(entries', k - 1) = state
        BY <1>0, <2>3, <3>2
      <4> QED
        BY <2>4, <2>6, <3>2, <4>1 DEF Valid, Said
    <3> QED
      BY <1>0, <3>1, <3>2
  <2>8. Through' = n + 1 /\ pc' = "generate"
    BY <1>0, <1>1, <2>1 DEF Through
  <2>9. Loop'
    BY <1>0, <2>1, <2>5, <2>7, <2>8 DEF Loop
  <2>10. Repairs'
    BY <2>8 DEF Repairs
  <2> QED
    BY <2>2, <2>6, <2>9, <2>10 DEF CInv
<1>2. CASE Fails(command, state)
  BY <1>0, <1>2, FailsStays
<1>3. CASE UNCHANGED <<checks, entries, state, pc, i>>
  BY <1>0, <1>3, Unmoved DEF Grows
<1>4. CASE ApplyThrows /\ UNCHANGED checks
  BY <1>0, <1>4 DEF ApplyThrows, CInv, Types, Loop, Repairs, Grows
<1> QED
  BY <1>1, <1>2, <1>3, <1>4 DEF Try, NextRandom

\* generateInitial is done.
LEMMA EnoughStep ==
    ASSUME CInv, EnoughCommands
    PROVE  CInv' /\ Grows
<1>1. /\ pc = "generate" /\ pc' = "ready" /\ parent' = <<>>
      /\ UNCHANGED <<checks, entries, state, i>>
  BY DEF EnoughCommands, CInv, Types
<1>2. Types' /\ Repairs' /\ Grows
  BY <1>1 DEF CInv, Types, Repairs, Grows
<1>3. Through' = Through
  BY <1>1 DEF Through
<1>4. Loop'
  BY <1>1, <1>3 DEF CInv, Loop, Valid, Said, Applied
<1> QED
  BY <1>2, <1>4 DEF CInv

\* repairEntries is done.
LEMMA RepairedStep ==
    ASSUME CInv, Repaired
    PROVE  CInv' /\ Grows
<1>1. /\ pc = "repair" /\ pc' = "ready" /\ i > Len(entries)
      /\ UNCHANGED <<checks, entries, state, i, parent>>
  BY DEF Repaired
<1>2. Types' /\ Grows
  BY <1>1 DEF CInv, Types, Grows
<1>3. Through' = Through
  <2>1. i \in Nat /\ Len(entries) \in Nat /\ i - 1 \in 0..Len(entries)
    BY <1>1, SeqFacts DEF CInv, Types, Loop, Through
  <2> QED
    BY <1>1, <2>1 DEF Through
<1>4. Loop'
  BY <1>1, <1>3 DEF CInv, Loop, Valid, Said, Applied
<1>5. ASSUME NEW c, Shrinks(c) PROVE Shrinks(c)'
  BY ZenonT(40), <1>1, <1>3, <1>5 DEF Shrinks, Accounted, Kept, Remade, Reduced, stateAt, Commands,
                          Said, Applied
<1>6. Repairs'
  BY <1>1, <1>5 DEF CInv, Repairs
<1> QED
  BY <1>2, <1>4, <1>6 DEF CInv
\* repairEntries begins, on entries that are legal up to the one that is shrunk.
LEMMA RepairBegins ==
    ASSUME CInv, Grows, pc = "ready", NEW es, Repair(es), IsSeq(es),
           \A k \in DOMAIN es : \E random, command : es[k] = Entry(random, command),
           NEW c \in Nat,
           \A k \in DOMAIN es : k # c => \E p \in DOMAIN entries : es[k] = entries[p],
           c \in DOMAIN es => \E p \in DOMAIN entries :
             es[c].random = entries[p].random /\ es[c].command \in Shrunk(entries[p].command),
           c \in DOMAIN es => \A k \in 1..c : \E v \in {"valid", "discards"} :
             /\ <<es[k].command, Applied(es, k - 1)>> \in DOMAIN checks'
             /\ checks'[<<es[k].command, Applied(es, k - 1)>>] = v
    PROVE  CInv'
<1>1. pc' = "repair" /\ entries' = es /\ state' = <<>> /\ i' = 1 /\ parent' = entries
  BY DEF Repair
<1>2. Types'
  BY <1>1 DEF Types
<1>3. Through' = 0
  BY <1>1 DEF Through
<1>4. Applied(es, 0) = <<>>
  BY DEF Applied
<1>5. Loop'
  <2>1. Len(es) \in Nat
    BY SeqFacts
  <2> QED
    BY <1>1, <1>3, <1>4, <2>1 DEF Loop
<1>6. Shrinks(c)'
  <2>1. \A k \in DOMAIN entries' : k # c => Accounted(k)'
    BY <1>1 DEF Accounted, Kept
  <2>2. c \in DOMAIN entries' => Reduced(entries[c])'
    BY <1>1 DEF Reduced, Shrunk
  <2>3. ASSUME c \in DOMAIN entries', NEW k \in (Through' + 1)..c
        PROVE  \E v \in {"valid", "discards"} :
                 Said(entries[k].command, Applied(entries, k - 1), v)'
    <3>1. k \in 1..c
      BY <1>3
    <3>2. PICK v \in {"valid", "discards"} :
            /\ <<es[k].command, Applied(es, k - 1)>> \in DOMAIN checks'
            /\ checks'[<<es[k].command, Applied(es, k - 1)>>] = v
      BY <1>1, <2>3, <3>1
    <3>3. Applied(entries, k - 1)' = Applied(es, k - 1)
      BY <1>1 DEF Applied
    <3>4. Said(entries[k].command, Applied(entries, k - 1), v)'
      BY <1>1, <3>2, <3>3 DEF Said
    <3> QED
      BY <3>4
  <2> QED
    BY <2>1, <2>2, <2>3 DEF Shrinks
<1> QED
  BY <1>2, <1>5, <1>6 DEF CInv, Repairs

\* What is handed out is valid.
LEMMA ReadyIsValid ==
    ASSUME CInv, pc = "ready"
    PROVE  \A k \in 1..Len(entries) : Valid(entries, k)
BY DEF CInv, Loop, Through

\* shrinksRemoving.
LEMMA RemoveStep ==
    ASSUME CInv, RemoveRange
    PROVE  CInv' /\ Grows
<1>1. PICK r \in Subranges(Len(entries)) : Repair(Without(entries, r))
  BY DEF RemoveRange
<1>2. pc = "ready" /\ Grows
  BY DEF RemoveRange, Grows
<1>3. IsSeq(entries) /\ Len(entries) \in Nat /\ DOMAIN entries = 1..Len(entries)
  BY SeqFacts DEF CInv, Types
<1>4. PICK m \in 1..Len(entries), n \in 1..Len(entries) : n \in m..Len(entries) /\ r = <<m, n>>
  BY <1>3 DEF Subranges
<1> DEFINE es == Without(entries, <<m, n>>)
<1>5. /\ IsSeq(es) /\ Len(es) = Len(entries) - (n - m + 1)
      /\ \A k \in 1..(m - 1) : es[k] = entries[k]
      /\ \A k \in m..Len(es) : es[k] = entries[k + (n - m + 1)]
  BY <1>3, <1>4, WithoutRange
<1>6. DOMAIN es = 1..Len(es) /\ Len(es) \in Nat
  <2> HIDE DEF es
  <2> QED
    BY <1>5, SeqFacts
<1> HIDE DEF es
<1>7. \A k \in DOMAIN es : \E p \in DOMAIN entries : es[k] = entries[p]
  <2> TAKE k \in DOMAIN es
  <2>1. CASE k \in 1..(m - 1)
    BY <1>3, <1>5, <2>1
  <2>2. CASE k \in m..Len(es)
    <3>1. k + (n - m + 1) \in DOMAIN entries
      BY <1>3, <1>5, <2>2
    <3> QED
      BY <1>5, <2>2, <3>1
  <2> QED
    BY <1>6, <2>1, <2>2
<1>8. \A k \in DOMAIN es : \E random, command : es[k] = Entry(random, command)
  BY <1>7 DEF CInv, Types
<1>9. 0 \notin DOMAIN es /\ Repair(es)
  BY <1>1, <1>4, <1>6 DEF es
<1>10. CInv'
  BY ZenonT(40), <1>2, <1>5, <1>7, <1>8, <1>9, RepairBegins
<1> QED
  BY <1>2, <1>10

\* shrinksIndividual.
LEMMA ReplaceStep ==
    ASSUME CInv, ReplaceOne
    PROVE  CInv' /\ Grows
<1>1. PICK n \in DOMAIN entries, v \in {"valid", "discards"} :
        \E s \in Shrunk(entries[n].command) : Says(s, stateAt(n), v) /\ replaceShrinkable(n, s)
  <2>1. PICK k \in DOMAIN entries :
          \E s \in Shrunk(entries[k].command), v \in {"valid", "discards"} :
            Says(s, stateAt(k), v) /\ replaceShrinkable(k, s)
    BY DEF ReplaceOne
  <2> QED
    BY <2>1
<1>2. PICK s \in Shrunk(entries[n].command) :
         Says(s, stateAt(n), v) /\ replaceShrinkable(n, s)
  BY <1>1
<1>3. pc = "ready"
  BY DEF ReplaceOne
<1>4. IsSeq(entries) /\ Len(entries) \in Nat /\ DOMAIN entries = 1..Len(entries)
  BY SeqFacts DEF CInv, Types
<1>5. PICK random, command : entries[n] = Entry(random, command)
  BY DEF CInv, Types
<1> DEFINE es == [entries EXCEPT ![n] = Entry(random, s)]
<1>6. es = [entries EXCEPT ![n].command = s]
  <2>1. [entries[n] EXCEPT !.command = s] = Entry(random, s)
    BY <1>5 DEF Entry
  <2> QED
    BY <2>1
<1>7. /\ IsSeq(es) /\ Len(es) = Len(entries) /\ es[n] = Entry(random, s)
      /\ \A k \in 1..Len(entries) : k # n => es[k] = entries[k]
  BY <1>4, Replaced
<1>8. Repair(es)
  BY <1>2, <1>6 DEF replaceShrinkable
<1>9. DOMAIN es = DOMAIN entries
  BY <1>4
<1> HIDE DEF es
<1>10. \A k \in DOMAIN es : \E r, c : es[k] = Entry(r, c)
  BY <1>4, <1>7, <1>9 DEF CInv, Types
<1>11. \A k \in DOMAIN es : k # n => \E p \in DOMAIN entries : es[k] = entries[p]
  BY <1>4, <1>7, <1>9
<1>12. es[n].random = entries[n].random /\ es[n].command = s
  BY <1>5, <1>7 DEF Entry
<1>13. Grows /\ <<s, stateAt(n)>> \in DOMAIN checks' /\ checks'[<<s, stateAt(n)>>] = v
  BY <1>2, SaysGrows
<1>14. ASSUME NEW k \in 1..n
       PROVE  \E w \in {"valid", "discards"} :
                /\ <<es[k].command, Applied(es, k - 1)>> \in DOMAIN checks'
                /\ checks'[<<es[k].command, Applied(es, k - 1)>>] = w
  <2>1. Applied(es, k - 1) = Applied(entries, k - 1)
    BY <1>4, <1>7, AppliedSame
  <2>2. CASE k = n
    <3>1. stateAt(n) = Applied(entries, n - 1)
      BY StateAtIs DEF CInv
    <3> QED
      BY <1>12, <1>13, <2>1, <2>2, <3>1
  <2>3. CASE k # n
    <3>1. Valid(entries, k) /\ es[k] = entries[k]
      BY <1>3, <1>4, <1>7, <2>3, ReadyIsValid
    <3> QED
      BY <1>13, <2>1, <3>1 DEF Valid, Said, Grows
  <2> QED
    BY <2>2, <2>3
<1>15. CInv'
  <2>1. \E p \in DOMAIN entries :
          es[n].random = entries[p].random /\ es[n].command \in Shrunk(entries[p].command)
    BY <1>2, <1>12
  <2>2. n \in Nat
    BY <1>4
  <2> QED
    BY <1>3, <1>7, <1>8, <1>10, <1>11, <1>13, <1>14, <2>1, <2>2, RepairBegins
<1> QED
  BY <1>13, <1>15
\* repairEntryAt: the entry stays as it is.
LEMMA KeepStep ==
    ASSUME CInv, KeepEntry
    PROVE  CInv' /\ Grows
<1> DEFINE command == entries[i].command
<1>1. /\ pc = "repair" /\ i <= Len(entries) /\ parent' = parent
      /\ \/ /\ Says(command, state, "valid")
            /\ state' = Threaded(command) /\ i' = i + 1
            /\ UNCHANGED <<entries, pc>>
         \/ Fails(command, state)
  BY DEF KeepEntry
<1>2. /\ IsSeq(entries) /\ Len(entries) \in Nat /\ DOMAIN entries = 1..Len(entries)
      /\ i \in Nat /\ i - 1 \in 0..Len(entries) /\ Through = i - 1
      /\ state = Applied(entries, i - 1) /\ \A k \in 1..(i - 1) : Valid(entries, k)
  BY <1>1, SeqFacts DEF CInv, Types, Loop, Through
<1>3. CASE /\ Says(command, state, "valid")
           /\ state' = Threaded(command) /\ i' = i + 1
           /\ UNCHANGED <<entries, pc>>
  <2>1. Types'
    BY <1>2, <1>3, <1>1 DEF CInv, Types
  <2>2. Grows /\ <<command, state>> \in DOMAIN checks' /\ checks'[<<command, state>>] = "valid"
    BY <1>3, SaysGrows
  <2>3. Through' = i
    BY <1>1, <1>2, <1>3 DEF Through
  <2>4. state' = Applied(entries', i)
    <3>1. i \in Nat /\ i - 1 \in Nat /\ (i - 1) + 1 = i
      BY <1>2
    <3>2. Append(Applied(entries, i - 1), entries[i].command) = Applied(entries, i)
      BY <3>1, AppliedNext
    <3> QED
      BY <1>2, <1>3, <3>2 DEF Threaded
  <2>5. ASSUME NEW k \in 1..i PROVE Valid(entries, k)'
    <3>1. entries' = entries /\ Applied(entries', k - 1) = Applied(entries, k - 1)
      BY <1>3
    <3>2. CASE k \in 1..(i - 1)
      BY <1>2, <2>2, <3>1, <3>2 DEF Valid, Said, Grows
    <3>3. CASE k = i
      BY <1>2, <2>2, <3>1, <3>3 DEF Valid, Said
    <3> QED
      BY <1>2, <3>2, <3>3
  <2>6. Loop'
    BY <1>1, <1>2, <1>3, <2>3, <2>4, <2>5 DEF Loop
  <2>7. ASSUME NEW c \in Nat, Shrinks(c) PROVE Shrinks(c)'
    <3>1. ASSUME NEW k \in DOMAIN entries', k # c PROVE Accounted(k)'
      <4>1. Accounted(k) /\ k \in DOMAIN entries /\ entries' = entries
        BY <1>3, <2>7, <3>1 DEF Shrinks
      <4>2. Applied(entries', k - 1) = Applied(entries, k - 1)
        BY <4>1
      <4>3. k <= Through => k <= Through'
        BY <1>2, <2>3, <4>1
      <4> QED
        BY <1>1, <2>1, <2>2, <4>1, <4>2, <4>3, AccountedStays DEF CInv
    <3>2. c \in DOMAIN entries' => Reduced(entries[c])'
      BY <1>1, <1>3, <2>7 DEF Shrinks, Reduced
    <3>3. ASSUME c \in DOMAIN entries', c > Through', NEW k \in (Through' + 1)..c
          PROVE  \E v \in {"valid", "discards"} :
                   Said(entries[k].command, Applied(entries, k - 1), v)'
      <4>1. c > Through /\ k \in (Through + 1)..c /\ c \in DOMAIN entries
        BY <1>2, <1>3, <2>3, <3>3
      <4>2. PICK v \in {"valid", "discards"} :
              Said(entries[k].command, Applied(entries, k - 1), v)
        BY <2>7, <4>1 DEF Shrinks
      <4>3. Said(entries[k].command, Applied(entries, k - 1), v)'
        BY <1>3, <2>2, <4>2 DEF Said, Grows, Applied
      <4> QED
        BY <4>3
    <3> QED
      BY <3>1, <3>2, <3>3 DEF Shrinks
  <2>8. Repairs'
    BY <1>1, <1>3, <2>7 DEF CInv, Repairs
  <2> QED
    BY <2>1, <2>2, <2>6, <2>8 DEF CInv
<1>4. CASE Fails(command, state)
  BY <1>1, <1>2, <1>4, FailsStays
<1> QED
  BY <1>1, <1>3, <1>4

\* What regenerateEntryAt leaves of the entry that is shrunk, and of the rest.
LEMMA RegenerateStep ==
    ASSUME CInv, RegenerateEntry
    PROVE  CInv' /\ Grows
<1> DEFINE entry == entries[i]
           new   == Regenerated(entry)
           old   == <<entry.command, state>>
           asked == <<new, state>>
           after == Remembered(old, "invalid", checks)
<1>1. PICK v \in Verdicts :
        /\ pc = "repair" /\ i <= Len(entries) /\ parent' = parent
        /\ old \in DOMAIN checks => checks[old] = "invalid"
        /\ asked \in DOMAIN after => after[asked] = v
        /\ checks' = Remembered(asked, v, after)
        /\ \/ /\ v = "valid"
              /\ entries' = [entries EXCEPT ![i] = Entry(new.random, new)]
              /\ state' = Threaded(new) /\ i' = i + 1
              /\ UNCHANGED pc
           \/ v \in {"discards", "throws"} /\ ApplyThrows
           \/ /\ v = "invalid"
              /\ entries' = Erased(entries, i)
              /\ UNCHANGED <<state, pc, i>>
  BY DEF RegenerateEntry
<1>2. /\ IsSeq(entries) /\ Len(entries) \in Nat /\ DOMAIN entries = 1..Len(entries)
      /\ i \in Nat /\ i - 1 \in 0..Len(entries) /\ Through = i - 1
      /\ state = Applied(entries, i - 1) /\ \A k \in 1..(i - 1) : Valid(entries, k)
  BY <1>1, SeqFacts DEF CInv, Types, Loop, Through
<1>3. /\ Grows
      /\ old \in DOMAIN checks' /\ checks'[old] = "invalid"
      /\ asked \in DOMAIN checks' /\ checks'[asked] = v
  <2>1. /\ old \in DOMAIN after /\ after[old] = "invalid"
        /\ \A q \in DOMAIN checks : q \in DOMAIN after /\ after[q] = checks[q]
    BY <1>1, RememberedAnswers
  <2> HIDE DEF old, asked, after
  <2>2. /\ asked \in DOMAIN checks' /\ checks'[asked] = v
        /\ \A q \in DOMAIN after : q \in DOMAIN checks' /\ checks'[q] = after[q]
    BY <1>1, RememberedAnswers
  <2> QED
    BY <2>1, <2>2 DEF Grows
\* The loop has been at the entry that is shrunk.
<1>4. ASSUME NEW c \in Nat, Shrinks(c), c \in DOMAIN entries PROVE c < i
  <2>1. SUFFICES ASSUME c >= i PROVE FALSE
    BY <1>2, <1>4
  <2>2. PICK w \in {"valid", "discards"} : Said(entry.command, Applied(entries, i - 1), w)
    <3>1. c > Through /\ i \in (Through + 1)..c
      BY <1>2, <2>1
    <3> QED
      BY <1>4, <3>1 DEF Shrinks
  <2> QED
    BY <1>1, <1>2, <2>2 DEF Said
<1>5. CASE v \in {"discards", "throws"} /\ ApplyThrows
  BY <1>1, <1>3, <1>5 DEF ApplyThrows, CInv, Types, Loop, Repairs
\* Ahead of the loop, all but the one that was shrunk is the parent's.
<1>6. ASSUME NEW c \in Nat, Shrinks(c), parent # <<>> PROVE Kept(entry)
  <2>1. i \in DOMAIN entries /\ i # c /\ ~ i <= Through
    BY <1>1, <1>2, <1>4, <1>6
  <2> QED
    BY <1>6, <2>1 DEF Shrinks, Accounted
<1>7. CASE /\ v = "valid"
           /\ entries' = [entries EXCEPT ![i] = Entry(new.random, new)]
           /\ state' = Threaded(new) /\ i' = i + 1
           /\ UNCHANGED pc
  <2>1. i \in 1..Len(entries)
    BY <1>1, <1>2
  <2>2. /\ IsSeq(entries') /\ Len(entries') = Len(entries) /\ DOMAIN entries' = DOMAIN entries
        /\ entries'[i] = Entry(new.random, new)
        /\ \A k \in 1..Len(entries) : k # i => entries'[k] = entries[k]
    <3> HIDE DEF new
    <3>1. /\ IsSeq(entries') /\ Len(entries') = Len(entries)
          /\ entries'[i] = Entry(new.random, new)
          /\ \A k \in 1..Len(entries) : k # i => entries'[k] = entries[k]
      BY <1>2, <1>7, <2>1, Replaced
    <3>2. DOMAIN entries' = DOMAIN entries
      BY <1>7
    <3> QED
      BY <3>1, <3>2
  <2>3. Types'
    BY <1>1, <1>2, <1>7, <2>2 DEF CInv, Types
  <2>4. \A k \in 0..(i - 1) : Applied(entries', k) = Applied(entries, k)
    BY <1>2, <2>1, <2>2, AppliedSame
  <2>5. entries'[i].command = new /\ entries'[i].random = entry.random
    BY <2>2 DEF Entry, Regenerated, Generated
  <2>6. Through' = i
    BY <1>1, <1>2, <1>7 DEF Through
  <2>7. state' = Applied(entries', i)
    <3>1. i \in Nat /\ i - 1 \in Nat /\ (i - 1) + 1 = i /\ i - 1 \in 0..(i - 1)
      BY <1>2, <2>1
    <3>2. Append(Applied(entries', i - 1), entries'[i].command) = Applied(entries', i)
      BY <3>1, AppliedNext
    <3>3. Applied(entries', i - 1) = state
      BY <1>2, <2>4, <3>1
    <3> QED
      BY <1>7, <2>5, <3>2, <3>3 DEF Threaded
  <2>8. ASSUME NEW k \in 1..i PROVE Valid(entries, k)'
    <3>1. Applied(entries', k - 1) = Applied(entries, k - 1)
      BY <1>2, <2>4
    <3>2. CASE k \in 1..(i - 1)
      <4>1. entries'[k] = entries[k] /\ Valid(entries, k)
        BY <1>2, <2>1, <2>2, <3>2
      <4> QED
        BY <1>3, <3>1, <4>1 DEF Valid, Said, Grows
    <3>3. CASE k = i
      BY <1>2, <1>3, <1>7, <2>5, <3>1, <3>3 DEF Valid, Said
    <3> QED
      BY <1>2, <3>2, <3>3
  <2>9. Loop'
    <3>1. i \in 0..Len(entries')
      BY <1>2, <2>1, <2>2
    <3> QED
      BY <1>1, <1>7, <2>6, <2>7, <2>8, <3>1 DEF Loop
  <2>10. ASSUME NEW c \in Nat, Shrinks(c), parent # <<>> PROVE Shrinks(c)'
    <3>1. ASSUME NEW k \in DOMAIN entries', k # c PROVE Accounted(k)'
      <4>1. CASE k # i
        <5>1. k \in DOMAIN entries /\ entries'[k] = entries[k] /\ Accounted(k)
          BY <1>2, <2>2, <2>10, <3>1, <4>1 DEF Shrinks
        <5>2. k <= Through => Applied(entries', k - 1) = Applied(entries, k - 1)
          BY <1>2, <2>4, <5>1
        <5>3. k <= Through => k <= Through'
          BY <1>2, <2>6, <5>1
        <5> QED
          BY <1>1, <1>3, <2>3, <3>1, <5>1, <5>2, <5>3, AccountedStays DEF CInv
      <4>2. CASE k = i
        <5>1. PICK p \in DOMAIN parent : parent[p] = entry
          BY <1>6, <2>10 DEF Kept
        <5> DEFINE s == Applied(entries, i - 1)
        <5>2. stateAt(k)' = s
          <6>1. k - 1 \in 0..Len(entries')
            BY <1>2, <2>1, <2>2, <4>2
          <6>2. SubSeq(Commands(entries'), 1, k - 1) = Applied(entries', k - 1)
            BY <2>2, <6>1, AppliedSubSeq
          <6>3. Applied(entries', k - 1) = s
            <7>1. k - 1 = i - 1 /\ i - 1 \in 0..(i - 1)
              BY <1>2, <2>1, <4>2
            <7> QED
              BY <2>4, <7>1
          <6>4. stateAt(k)' = SubSeq(Commands(entries'), 1, k - 1)
            BY DEF stateAt, Commands
          <6> QED
            BY <6>2, <6>3, <6>4
        <5>3. state = s
          BY <1>2
        <5>4. /\ parent'[p].random = entries'[k].random
              /\ <<parent'[p].command, s>> \in DOMAIN checks'
              /\ checks'[<<parent'[p].command, s>>] = "invalid"
          BY <1>1, <1>3, <2>5, <4>2, <5>1, <5>3
        <5>5. entries'[k].command = Generated(entries'[k].random, s)
          BY <2>5, <4>2, <5>3 DEF Regenerated
        <5>6. Remade(entries[k], stateAt(k))'
          <6> HIDE DEF s
          <6> QED
            BY <1>1, <5>1, <5>2, <5>4, <5>5 DEF Remade, Generated, Given, Kind
        <5>7. k <= Through'
          BY <2>6, <4>2, <1>2
        <5> QED
          BY <5>6, <5>7 DEF Accounted
      <4> QED
        BY <4>1, <4>2
    <3>2. ASSUME c \in DOMAIN entries' PROVE Reduced(entries[c])' /\ ~ c > Through'
      <4>1. c \in DOMAIN entries /\ c < i
        BY <1>4, <2>2, <2>10, <3>2
      <4>2. entries'[c] = entries[c]
        BY <1>2, <2>2, <4>1
      <4>3. Reduced(entries[c])
        BY <2>10, <4>1 DEF Shrinks
      <4> QED
        BY <1>1, <1>2, <2>6, <4>1, <4>2, <4>3 DEF Reduced
    <3> QED
      BY <3>1, <3>2 DEF Shrinks
  <2>11. Repairs'
    BY <1>1, <1>7, <2>10 DEF CInv, Repairs
  <2> QED
    BY <1>3, <2>3, <2>9, <2>11 DEF CInv
<1>8. CASE /\ v = "invalid"
           /\ entries' = Erased(entries, i)
           /\ UNCHANGED <<state, pc, i>>
  <2>1. i \in 1..Len(entries) /\ i \in i..Len(entries)
    BY <1>1, <1>2
  <2>2. /\ IsSeq(entries') /\ Len(entries') = Len(entries) - 1
        /\ \A k \in 1..(i - 1) : entries'[k] = entries[k]
        /\ \A k \in i..Len(entries') : entries'[k] = entries[k + 1]
    <3>1. entries' = Without(entries, <<i, i>>)
      BY <1>8 DEF Erased
    <3>2. /\ IsSeq(entries') /\ Len(entries') = Len(entries) - (i - i + 1)
          /\ \A k \in 1..(i - 1) : entries'[k] = entries[k]
          /\ \A k \in i..Len(entries') : entries'[k] = entries[k + (i - i + 1)]
      BY ZenonT(40), <1>2, <2>1, <3>1, WithoutRange
    <3>3. i - i + 1 = 1
      BY <2>1
    <3> QED
      BY <3>2, <3>3
  <2>3. DOMAIN entries' = 1..Len(entries') /\ Len(entries') \in Nat
    BY <2>2, SeqFacts
  \* Each entry is one there was: the same one behind the loop, the next ahead of it.
  <2>4. ASSUME NEW k \in DOMAIN entries'
        PROVE  /\ k < i => k \in DOMAIN entries /\ entries'[k] = entries[k]
               /\ k >= i => k + 1 \in DOMAIN entries /\ entries'[k] = entries[k + 1]
    BY <1>2, <2>1, <2>2, <2>3
  <2>5. Types'
    <3>1. \A k \in DOMAIN entries' : \E p \in DOMAIN entries : entries'[k] = entries[p]
      BY <1>2, <2>3, <2>4
    <3> QED
      BY <1>1, <1>8, <2>2, <3>1 DEF CInv, Types
  <2>6. \A k \in 0..(i - 1) : Applied(entries', k) = Applied(entries, k)
    BY <1>2, <2>1, <2>2, AppliedSame
  <2>7. Through' = Through
    BY <1>1, <1>8 DEF Through
  <2>8. Loop'
    <3>1. i - 1 \in 0..Len(entries') /\ i - 1 \in 0..(i - 1)
      BY <1>2, <2>1, <2>2
    <3>2. ASSUME NEW k \in 1..(i - 1) PROVE Valid(entries, k)'
      <4>1. Applied(entries', k - 1) = Applied(entries, k - 1)
        BY <1>2, <2>6
      <4>2. entries'[k] = entries[k] /\ Valid(entries, k)
        BY <1>2, <2>2
      <4> QED
        BY <1>3, <4>1, <4>2 DEF Valid, Said, Grows
    <3> QED
      BY <1>1, <1>2, <1>8, <2>6, <2>7, <3>1, <3>2 DEF Loop
  <2>9. ASSUME NEW c \in Nat, Shrinks(c), parent # <<>>
        PROVE  \E d \in Nat : Shrinks(d)'
    \* The one that was shrunk is behind the loop, or there is none.
    <3>1. PICK d \in Nat :
            /\ d < i
            /\ d # 0 => d = c /\ c \in DOMAIN entries
            /\ c \in DOMAIN entries => d = c
      <4>1. CASE c \in DOMAIN entries
        BY <1>4, <2>9, <4>1
      <4>2. CASE c \notin DOMAIN entries
        BY <2>1, <4>2
      <4> QED
        BY <4>1, <4>2
    <3>2. ASSUME NEW k \in DOMAIN entries', k # d PROVE Accounted(k)'
      <4>1. CASE k < i
        <5>1. k \in DOMAIN entries /\ entries'[k] = entries[k] /\ k # c
          BY <2>4, <3>1, <3>2, <4>1
        <5>2. Accounted(k)
          BY <2>9, <5>1 DEF Shrinks
        <5>3. Applied(entries', k - 1) = Applied(entries, k - 1)
          BY <1>2, <2>3, <2>6, <4>1
        <5>4. k <= Through => k <= Through'
          BY <2>7
        <5> QED
          BY <1>1, <1>3, <2>5, <3>2, <5>1, <5>2, <5>3, <5>4, AccountedStays DEF CInv
      <4>2. CASE k >= i
        <5>1. k + 1 \in DOMAIN entries /\ entries'[k] = entries[k + 1] /\ ~ k + 1 <= Through
          BY <1>2, <2>3, <2>4, <4>2
        <5>2. k + 1 # c
          BY <1>2, <1>4, <2>3, <2>9, <4>2, <5>1
        <5>3. Kept(entries[k + 1])
          BY <2>9, <5>1, <5>2 DEF Shrinks, Accounted
        <5> QED
          BY <1>1, <5>1, <5>3 DEF Accounted, Kept
      <4> QED
        BY <1>2, <2>3, <4>1, <4>2
    <3>3. ASSUME d \in DOMAIN entries' PROVE Reduced(entries[d])' /\ ~ d > Through'
      <4>1. d # 0 /\ d = c /\ c \in DOMAIN entries
        BY <2>3, <3>1, <3>3
      <4>2. entries'[d] = entries[c]
        BY <2>4, <3>1, <3>3, <4>1
      <4>3. Reduced(entries[c])
        BY <2>9, <4>1 DEF Shrinks
      <4>4. ~ d > Through'
        BY <1>2, <2>7, <3>1
      <4> QED
        BY <1>1, <4>2, <4>3, <4>4 DEF Reduced
    <3>4. Shrinks(d)'
      BY <3>2, <3>3 DEF Shrinks
    <3> QED
      BY <3>1, <3>4
  <2>10. Repairs'
    BY <1>1, <1>8, <2>9 DEF CInv, Repairs
  <2> QED
    BY <1>3, <2>5, <2>8, <2>10 DEF CInv
<1> QED
  BY <1>1, <1>5, <1>7, <1>8
-----------------------------------------------------------------------------
(* The Randoms of the entries *)

\* Removal: the ones that are left.
LEMMA RandomsWithout ==
    ASSUME NEW es, IsSeq(es), NEW m \in 1..Len(es), NEW n \in m..Len(es), Apart(es)
    PROVE  Apart(Without(es, <<m, n>>))
<1> DEFINE w       == Without(es, <<m, n>>)
           from == [k \in DOMAIN w |-> IF k < m THEN k ELSE k + (n - m + 1)]
<1>1. DOMAIN es = 1..Len(es) /\ Len(es) \in Nat
  BY SeqFacts
<1>2. /\ IsSeq(w) /\ Len(w) = Len(es) - (n - m + 1)
      /\ \A k \in 1..(m - 1) : w[k] = es[k]
      /\ \A k \in m..Len(w) : w[k] = es[k + (n - m + 1)]
  BY WithoutRange
<1> HIDE DEF w
<1>3. DOMAIN w = 1..Len(w) /\ Len(w) \in Nat
  BY <1>2, SeqFacts
<1>4. \A k \in DOMAIN w : from[k] \in DOMAIN es /\ w[k].random = es[from[k]].random
  <2> TAKE k \in DOMAIN w
  <2>1. CASE k < m
    BY <1>1, <1>2, <1>3, <2>1
  <2>2. CASE ~ k < m
    <3>1. k \in m..Len(w) /\ k + (n - m + 1) \in 1..Len(es)
      BY <1>1, <1>2, <1>3, <2>2
    <3> QED
      BY <1>1, <1>2, <2>2, <3>1
  <2> QED
    BY <2>1, <2>2
<1>5. \A j, k \in DOMAIN w : j # k => from[j] # from[k]
  BY <1>1, <1>3
<1>6. Apart(w)
  <2> HIDE DEF from
  <2> QED
    BY <1>4, <1>5 DEF Apart
<1> QED
  BY <1>6 DEF w

\* Generation, shrinking and repair.
LEMMA RandomsStep ==
    ASSUME CInv, OwnRandoms, Generate \/ Repairing \/ Shrink
    PROVE  OwnRandoms'
<1>1. IsSeq(entries) /\ DOMAIN entries = 1..Len(entries) /\ Len(entries) \in Nat
  BY SeqFacts DEF CInv, Types
<1>2. CASE entries' = entries /\ (pc' = "generate" => pc = "generate")
  BY <1>2 DEF OwnRandoms
<1>3. CASE Try
  <2> DEFINE n       == Len(entries)
             command == Generated(n + 1, state)
  <2>1. CASE entries' = Append(entries, Entry(n + 1, command))
    <3> DEFINE e == Entry(n + 1, command)
    <3>1. e.random = n + 1
      BY DEF Entry
    <3> HIDE DEF e
    <3>2. /\ IsSeq(entries') /\ Len(entries') = n + 1
          /\ \A k \in 1..n : entries'[k] = entries[k]
          /\ entries'[n + 1] = e
      BY <1>1, <2>1, Appended DEF e
    <3>3. DOMAIN entries' = 1..(n + 1)
      BY <3>2, SeqFacts
    <3>4. \A k \in 1..n : entries[k].random = k
      BY <1>1, <1>3 DEF Try, OwnRandoms
    <3>5. \A k \in DOMAIN entries' : entries'[k].random = k
      BY <1>1, <3>1, <3>2, <3>3, <3>4
    <3> QED
      BY <3>5 DEF OwnRandoms, Apart
  <2>2. CASE entries' = entries
    BY <1>2, <1>3, <2>2 DEF Try
  <2> QED
    BY <1>3, <2>1, <2>2 DEF Try, NextRandom, Fails, ApplyThrows
<1>4. CASE EnoughCommands \/ Repaired
  BY <1>2, <1>4 DEF EnoughCommands, Repaired
<1>5. CASE KeepEntry
  BY <1>2, <1>5 DEF KeepEntry, Fails, ApplyThrows
<1>6. CASE RegenerateEntry
  <2> DEFINE new == Regenerated(entries[i])
  <2>1. pc = "repair" /\ i \in 1..Len(entries)
    BY <1>1, <1>6 DEF RegenerateEntry, CInv, Types, Loop, Through
  <2>2. PICK v \in Verdicts :
          \/ entries' = [entries EXCEPT ![i] = Entry(new.random, new)] /\ pc' = pc
          \/ v \in {"discards", "throws"} /\ ApplyThrows
          \/ entries' = Erased(entries, i) /\ pc' = pc
    BY <1>6 DEF RegenerateEntry
  <2>3. CASE entries' = [entries EXCEPT ![i] = Entry(new.random, new)] /\ pc' = pc
    <3> DEFINE e == Entry(new.random, new)
    <3>1. e.random = entries[i].random
      BY DEF Entry, Regenerated, Generated
    <3> HIDE DEF e
    <3>2. /\ entries'[i] = e /\ DOMAIN entries' = DOMAIN entries
          /\ \A k \in DOMAIN entries : k # i => entries'[k] = entries[k]
      BY <1>1, <2>1, <2>3 DEF e
    <3>3. \A k \in DOMAIN entries' : entries'[k].random = entries[k].random
      BY <3>1, <3>2
    <3> QED
      BY <2>1, <2>3, <3>2, <3>3 DEF OwnRandoms, Apart
  <2>4. CASE ApplyThrows
    BY <1>2, <2>4 DEF ApplyThrows
  <2>5. CASE entries' = Erased(entries, i) /\ pc' = pc
    <3>1. i \in i..Len(entries) /\ entries' = Without(entries, <<i, i>>)
      BY <1>1, <2>1, <2>5 DEF Erased
    <3>2. Apart(entries')
      <4>1. i \in 1..Len(entries) /\ i \in i..Len(entries) /\ IsSeq(entries)
        BY <1>1, <2>1, <3>1
      <4> QED
        BY <3>1, <4>1, RandomsWithout, Zenon DEF OwnRandoms
    <3> QED
      BY <2>1, <2>5, <3>2 DEF OwnRandoms
  <2> QED
    BY <2>2, <2>3, <2>4, <2>5
<1>7. CASE RemoveRange
  <2>1. PICK r \in Subranges(Len(entries)) :
          entries' = Without(entries, r) /\ pc' = "repair"
    BY <1>7 DEF RemoveRange, Repair
  <2>2. PICK m \in 1..Len(entries), n \in 1..Len(entries) :
          n \in m..Len(entries) /\ r = <<m, n>>
    BY <1>1 DEF Subranges
  <2>3. entries' = Without(entries, <<m, n>>)
    BY <2>1, <2>2
  <2>4. Apart(entries')
    <3>1. m \in 1..Len(entries) /\ n \in m..Len(entries) /\ IsSeq(entries)
      BY <1>1, <2>2, <2>3
    <3> QED
      BY <2>3, <3>1, RandomsWithout, Zenon DEF OwnRandoms
  <2> QED
    BY <2>1, <2>4 DEF OwnRandoms
<1>8. CASE ReplaceOne
  <2>1. PICK n \in DOMAIN entries :
          \E s \in Shrunk(entries[n].command) :
            entries' = [entries EXCEPT ![n].command = s] /\ pc' = "repair"
    BY <1>8 DEF ReplaceOne, replaceShrinkable, Repair
  <2>2. PICK random, command : entries[n] = Entry(random, command)
    BY DEF CInv, Types
  <2>3. DOMAIN entries' = DOMAIN entries
    BY <2>1
  <2>4. \A k \in DOMAIN entries : entries'[k].random = entries[k].random
    BY <2>1, <2>2 DEF Entry
  <2> QED
    BY <2>1, <2>3, <2>4 DEF OwnRandoms, Apart
<1> QED
  BY <1>3, <1>4, <1>5, <1>6, <1>7, <1>8 DEF Generate, Repairing, Shrink

-----------------------------------------------------------------------------
(* Steps of a run *)

\* Generation and repair.
LEMMA MakeStep ==
    ASSUME CInv, Generate \/ Repairing
    PROVE  CInv' /\ Grows
BY TryStep, EnoughStep, KeepStep, RegenerateStep, RepairedStep DEF Generate, Repairing

\* Shrinking.
LEMMA ShrinkStep ==
    ASSUME CInv, Shrink
    PROVE  CInv' /\ Grows
BY RemoveStep, ReplaceStep DEF Shrink

\* What was run was legal, and it stays so.
LEMMA ModelStays ==
    ASSUME ModelInStep, Grows, sut' = sut
    PROVE  ModelInStep'
BY DEF ModelInStep, Grows

\* The next command, on the model and on the system.
LEMMA RunStep ==
    ASSUME IInv, RunCommand
    PROVE  IInv' /\ Grows
<1> DEFINE command == entries[next].command
<1>1. PICK v \in Verdicts :
        \E outcome \in Outcomes(v) :
          /\ test = "running" /\ next <= Len(entries)
          /\ Says(command, model, v)
          /\ test' = outcome
          /\ sut' = IF v \in {"invalid", "throws"} THEN sut
                    ELSE Append(sut, [command |-> command, given |-> GivenToRun(command)])
          /\ IF outcome = "running"
               THEN model' = Append(model, command) /\ next' = next + 1
               ELSE UNCHANGED <<model, next>>
          /\ UNCHANGED <<entries, state, pc, tries, i, count, parent>>
  BY DEF RunCommand
<1>2. /\ IsSeq(entries) /\ Len(entries) \in Nat
      /\ pc = "ready" /\ next \in 1..Len(entries)
      /\ IsSeq(sut) /\ Len(sut) = next - 1 /\ DOMAIN sut = 1..(next - 1)
      /\ model = Applied(entries, next - 1)
      /\ \A k \in 1..(next - 1) : sut[k].command = entries[k].command
  BY <1>1, SeqFacts DEF IInv, CInv, Types, Runs
<1>3. /\ Grows
      /\ <<command, model>> \in DOMAIN checks'
      /\ <<command, model>> \in DOMAIN checks => checks[<<command, model>>] = v
      /\ checks'[<<command, model>>] = v
  BY <1>1, SaysGrows
\* The sequence is valid, so the command is.
<1>4. v = "valid"
  <2>1. Valid(entries, next)
    BY <1>2, ReadyIsValid DEF IInv
  <2> QED
    BY <1>2, <1>3, <2>1 DEF Valid, Said
<1>5. /\ UNCHANGED <<entries, state, pc, i, parent>>
      /\ sut' = Append(sut, [command |-> command, given |-> model])
      /\ \/ test' = "running" /\ model' = Append(model, command) /\ next' = next + 1
         \/ test' \in {"failed", "discarded"} /\ UNCHANGED <<model, next>>
  BY <1>1, <1>4 DEF Outcomes, GivenToRun
<1>6. CInv'
  BY <1>3, <1>5, Unmoved DEF IInv
<1>7. /\ IsSeq(sut') /\ Len(sut') = next /\ DOMAIN sut' = 1..next
      /\ \A k \in 1..(next - 1) : sut'[k] = sut[k]
      /\ sut'[next] = [command |-> command, given |-> model]
  <2> DEFINE e == [command |-> command, given |-> model]
  <2> HIDE DEF e
  <2>1. /\ IsSeq(sut') /\ Len(sut') = Len(sut) + 1
        /\ \A k \in 1..Len(sut) : sut'[k] = sut[k]
        /\ sut'[Len(sut) + 1] = e
    BY <1>2, <1>5, Appended DEF e
  <2>2. Len(sut) + 1 = next /\ Len(sut') = next
    BY <1>2, <2>1
  <2>3. DOMAIN sut' = 1..next
    BY <2>1, <2>2, SeqFacts
  <2> QED
    BY <1>2, <2>1, <2>2, <2>3 DEF e
<1>8. \A k \in 1..next : sut'[k].command = entries[k].command
  <2> TAKE k \in 1..next
  <2>1. CASE k \in 1..(next - 1)
    BY <1>2, <1>7, <2>1
  <2>2. CASE k = next
    BY <1>7, <2>2
  <2> QED
    BY <1>2, <2>1, <2>2
<1>9. ModelInStep'
  <2> SUFFICES ASSUME NEW k \in 1..next
               PROVE  /\ sut'[k].given = [j \in 1..(k - 1) |-> sut'[j].command]
                      /\ <<sut'[k].command, sut'[k].given>> \in DOMAIN checks'
                      /\ checks'[<<sut'[k].command, sut'[k].given>>] = "valid"
    BY <1>7 DEF ModelInStep
  <2>1. CASE k \in 1..(next - 1)
    <3>1. /\ k \in DOMAIN sut /\ sut'[k] = sut[k]
          /\ sut[k].given = [j \in 1..(k - 1) |-> sut[j].command]
          /\ <<sut[k].command, sut[k].given>> \in DOMAIN checks
          /\ checks[<<sut[k].command, sut[k].given>>] = "valid"
      BY <1>2, <1>7, <2>1 DEF IInv, ModelInStep
    <3>2. [j \in 1..(k - 1) |-> sut[j].command] = [j \in 1..(k - 1) |-> sut'[j].command]
      BY <1>2, <1>7, <2>1
    <3> QED
      BY <1>3, <3>1, <3>2 DEF Grows
  <2>2. CASE k = next
    <3>1. sut'[k].command = command /\ sut'[k].given = model
      BY <1>7, <2>2
    <3>2. model = [j \in 1..(k - 1) |-> sut'[j].command]
      BY <1>2, <1>8, <2>2 DEF Applied
    <3> QED
      BY <1>3, <1>4, <3>1, <3>2
  <2> QED
    BY <1>2, <2>1, <2>2
<1>10. Runs'
  <2>1. CASE test' = "running" /\ model' = Append(model, command) /\ next' = next + 1
    <3>1. next - 1 \in Nat /\ (next - 1) + 1 = next
      BY <1>2
    <3>2. Append(Applied(entries, next - 1), entries[next].command) = Applied(entries, next)
      BY <3>1, AppliedNext
    <3>3. model' = Applied(entries', next' - 1)
      <4>1. next' - 1 = next
        BY <1>2, <2>1
      <4>2. model' = Applied(entries, next)
        BY <1>2, <2>1, <3>2
      <4> QED
        BY <1>5, <4>1, <4>2
    <3>4. next' \in 1..(Len(entries') + 1) /\ Len(sut') = next' - 1
      BY <1>2, <1>5, <1>7, <2>1
    <3>5. \A k \in 1..(next' - 1) : sut'[k].command = entries'[k].command
      BY <1>2, <1>5, <1>8, <2>1
    <3> QED
      BY <1>2, <1>5, <1>7, <2>1, <3>3, <3>4, <3>5 DEF Runs
  <2>2. CASE test' \in {"failed", "discarded"}
    BY <1>2, <1>5, <1>7, <2>2 DEF Runs
  <2> QED
    BY <1>5, <2>1, <2>2
<1> QED
  BY <1>3, <1>6, <1>9, <1>10 DEF IInv

-----------------------------------------------------------------------------
\* IInv is an inductive invariant of stateful tests.
THEOREM Invariance == TestSpec => []IInv
<1>1. TestInit => IInv
  <2> SUFFICES ASSUME TestInit PROVE IInv
    OBVIOUS
  <2>1. /\ entries = <<>> /\ state = <<>> /\ parent = <<>> /\ pc = "generate" /\ i = 1
        /\ test = "none" /\ sut = <<>>
    BY DEF TestInit, Init
  <2>2. <<>> \in Seq({}) /\ Len(<<>>) = 0 /\ DOMAIN <<>> = {}
    OBVIOUS
  <2>3. IsSeq(<<>>)
    BY <2>2, IsSeqOf
  <2>4. Types
    BY <2>1, <2>2, <2>3 DEF Types
  <2>5. Applied(entries, 0) = <<>>
    BY DEF Applied
  <2>6. Loop
    BY <2>1, <2>2, <2>5 DEF Loop, Through
  <2>7. Repairs /\ Runs /\ ModelInStep
    BY <2>1, <2>2, <2>3 DEF Repairs, Runs, ModelInStep
  <2> QED
    BY <2>4, <2>6, <2>7 DEF IInv, CInv
<1>2. IInv /\ [TestNext]_allVars => IInv'
  <2> SUFFICES ASSUME IInv, [TestNext]_allVars PROVE IInv'
    OBVIOUS
  <2>1. CASE MakeSequence
    <3>1. CInv' /\ Grows /\ UNCHANGED run
      BY <2>1, MakeStep DEF IInv, MakeSequence
    <3>2. pc \in {"generate", "repair"}
      BY <2>1 DEF MakeSequence, Generate, Repairing, Try, EnoughCommands, KeepEntry,
                  RegenerateEntry, Repaired
    <3>3. test = "none" /\ test' = "none"
      BY <3>1, <3>2 DEF IInv, Runs, run
    <3>4. Runs' /\ ModelInStep'
      BY <3>1, <3>3, ModelStays DEF IInv, Runs, run
    <3> QED
      BY <3>1, <3>4 DEF IInv
  <2>2. CASE StartRun
    <3>1. /\ pc = "ready" /\ test' = "running" /\ model' = <<>> /\ sut' = <<>> /\ next' = 1
          /\ UNCHANGED vars
      BY <2>2 DEF StartRun
    <3>2. CInv'
      BY <3>1, Unmoved DEF IInv, Grows, vars
    <3>3. <<>> \in Seq({}) /\ Len(<<>>) = 0 /\ DOMAIN <<>> = {}
      OBVIOUS
    <3>4. IsSeq(<<>>)
      BY <3>3, IsSeqOf
    <3>5. Applied(entries', 0) = <<>>
      BY DEF Applied
    <3>6. Len(entries') \in Nat
      BY <3>2, SeqFacts DEF CInv, Types
    <3>7. Runs' /\ ModelInStep'
      BY <3>1, <3>3, <3>4, <3>5, <3>6 DEF Runs, ModelInStep, vars
    <3> QED
      BY <3>2, <3>7 DEF IInv
  <2>3. CASE RunCommand
    BY <2>3, RunStep
  <2>4. CASE EndRun
    <3>1. test = "running" /\ test' = "passed" /\ UNCHANGED <<vars, model, sut, next>>
      BY <2>4 DEF EndRun
    <3>2. CInv' /\ Grows
      BY <3>1, Unmoved DEF IInv, Grows, vars
    <3>3. Runs' /\ ModelInStep'
      BY <3>1, <3>2, ModelStays DEF IInv, Runs, vars
    <3> QED
      BY <3>2, <3>3 DEF IInv
  <2>5. CASE TryShrink
    <3>1. CInv' /\ Grows /\ test' = "none" /\ UNCHANGED <<model, sut, next>>
      BY <2>5, ShrinkStep DEF IInv, TryShrink
    <3>2. Runs' /\ ModelInStep'
      BY <3>1, ModelStays DEF IInv, Runs
    <3> QED
      BY <3>1, <3>2 DEF IInv
  <2>6. CASE UNCHANGED allVars
    <3>1. CInv' /\ Grows
      BY <2>6, Unmoved DEF IInv, Grows, allVars, vars
    <3>2. Runs' /\ ModelInStep'
      BY <2>6, <3>1, ModelStays DEF IInv, Runs, allVars, vars, run
    <3> QED
      BY <3>1, <3>2 DEF IInv
  <2> QED
    BY <2>1, <2>2, <2>3, <2>4, <2>5, <2>6 DEF TestNext
<1> QED
  BY <1>1, <1>2, PTL DEF TestSpec

\* A sequence that is handed out can be run to its end, however its commands were
\* generated, removed, shrunk and repaired (nextEntry, repairEntries,
\* shrinksIndividual).
THEOREM SequencesAreValid == TestSpec => []AlwaysValid
<1>1. IInv => AlwaysValid
  <2> SUFFICES ASSUME IInv, pc = "ready", NEW k \in DOMAIN Commands(entries)
               PROVE  LET asked == <<Commands(entries)[k], SubSeq(Commands(entries), 1, k - 1)>>
                      IN asked \in DOMAIN checks /\ checks[asked] = "valid"
    BY DEF AlwaysValid, isValidSequence
  <2>1. IsSeq(entries) /\ DOMAIN entries = 1..Len(entries) /\ Len(entries) \in Nat
    BY SeqFacts DEF IInv, CInv, Types
  <2>2. k \in 1..Len(entries) /\ Commands(entries)[k] = entries[k].command
    BY <2>1 DEF Commands
  <2>3. SubSeq(Commands(entries), 1, k - 1) = Applied(entries, k - 1)
    BY <2>1, <2>2, AppliedSubSeq
  <2>4. Valid(entries, k)
    BY <2>2, ReadyIsValid DEF IInv
  <2> QED
    BY <2>2, <2>3, <2>4 DEF Valid, Said
<1> QED
  BY <1>1, Invariance, PTL

\* No two entries share a Random, generated or left over.
LEMMA RandomsAreOwn == TestSpec => []OwnRandoms
<1>1. TestInit => OwnRandoms
  <2>1. DOMAIN <<>> = {}
    OBVIOUS
  <2> QED
    BY <2>1 DEF TestInit, Init, OwnRandoms, Apart
<1>2. IInv /\ OwnRandoms /\ [TestNext]_allVars => OwnRandoms'
  <2> SUFFICES ASSUME IInv, OwnRandoms, [TestNext]_allVars PROVE OwnRandoms'
    OBVIOUS
  <2>1. CASE Generate \/ Repairing \/ Shrink
    BY <2>1, RandomsStep DEF IInv
  <2>2. CASE UNCHANGED <<entries, pc>>
    BY <2>2 DEF OwnRandoms
  <2> QED
    BY <2>1, <2>2 DEF TestNext, MakeSequence, StartRun, RunCommand, EndRun, TryShrink,
                      allVars, vars
<1> QED
  BY <1>1, <1>2, Invariance, PTL DEF TestSpec

\* A shrink changes only what it must: all but one of its entries are the parent's, or
\* are made anew from the parent's Random because its command is not valid any more;
\* that one is the parent's, shrunk (repairEntryAt, regenerateEntryAt).  No two entries
\* share a Random (generateInitial, nextEntry).
THEOREM RepairsAreMinimal == TestSpec => []MinimalRepair
<1>1. IInv /\ OwnRandoms => MinimalRepair
  <2> DEFINE Changed == {k \in DOMAIN entries :
                           /\ ~ Kept(entries[k])
                           /\ ~ Remade(entries[k], stateAt(k))}
  <2> SUFFICES ASSUME IInv, pc = "ready", parent # <<>>
               PROVE  Cardinality(Changed) <= 1 /\ \A k \in Changed : Reduced(entries[k])
    BY DEF MinimalRepair, OwnRandoms, Apart
  <2>1. PICK c \in Nat : Shrinks(c)
    BY DEF IInv, CInv, Repairs
  <2>2. Changed \subseteq {c}
    BY <2>1 DEF Shrinks, Accounted
  <2>3. \A k \in Changed : Reduced(entries[k])
    BY <2>1, <2>2 DEF Shrinks
  <2>4. Cardinality(Changed) <= 1
    <3> HIDE DEF Changed
    <3>1. IsFiniteSet({c}) /\ Cardinality({c}) = 1
      BY FS_Singleton
    <3> QED
      BY <2>2, <3>1, FS_Subset
  <2> QED
    BY <2>3, <2>4
<1> QED
  BY <1>1, Invariance, RandomsAreOwn, PTL

\* The system under test only runs commands that are legal where it is, on the state
\* of a model that has been through the same commands (runAll).
THEOREM ModelAndSystemInStep == TestSpec => []ModelInStep
<1>1. IInv => ModelInStep
  BY DEF IInv
<1> QED
  BY <1>1, Invariance, PTL
=============================================================================
