-------------------------- MODULE ValueTypesProofs --------------------------
(***************************************************************************)
(* The reference counts of SharedImpl under any number of threads, handles *)
(* and places on the heap, by whichever of the operations of SharedImpl    *)
(* and ValueTypes: nothing is used after it was deleted, nothing leaks,    *)
(* and storage holds what it says.                                         *)
(*                                                                         *)
(* The argument is that the count of an implementation is, at every step,  *)
(* the number of parties that will still let go of it: the handles to it   *)
(* and the implementations that captured it, less those whose retain has   *)
(* yet to be called, and the threads on their way to release it.  What is  *)
(* not counted yet is protected by the party it is copied from, which is   *)
(* counted and which no other thread may change.                           *)
(***************************************************************************)
EXTENDS ValueTypes, FiniteSetTheorems, SequenceTheorems, TLAPS

\* What is left of an operation: a retain, of i; at last a release, of i; a delete.
Retains(calls, i) ==
    /\ i \in Impls
    /\ calls \in {<<<<"retain", i>>>>} \cup {<<<<"retain", i>>, <<"release", y>>>> : y \in Impls}
Releases(calls, i) ==
    /\ i \in Impls
    /\ calls \in {<<<<"release", i>>>>} \cup {<<<<"retain", x>>, <<"release", i>>>> : x \in Impls}
Deletes(calls, i) == i \in Impls /\ calls = <<<<"delete", i>>>>

Calls ==
    {<<>>} \cup {<<<<"retain", x>>>> : x \in Impls} \cup {<<<<"release", x>>>> : x \in Impls}
      \cup {<<<<"delete", x>>>> : x \in Impls}
      \cup {<<<<"retain", x>>, <<"release", y>>>> : x \in Impls, y \in Impls}

WillRetain(t, i)  == Retains(todo[t], i)
WillRelease(t, i) == Releases(todo[t], i)
WillDelete(t, i)  == Deletes(todo[t], i)

Busy(t) == todo[t] # <<>>

\* What refers to an implementation and has not been counted yet.
UncountedHandle(h) ==
    \E t \in Threads : h \in writes[t] /\ WillRetain(t, handle[h])
UncountedCapture(j) ==
    \E t \in Threads : /\ WillRetain(t, captured[j])
                       /\ \E h \in writes[t] : h \in HandlesTo(j)

\* The parties that will let go of it.
Holders(i)  == {h \in HandlesTo(i) : ~ UncountedHandle(h)}
Captors(i)  == {j \in CapturedBy(i) : ~ UncountedCapture(j)}
Leavers(i)  == {t \in Threads : WillRelease(t, i)}

-----------------------------------------------------------------------------
Types ==
    /\ DOMAIN handle \subseteq Handles
    /\ handle \in [DOMAIN handle -> Impls \cup {Null}]
    /\ alive \subseteq Impls
    /\ captured \in [Impls -> Impls \cup {Null}]
    /\ count \in [Impls -> Int]
    /\ todo \in [Threads -> Calls]
    /\ reads \in [Threads -> SUBSET Handles]
    /\ writes \in [Threads -> SUBSET Handles]

\* What is referred to is alive.
Reaches ==
    /\ \A h \in DOMAIN handle : handle[h] \in alive \cup {Null}
    /\ \A i \in alive : captured[i] \in (alive \ {i}) \cup {Null}
    /\ \A t \in Threads, i \in Impls :
         WillRetain(t, i) \/ WillRelease(t, i) \/ WillDelete(t, i) => i \in alive

\* Operations that are under way keep out of each other's way.
Apart ==
    \A t, u \in Threads :
      t # u /\ Busy(t) /\ Busy(u) => writes[t] \cap (reads[u] \cup writes[u]) = {}

\* The reference that a retain is for: the handle that was written, or what the
\* implementation captured that was made with it, which has no other handle yet.
Target ==
    \A t \in Threads, i \in Impls :
      WillRetain(t, i) =>
        \E h \in DOMAIN handle :
          /\ writes[t] = {h}
          /\ \/ handle[h] = i
             \/ /\ handle[h] \in alive /\ captured[handle[h]] = i
                /\ HandlesTo(handle[h]) = {h} /\ CapturedBy(handle[h]) = {}

\* What it was copied from.
Protected ==
    \A t \in Threads, i \in Impls :
      WillRetain(t, i) =>
        \/ WillRelease(t, i)
        \/ \E s \in reads[t] :
             s \in Holders(i) \/ \E j \in Captors(i) : s \in Holders(j)

\* The one who deletes is the last to know of it.
LastToKnow ==
    \A t \in Threads, i \in Impls :
      WillDelete(t, i) =>
        /\ HandlesTo(i) = {} /\ CapturedBy(i) = {}
        /\ \A u \in Threads \ {t} :
             ~ WillRetain(u, i) /\ ~ WillRelease(u, i) /\ ~ WillDelete(u, i)

\* The count is the number of parties.
Counted ==
    \A i \in alive :
      /\ IsFiniteSet(Holders(i)) /\ IsFiniteSet(Captors(i)) /\ IsFiniteSet(Leavers(i))
      /\ count[i] = Cardinality(Holders(i)) + Cardinality(Captors(i)) + Cardinality(Leavers(i))

\* What nobody will let go of is on its way to be deleted.
Deleted ==
    \A i \in alive : count[i] # 0 \/ \E t \in Threads : WillDelete(t, i)

IInv ==
    /\ Types /\ Reaches /\ Apart /\ Target /\ Protected /\ LastToKnow
    /\ Counted /\ Deleted

-----------------------------------------------------------------------------
(* What is left of an operation, call by call *)

\* Nothing is left of an operation that is over.
LEMMA NoCalls ==
    ASSUME NEW i
    PROVE  ~ Retains(<<>>, i) /\ ~ Releases(<<>>, i) /\ ~ Deletes(<<>>, i)
BY DEF Retains, Releases, Deletes

\* A retain alone.
LEMMA RetainCalls ==
    ASSUME NEW x \in Impls, NEW i
    PROVE  LET c == <<<<"retain", x>>>>
           IN (Retains(c, i) <=> i = x) /\ ~ Releases(c, i) /\ ~ Deletes(c, i)
BY DEF Retains, Releases, Deletes

\* A release alone.
LEMMA ReleaseCalls ==
    ASSUME NEW y \in Impls, NEW i
    PROVE  LET c == <<<<"release", y>>>>
           IN ~ Retains(c, i) /\ (Releases(c, i) <=> i = y) /\ ~ Deletes(c, i)
BY DEF Retains, Releases, Deletes

\* A delete.
LEMMA DeleteCalls ==
    ASSUME NEW y \in Impls, NEW i
    PROVE  LET c == <<<<"delete", y>>>>
           IN ~ Retains(c, i) /\ ~ Releases(c, i) /\ (Deletes(c, i) <=> i = y)
BY DEF Retains, Releases, Deletes

\* A retain and a release.
LEMMA AssignmentCalls ==
    ASSUME NEW x \in Impls, NEW y \in Impls, NEW i
    PROVE  LET c == <<<<"retain", x>>, <<"release", y>>>>
           IN (Retains(c, i) <=> i = x) /\ (Releases(c, i) <=> i = y) /\ ~ Deletes(c, i)
BY DEF Retains, Releases, Deletes

\* The calls that follow a retain of x.
LEMMA AfterRetain ==
    ASSUME NEW x \in Impls, NEW c, Retains(c, x)
    PROVE  \/ c = <<<<"retain", x>>>> /\ Tail(c) = <<>>
           \/ \E y \in Impls : /\ c = <<<<"retain", x>>, <<"release", y>>>>
                              /\ Tail(c) = <<<<"release", y>>>>
<1>1. \A a : Tail(<<a>>) = <<>>
  OBVIOUS
<1>2. \A a, b : Tail(<<a, b>>) = <<b>>
  OBVIOUS
<1> QED
  BY <1>1, <1>2 DEF Retains

-----------------------------------------------------------------------------
(* An operation begins *)

\* What can be reached from the handles of s.
Reachable(s) ==
    {Null} \cup {handle[g] : g \in s \cap DOMAIN handle}
           \cup {captured[handle[g]] : g \in {h \in s \cap DOMAIN handle : handle[h] \in alive}}

\* What the operations have in common that thread t may begin, which reads the
\* handles rs, changes the handles ws, and has the calls cs to make: whatever it
\* changes or calls is reached from its handles, or is new.
Rewires(t, rs, ws, cs) ==
    /\ t \in Threads /\ rs \subseteq Handles /\ ws \subseteq Handles
    /\ Begin(t, rs, ws, cs)
    /\ cs \in Calls /\ \A i : ~ Deletes(cs, i)
    /\ DOMAIN handle' \subseteq Handles /\ handle' \in [DOMAIN handle' -> Impls \cup {Null}]
    /\ DOMAIN handle' \ ws = DOMAIN handle \ ws
    /\ \A g \in DOMAIN handle \ ws : handle'[g] = handle[g]
    /\ \A g \in ws \cap DOMAIN handle' :
         handle'[g] \in Reachable(rs \cup ws) \cup (alive' \ alive)
    /\ alive \subseteq alive' /\ alive' \subseteq Impls
    /\ captured' \in [Impls -> Impls \cup {Null}] /\ count' \in [Impls -> Int]
    /\ \A i \in alive : captured'[i] = captured[i] /\ count'[i] = count[i]
    /\ \A i \in alive' \ alive :
         /\ count'[i] = 1
         /\ \E h \in DOMAIN handle' : ws = {h} /\ handle'[h] = i
         /\ \/ captured'[i] = Null
            \/ captured'[i] \in Reachable(rs \cup ws) /\ Retains(cs, captured'[i])
    /\ \A i \in Impls : Retains(cs, i) \/ Releases(cs, i) => i \in Reachable(rs \cup ws)
    /\ \A i \in Impls :
         Retains(cs, i) =>
           /\ \E h \in DOMAIN handle' :
                /\ ws = {h}
                /\ \/ handle'[h] = i
                   \/ handle'[h] \in alive' \ alive /\ captured'[handle'[h]] = i
           /\ \/ Releases(cs, i)
              \/ \E s \in (rs \ ws) \cap DOMAIN handle :
                   handle[s] = i \/ (handle[s] \in alive /\ captured[handle[s]] = i)
    /\ \A i \in alive :
         /\ IsFiniteSet(Holders(i)')
         /\ Cardinality(Holders(i)') + (IF Releases(cs, i) THEN 1 ELSE 0)
              = Cardinality(Holders(i))

\* The calls of the others, and their handles, stay as they were.
LEMMA BeginFrame ==
    ASSUME IInv, NEW t \in Threads, NEW rs \in SUBSET Handles, NEW ws \in SUBSET Handles,
           NEW cs, Begin(t, rs, ws, cs)
    PROVE  /\ todo'[t] = cs /\ reads'[t] = rs /\ writes'[t] = ws
           /\ \A u \in Threads \ {t} :
                todo'[u] = todo[u] /\ reads'[u] = reads[u] /\ writes'[u] = writes[u]
           /\ \A u \in Threads \ {t} : \A i :
                /\ WillRetain(u, i)' <=> WillRetain(u, i)
                /\ WillRelease(u, i)' <=> WillRelease(u, i)
                /\ WillDelete(u, i)' <=> WillDelete(u, i)
           /\ \A i : /\ WillRetain(t, i)' <=> Retains(cs, i)
                     /\ WillRelease(t, i)' <=> Releases(cs, i)
                     /\ WillDelete(t, i)' <=> Deletes(cs, i)
           /\ \A i : ~ WillRetain(t, i) /\ ~ WillRelease(t, i) /\ ~ WillDelete(t, i)
           /\ \A u \in Threads \ {t} :
                Busy(u) => ws \cap (reads[u] \cup writes[u]) = {} /\ rs \cap writes[u] = {}
           /\ \A u \in Threads : \A i : WillRetain(u, i) => Busy(u)
           /\ Apart'
<1>1. /\ todo[t] = <<>>
      /\ todo' = [todo EXCEPT ![t] = cs] /\ reads' = [reads EXCEPT ![t] = rs]
      /\ writes' = [writes EXCEPT ![t] = ws]
      /\ \A u \in Threads \ {t} :
           Busy(u) => ws \cap (reads[u] \cup writes[u]) = {} /\ rs \cap writes[u] = {}
  BY DEF Begin, Busy
<1>2. DOMAIN todo = Threads /\ DOMAIN reads = Threads /\ DOMAIN writes = Threads
  BY DEF IInv, Types
<1>3. /\ todo'[t] = cs /\ reads'[t] = rs /\ writes'[t] = ws
      /\ \A u \in Threads \ {t} :
           todo'[u] = todo[u] /\ reads'[u] = reads[u] /\ writes'[u] = writes[u]
  BY <1>1, <1>2
<1>4. \A i : /\ WillRetain(t, i)' <=> Retains(cs, i)
             /\ WillRelease(t, i)' <=> Releases(cs, i)
             /\ WillDelete(t, i)' <=> Deletes(cs, i)
  BY <1>3 DEF WillRetain, WillRelease, WillDelete
<1>5. \A u \in Threads \ {t} : \A i :
         /\ WillRetain(u, i)' <=> WillRetain(u, i)
         /\ WillRelease(u, i)' <=> WillRelease(u, i)
         /\ WillDelete(u, i)' <=> WillDelete(u, i)
  BY <1>3 DEF WillRetain, WillRelease, WillDelete
<1>6. \A i : ~ WillRetain(t, i) /\ ~ WillRelease(t, i) /\ ~ WillDelete(t, i)
  BY <1>1, NoCalls DEF WillRetain, WillRelease, WillDelete
<1>7. \A u \in Threads : \A i : WillRetain(u, i) => Busy(u)
  BY NoCalls DEF WillRetain, Busy
<1>8. Apart'
  <2> SUFFICES ASSUME NEW u \in Threads, NEW v \in Threads, u # v, Busy(u)', Busy(v)'
               PROVE  writes'[u] \cap (reads'[v] \cup writes'[v]) = {}
    BY DEF Apart
  <2>1. CASE u = t
    BY <2>1, <1>1, <1>3 DEF Busy
  <2>2. CASE v = t
    BY <2>2, <1>1, <1>3 DEF Busy
  <2>3. CASE u # t /\ v # t
    BY <2>3, <1>3 DEF Busy, IInv, Apart
  <2> QED
    BY <2>1, <2>2, <2>3
<1> QED
  BY <1>1, <1>3, <1>4, <1>5, <1>6, <1>7, <1>8
\* Every operation that begins so keeps the invariant.
LEMMA Begun ==
    ASSUME IInv, NEW t, NEW rs, NEW ws, NEW cs, Rewires(t, rs, ws, cs)
    PROVE  IInv'
<1> DEFINE known == Reachable(rs \cup ws)
<1>1. /\ t \in Threads /\ rs \in SUBSET Handles /\ ws \in SUBSET Handles
      /\ Begin(t, rs, ws, cs)
  BY DEF Rewires
<1>2. /\ todo'[t] = cs /\ reads'[t] = rs /\ writes'[t] = ws
      /\ \A u \in Threads \ {t} :
           todo'[u] = todo[u] /\ reads'[u] = reads[u] /\ writes'[u] = writes[u]
      /\ \A u \in Threads \ {t} : \A i :
           /\ WillRetain(u, i)' <=> WillRetain(u, i)
           /\ WillRelease(u, i)' <=> WillRelease(u, i)
           /\ WillDelete(u, i)' <=> WillDelete(u, i)
      /\ \A i : /\ WillRetain(t, i)' <=> Retains(cs, i)
                /\ WillRelease(t, i)' <=> Releases(cs, i)
                /\ WillDelete(t, i)' <=> Deletes(cs, i)
      /\ \A i : ~ WillRetain(t, i) /\ ~ WillRelease(t, i) /\ ~ WillDelete(t, i)
      /\ \A u \in Threads \ {t} :
           Busy(u) => ws \cap (reads[u] \cup writes[u]) = {} /\ rs \cap writes[u] = {}
      /\ \A u \in Threads : \A i : WillRetain(u, i) => Busy(u)
      /\ Apart'
  BY <1>1, BeginFrame
<1>3. /\ \A h \in DOMAIN handle : handle[h] \in alive \cup {Null}
      /\ \A i \in alive : captured[i] \in (alive \ {i}) \cup {Null}
      /\ alive \subseteq Impls /\ Null \notin alive
  BY NullAssumption DEF IInv, Reaches, Types
<1>4. \A x \in known : x \in alive \cup {Null}
  BY <1>3 DEF Reachable
<1>5. \A x \in known : x # Null => HandlesTo(x) \cup CapturedBy(x) # {}
  BY <1>3 DEF Reachable, HandlesTo, CapturedBy
<1>6. \A u \in Threads, x \in known : ~ WillDelete(u, x)
  BY <1>4, <1>5, NullAssumption DEF IInv, LastToKnow, WillDelete, Deletes
<1>7. \A u \in Threads, g \in rs \cup ws : \A i : WillRetain(u, i) => g \notin writes[u]
  BY <1>2
<1>8. \A g \in (rs \cup ws) \cap DOMAIN handle : ~ UncountedHandle(g)
  BY <1>7 DEF UncountedHandle
<1>9. \A s \in (rs \cup ws) \cap DOMAIN handle :
        handle[s] \in alive => ~ UncountedCapture(handle[s])
  <2> SUFFICES ASSUME NEW s \in (rs \cup ws) \cap DOMAIN handle, handle[s] \in alive,
                      NEW u \in Threads, WillRetain(u, captured[handle[s]]),
                      NEW h \in writes[u], h \in HandlesTo(handle[s])
               PROVE  FALSE
    BY DEF UncountedCapture
  <2>1. captured[handle[s]] \in Impls /\ captured[handle[s]] # handle[s]
    BY <1>3 DEF WillRetain, Retains
  <2>2. PICK g \in DOMAIN handle :
          /\ writes[u] = {g}
          /\ handle[g] = captured[handle[s]] \/ HandlesTo(handle[g]) = {g}
    BY <2>1 DEF IInv, Target
  <2>3. g = h /\ handle[g] = handle[s]
    BY <2>2 DEF HandlesTo
  <2>4. s = g
    BY <2>1, <2>2, <2>3 DEF HandlesTo
  <2> QED
    BY <2>2, <2>4, <1>7
<1>10. /\ DOMAIN handle' \ ws = DOMAIN handle \ ws
       /\ \A g \in DOMAIN handle \ ws : handle'[g] = handle[g]
       /\ \A g \in ws \cap DOMAIN handle' : handle'[g] \in known \cup (alive' \ alive)
       /\ alive \subseteq alive' /\ alive' \subseteq Impls
       /\ \A i \in alive : captured'[i] = captured[i] /\ count'[i] = count[i]
  BY DEF Rewires
<1>11. \A i \in alive' \ alive :
         /\ count'[i] = 1
         /\ \E h \in DOMAIN handle' : ws = {h} /\ handle'[h] = i
         /\ \/ captured'[i] = Null
            \/ captured'[i] \in known /\ Retains(cs, captured'[i])
  BY DEF Rewires
<1>12. \A i \in Impls : Retains(cs, i) \/ Releases(cs, i) => i \in known
  BY DEF Rewires
<1>13. \A i : Retains(cs, i) => i \in alive
  BY <1>4, <1>12, NullAssumption DEF Retains
<1>14. \A i \in Impls :
         Retains(cs, i) =>
           \E h \in DOMAIN handle' :
             /\ ws = {h}
             /\ \/ handle'[h] = i
                \/ handle'[h] \in alive' \ alive /\ captured'[handle'[h]] = i
  BY DEF Rewires
\* What was counted still is, except through the handles that are changed.
<1>15. \A g \in DOMAIN handle \ ws : UncountedHandle(g)' <=> UncountedHandle(g)
  <2> SUFFICES ASSUME NEW g \in DOMAIN handle \ ws
               PROVE  UncountedHandle(g)' <=> UncountedHandle(g)
    OBVIOUS
  <2>1. \A u \in Threads : (g \in writes'[u] /\ Retains(todo'[u], handle'[g]))
                            <=> (g \in writes[u] /\ Retains(todo[u], handle[g]))
    BY <1>2, <1>10 DEF WillRetain
  <2> QED
    BY <2>1 DEF UncountedHandle, WillRetain
<1>16. \A j \in alive : UncountedCapture(j)' <=> UncountedCapture(j)
  <2> SUFFICES ASSUME NEW j \in alive, NEW u \in Threads
               PROVE  (/\ Retains(todo'[u], captured'[j])
                       /\ \E h \in writes'[u] : h \in HandlesTo(j)')
                      <=> (/\ Retains(todo[u], captured[j])
                           /\ \E h \in writes[u] : h \in HandlesTo(j))
    BY DEF UncountedCapture, WillRetain
  <2>1. captured'[j] = captured[j] /\ captured[j] # j
    BY <1>3, <1>10
  <2>2. CASE u # t
    <3>1. Retains(todo[u], captured[j]) => writes[u] \cap ws = {}
      BY <2>2, <1>2 DEF WillRetain
    <3>2. \A h : h \notin ws => (h \in HandlesTo(j)' <=> h \in HandlesTo(j))
      BY <1>10 DEF HandlesTo
    <3> QED
      BY <2>1, <2>2, <3>1, <3>2, <1>2
  <2>3. CASE u = t
    <3>1. ~ Retains(todo[u], captured[j])
      BY <2>3, <1>2 DEF WillRetain
    <3>2. ASSUME Retains(cs, captured[j]), NEW h \in ws, h \in HandlesTo(j)'
          PROVE  FALSE
      <4>1. captured[j] \in Impls
        BY <3>2 DEF Retains
      <4>2. handle'[h] = j
        BY <3>2 DEF HandlesTo
      <4> QED
        BY <3>2, <4>1, <4>2, <2>1, <1>14
    <3> QED
      BY <2>1, <2>3, <3>1, <3>2, <1>2
  <2> QED
    BY <2>2, <2>3
<1>17. \A i \in Impls : Holders(i) \ ws \subseteq Holders(i)'
  BY <1>10, <1>15 DEF Holders, HandlesTo
<1>18. \A i \in alive : Captors(i)' = Captors(i)
  <2> SUFFICES ASSUME NEW i \in alive, NEW j \in alive'
               PROVE  (captured'[j] = i /\ ~ UncountedCapture(j)')
                      <=> (j \in alive /\ captured[j] = i /\ ~ UncountedCapture(j))
    BY <1>10 DEF Captors, CapturedBy
  <2>1. CASE j \in alive
    BY <2>1, <1>10, <1>16
  <2>2. CASE j \notin alive /\ captured'[j] = i
    <3>1. Retains(cs, captured'[j])
      BY <2>2, <1>3, <1>11
    <3>2. \E h \in ws : h \in HandlesTo(j)'
      BY <2>2, <1>11 DEF HandlesTo
    <3>3. UncountedCapture(j)'
      BY <3>1, <3>2, <1>1, <1>2 DEF UncountedCapture, WillRetain
    <3> QED
      BY <2>2, <3>3
  <2> QED
    BY <2>1, <2>2
<1>19. \A i \in alive : Leavers(i)' = Leavers(i) \cup (IF Releases(cs, i) THEN {t} ELSE {})
  BY <1>1, <1>2 DEF Leavers
<1>20. Types'
  <2>1. todo' \in [Threads -> Calls] /\ reads' \in [Threads -> SUBSET Handles]
        /\ writes' \in [Threads -> SUBSET Handles]
    BY <1>1 DEF Rewires, Begin, IInv, Types
  <2> QED
    BY <2>1 DEF Rewires, Types
<1>21. Reaches'
  <2>1. \A h \in DOMAIN handle' : handle'[h] \in alive' \cup {Null}
    BY <1>3, <1>4, <1>10
  <2>2. \A i \in alive' : captured'[i] \in (alive' \ {i}) \cup {Null}
    BY SMTT(30), <1>3, <1>4, <1>10, <1>11
  <2>3. \A u \in Threads, i \in Impls :
          WillRetain(u, i)' \/ WillRelease(u, i)' \/ WillDelete(u, i)' => i \in alive'
    <3> SUFFICES ASSUME NEW u \in Threads, NEW i \in Impls,
                        WillRetain(u, i)' \/ WillRelease(u, i)' \/ WillDelete(u, i)'
                 PROVE  i \in alive'
      OBVIOUS
    <3>1. CASE u # t
      BY <3>1, <1>2, <1>10 DEF IInv, Reaches
    <3>2. CASE u = t
      <4>1. ~ Deletes(cs, i)
        BY DEF Rewires
      <4>2. i \in known
        BY <3>2, <4>1, <1>2, <1>12
      <4> QED
        BY <4>2, <1>4, <1>10, NullAssumption
    <3> QED
      BY <3>1, <3>2
  <2> QED
    BY <2>1, <2>2, <2>3 DEF Reaches
<1>22. Target'
  <2> SUFFICES ASSUME NEW u \in Threads, NEW i \in Impls, WillRetain(u, i)'
               PROVE  \E h \in DOMAIN handle' :
                        /\ writes'[u] = {h}
                        /\ \/ handle'[h] = i
                           \/ /\ handle'[h] \in alive' /\ captured'[handle'[h]] = i
                              /\ HandlesTo(handle[h])' = {h} /\ CapturedBy(handle[h])' = {}
    BY DEF Target
  <2>1. CASE u # t
    <3>1. WillRetain(u, i)
      BY <2>1, <1>2
    <3>2. PICK h \in DOMAIN handle :
            /\ writes[u] = {h}
            /\ \/ handle[h] = i
               \/ /\ handle[h] \in alive /\ captured[handle[h]] = i
                  /\ HandlesTo(handle[h]) = {h} /\ CapturedBy(handle[h]) = {}
      BY <3>1 DEF IInv, Target
    <3>3. h \notin rs \cup ws
      BY <3>1, <3>2, <1>7
    <3>4. h \in DOMAIN handle' /\ handle'[h] = handle[h] /\ writes'[u] = {h}
      BY <3>2, <3>3, <2>1, <1>2, <1>10
    <3>5. CASE handle[h] = i
      BY <3>4, <3>5
    <3>6. CASE /\ handle[h] \in alive /\ captured[handle[h]] = i
               /\ HandlesTo(handle[h]) = {h} /\ CapturedBy(handle[h]) = {}
      <4> DEFINE j == handle[h]
      <4>1. j \notin known
        BY <3>3, <3>6, <1>3 DEF Reachable, HandlesTo, CapturedBy
      <4>2. HandlesTo(handle[h])' = {h}
        <5>1. \A g \in DOMAIN handle' : handle'[g] = j => g = h
          BY SMTT(30), <4>1, <3>6, <1>10 DEF HandlesTo
        <5> QED
          BY <5>1, <3>4 DEF HandlesTo
      <4>3. CapturedBy(handle[h])' = {}
        <5>1. \A k \in alive' : captured'[k] # j
          BY <4>1, <3>6, <1>3, <1>10, <1>11 DEF CapturedBy
        <5> QED
          BY <5>1, <3>4 DEF CapturedBy
      <4>4. handle'[h] \in alive' /\ captured'[handle'[h]] = i
        BY <3>4, <3>6, <1>10
      <4> QED
        BY <3>4, <4>2, <4>3, <4>4
    <3> QED
      BY <3>2, <3>5, <3>6
  <2>2. CASE u = t
    <3>1. Retains(cs, i)
      BY <2>2, <1>2
    <3>2. PICK h \in DOMAIN handle' :
            /\ ws = {h}
            /\ \/ handle'[h] = i
               \/ handle'[h] \in alive' \ alive /\ captured'[handle'[h]] = i
      BY <3>1, <1>14
    <3>3. writes'[u] = {h}
      BY <3>2, <2>2, <1>2
    <3>4. CASE handle'[h] = i
      BY <3>3, <3>4
    <3>5. CASE handle'[h] \in alive' \ alive /\ captured'[handle'[h]] = i
      <4> DEFINE j == handle'[h]
      <4>1. j \notin known /\ j # Null
        BY <3>5, <1>4, <1>10, NullAssumption
      <4>2. HandlesTo(handle[h])' = {h}
        <5>1. \A g \in DOMAIN handle' : handle'[g] = j => g = h
          BY <4>1, <3>2, <3>5, <1>3, <1>10
        <5> QED
          BY <5>1 DEF HandlesTo
      <4>3. CapturedBy(handle[h])' = {}
        <5>1. \A k \in alive' : captured'[k] # j
          BY <4>1, <3>5, <1>3, <1>10, <1>11
        <5> QED
          BY <5>1 DEF CapturedBy
      <4> QED
        BY <3>3, <3>5, <4>2, <4>3
    <3> QED
      BY <3>2, <3>4, <3>5
  <2> QED
    BY <2>1, <2>2
<1>23. Protected'
  <2> SUFFICES ASSUME NEW u \in Threads, NEW i \in Impls, WillRetain(u, i)', ~ WillRelease(u, i)'
               PROVE  \E s \in reads'[u] :
                        s \in Holders(i)' \/ \E j \in Captors(i)' : s \in Holders(j)'
    BY DEF Protected
  <2>1. CASE u # t
    <3>1. WillRetain(u, i) /\ ~ WillRelease(u, i)
      BY <2>1, <1>2
    <3>2. i \in alive
      BY <3>1 DEF IInv, Reaches
    <3>3. PICK s \in reads[u] : s \in Holders(i) \/ \E j \in Captors(i) : s \in Holders(j)
      BY <3>1 DEF IInv, Protected
    <3>4. s \notin ws /\ s \in reads'[u]
      BY <3>1, <2>1, <1>2
    <3>5. \A k \in Impls : s \in Holders(k) => s \in Holders(k)'
      BY <3>4, <1>17
    <3>6. Captors(i)' = Captors(i) /\ Captors(i) \subseteq Impls
      BY <3>2, <1>3, <1>18 DEF Captors, CapturedBy
    <3> QED
      BY <3>3, <3>4, <3>5, <3>6
  <2>2. CASE u = t
    <3>1. Retains(cs, i) /\ ~ Releases(cs, i)
      BY <2>2, <1>2
    <3>2. i \in alive
      BY <3>1, <1>13
    <3>3. PICK s \in (rs \ ws) \cap DOMAIN handle :
            handle[s] = i \/ (handle[s] \in alive /\ captured[handle[s]] = i)
      BY <3>1 DEF Rewires
    <3>4. PICK j \in alive : j = handle[s]
      BY <3>2, <3>3
    <3>5. s \in Holders(j)'
      BY <3>3, <3>4, <1>3, <1>8, <1>17 DEF Holders, HandlesTo
    <3>6. j # i => j \in Captors(i)'
      BY <3>2, <3>3, <3>4, <1>9, <1>18 DEF Captors, CapturedBy
    <3>7. s \in reads'[u]
      BY <3>3, <2>2, <1>2
    <3> QED
      BY <3>5, <3>6, <3>7
  <2> QED
    BY <2>1, <2>2
<1>24. LastToKnow'
  <2> SUFFICES ASSUME NEW u \in Threads, NEW i \in Impls, WillDelete(u, i)'
               PROVE  /\ HandlesTo(i)' = {} /\ CapturedBy(i)' = {}
                      /\ \A v \in Threads \ {u} :
                           ~ WillRetain(v, i)' /\ ~ WillRelease(v, i)' /\ ~ WillDelete(v, i)'
    BY DEF LastToKnow
  <2>1. u # t /\ WillDelete(u, i)
    BY <1>2 DEF Rewires
  <2>2. i \in alive /\ i \notin known
    BY <2>1, <1>6 DEF IInv, Reaches
  <2>3. /\ HandlesTo(i) = {} /\ CapturedBy(i) = {}
        /\ \A v \in Threads \ {u} :
             ~ WillRetain(v, i) /\ ~ WillRelease(v, i) /\ ~ WillDelete(v, i)
    BY <2>1 DEF IInv, LastToKnow
  <2>4. HandlesTo(i)' = {}
    BY <2>2, <2>3, <1>10 DEF HandlesTo
  <2>5. CapturedBy(i)' = {}
    <3>1. \A k \in alive : captured'[k] # i
      BY <2>3, <1>10 DEF CapturedBy
    <3>2. \A k \in alive' \ alive : captured'[k] # i
      BY <2>2, <1>3, <1>11
    <3> QED
      BY <3>1, <3>2 DEF CapturedBy
  <2>6. ASSUME NEW v \in Threads \ {u}
        PROVE  ~ WillRetain(v, i)' /\ ~ WillRelease(v, i)' /\ ~ WillDelete(v, i)'
    <3>1. CASE v # t
      BY <3>1, <2>3, <1>2
    <3>2. CASE v = t
      <4>1. ~ Deletes(cs, i)
        BY DEF Rewires
      <4> QED
        BY <4>1, <3>2, <2>2, <1>2, <1>12
    <3> QED
      BY <3>1, <3>2
  <2> QED
    BY <2>4, <2>5, <2>6
<1>25. Counted'
  <2> SUFFICES ASSUME NEW i \in alive'
               PROVE  /\ IsFiniteSet(Holders(i)') /\ IsFiniteSet(Captors(i)')
                      /\ IsFiniteSet(Leavers(i)')
                      /\ count'[i] = Cardinality(Holders(i)') + Cardinality(Captors(i)')
                                       + Cardinality(Leavers(i)')
    BY DEF Counted
  <2>1. CASE i \in alive
    <3>1. /\ IsFiniteSet(Holders(i)) /\ IsFiniteSet(Captors(i)) /\ IsFiniteSet(Leavers(i))
          /\ count[i] = Cardinality(Holders(i)) + Cardinality(Captors(i))
                          + Cardinality(Leavers(i))
      BY <2>1 DEF IInv, Counted
    <3>2. /\ IsFiniteSet(Holders(i)')
          /\ Cardinality(Holders(i)') + (IF Releases(cs, i) THEN 1 ELSE 0)
               = Cardinality(Holders(i))
      BY <2>1 DEF Rewires
    <3>3. t \notin Leavers(i)
      BY <1>2 DEF Leavers
    <3>4. /\ IsFiniteSet(Leavers(i)')
          /\ Cardinality(Leavers(i)') = Cardinality(Leavers(i))
                                          + (IF Releases(cs, i) THEN 1 ELSE 0)
      <4>1. CASE Releases(cs, i)
        <5>1. Leavers(i)' = Leavers(i) \cup {t}
          BY <4>1, <2>1, <1>19
        <5> QED
          BY <4>1, <5>1, <3>1, <3>3, FS_AddElement
      <4>2. CASE ~ Releases(cs, i)
        <5>1. Leavers(i)' = Leavers(i)
          BY <4>2, <2>1, <1>19
        <5> QED
          BY <4>2, <5>1, <3>1, FS_CardinalityType
      <4> QED
        BY <4>1, <4>2
    <3>5. /\ Cardinality(Holders(i)) \in Nat /\ Cardinality(Captors(i)) \in Nat
          /\ Cardinality(Leavers(i)) \in Nat /\ Cardinality(Holders(i)') \in Nat
      BY <3>1, <3>2, FS_CardinalityType
    <3>6. count'[i] = count[i] /\ Captors(i)' = Captors(i)
      BY <2>1, <1>10, <1>18
    <3> QED
      BY <3>1, <3>2, <3>4, <3>5, <3>6
  <2>2. CASE i \notin alive
    <3>1. i # Null /\ i \notin known /\ count'[i] = 1
      BY <2>2, <1>4, <1>10, <1>11, NullAssumption
    <3>2. PICK h \in DOMAIN handle' : ws = {h} /\ handle'[h] = i
      BY <2>2, <1>11
    <3>3. HandlesTo(i)' = {h}
      BY <2>2, <3>1, <3>2, <1>3, <1>10 DEF HandlesTo
    <3>4. ~ UncountedHandle(h)'
      <4>1. ~ Retains(cs, i)
        BY <2>2, <1>13
      <4>2. \A u \in Threads \ {t} : ~ (h \in writes'[u] /\ Retains(todo'[u], handle'[h]))
        BY <3>2, <1>2, <1>7 DEF WillRetain
      <4>3. ~ (h \in writes'[t] /\ Retains(todo'[t], handle'[h]))
        BY <4>1, <3>2, <1>2
      <4> QED
        BY <4>2, <4>3 DEF UncountedHandle, WillRetain
    <3>5. Holders(i)' = {h}
      BY <3>3, <3>4 DEF Holders
    <3>6. Captors(i)' = {}
      <4>1. \A k \in alive : captured'[k] # i
        BY <2>2, <3>1, <1>3, <1>10
      <4>2. \A k \in alive' \ alive : captured'[k] # i
        BY <3>1, <1>11
      <4> QED
        BY <4>1, <4>2 DEF Captors, CapturedBy
    <3>7. Leavers(i)' = {}
      <4> SUFFICES ASSUME NEW u \in Threads, WillRelease(u, i)' PROVE FALSE
        BY DEF Leavers
      <4>1. i \in Impls
        BY <1>10
      <4>2. CASE u = t
        BY <4>1, <4>2, <3>1, <1>2, <1>12
      <4>3. CASE u # t
        BY <4>1, <4>3, <2>2, <1>2 DEF IInv, Reaches
      <4> QED
        BY <4>2, <4>3
    <3>8. IsFiniteSet({h}) /\ Cardinality({h}) = 1 /\ IsFiniteSet({}) /\ Cardinality({}) = 0
      BY FS_Singleton, FS_EmptySet
    <3> QED
      BY <3>1, <3>5, <3>6, <3>7, <3>8
  <2> QED
    BY <2>1, <2>2
<1>26. Deleted'
  <2> SUFFICES ASSUME NEW i \in alive', count'[i] = 0
               PROVE  \E u \in Threads : WillDelete(u, i)'
    BY DEF Deleted
  <2>1. i \in alive /\ count[i] = 0
    BY <1>10, <1>11
  <2>2. PICK u \in Threads : WillDelete(u, i)
    BY <2>1 DEF IInv, Deleted
  <2>3. u # t
    BY <2>2, <1>2
  <2> QED
    BY <2>2, <2>3, <1>2
<1> QED
  BY <1>2, <1>20, <1>21, <1>22, <1>23, <1>24, <1>25, <1>26 DEF IInv

-----------------------------------------------------------------------------
(* The operations that begin *)

\* Who holds what after the handles ws were changed and the calls cs planned.
HoldersFollow(ws, cs) ==
    /\ \A i, g : g \in Holders(i)' <=>
         \/ g \in Holders(i) /\ g \notin ws
         \/ g \in ws /\ g \in DOMAIN handle' /\ handle'[g] = i /\ ~ Retains(cs, i)
    /\ \A i, g : g \in ws => (g \in Holders(i) <=> g \in DOMAIN handle /\ handle[g] = i)

\* They do so from the first step on.
LEMMA HoldersFrame ==
    ASSUME IInv, NEW t \in Threads, NEW rs \in SUBSET Handles, NEW ws \in SUBSET Handles,
           NEW cs, Begin(t, rs, ws, cs),
           DOMAIN handle' \ ws = DOMAIN handle \ ws,
           \A g \in DOMAIN handle \ ws : handle'[g] = handle[g]
    PROVE  HoldersFollow(ws, cs)
<1>1. /\ todo'[t] = cs /\ writes'[t] = ws
      /\ \A u \in Threads \ {t} : todo'[u] = todo[u] /\ writes'[u] = writes[u]
      /\ \A i : ~ WillRetain(t, i)
      /\ \A u \in Threads \ {t} : Busy(u) => ws \cap writes[u] = {}
      /\ \A u \in Threads : \A i : WillRetain(u, i) => Busy(u)
  <2>1. /\ todo'[t] = cs /\ writes'[t] = ws
        /\ \A u \in Threads \ {t} : todo'[u] = todo[u] /\ writes'[u] = writes[u]
    BY DEF Begin, IInv, Types
  <2>2. \A i : ~ WillRetain(t, i)
    BY BeginFrame
  <2>3. \A u \in Threads \ {t} :
          Busy(u) => ws \cap (reads[u] \cup writes[u]) = {} /\ rs \cap writes[u] = {}
    BY ZenonT(40), BeginFrame
  <2>4. \A u \in Threads : \A i : WillRetain(u, i) => Busy(u)
    BY BeginFrame
  <2> QED
    BY <2>1, <2>2, <2>3, <2>4
<1>2. \A g \in ws : ~ UncountedHandle(g)
  BY <1>1 DEF UncountedHandle
<1>3. \A g \in DOMAIN handle \ ws : UncountedHandle(g)' <=> UncountedHandle(g)
  <2> SUFFICES ASSUME NEW g \in DOMAIN handle \ ws
               PROVE  UncountedHandle(g)' <=> UncountedHandle(g)
    OBVIOUS
  <2>1. \A u \in Threads : (g \in writes'[u] /\ Retains(todo'[u], handle'[g]))
                            <=> (g \in writes[u] /\ Retains(todo[u], handle[g]))
    BY <1>1 DEF WillRetain
  <2> QED
    BY <2>1 DEF UncountedHandle, WillRetain
<1>4. \A g \in ws \cap DOMAIN handle' : UncountedHandle(g)' <=> Retains(cs, handle'[g])
  <2> SUFFICES ASSUME NEW g \in ws \cap DOMAIN handle'
               PROVE  UncountedHandle(g)' <=> Retains(cs, handle'[g])
    OBVIOUS
  <2>1. \A u \in Threads \ {t} : ~ (g \in writes'[u] /\ Retains(todo'[u], handle'[g]))
    BY <1>1 DEF WillRetain
  <2> QED
    BY <2>1, <1>1 DEF UncountedHandle, WillRetain
<1>5. ASSUME NEW i, NEW g
      PROVE  g \in Holders(i)' <=>
               \/ g \in Holders(i) /\ g \notin ws
               \/ g \in ws /\ g \in DOMAIN handle' /\ handle'[g] = i /\ ~ Retains(cs, i)
  <2>1. (g \in DOMAIN handle' /\ handle'[g] = i /\ ~ UncountedHandle(g)')
        <=> \/ g \in DOMAIN handle /\ handle[g] = i /\ ~ UncountedHandle(g) /\ g \notin ws
            \/ g \in ws \cap DOMAIN handle' /\ handle'[g] = i /\ ~ Retains(cs, i)
    BY <1>3, <1>4
  <2> QED
    BY <2>1 DEF Holders, HandlesTo
<1> QED
  BY <1>2, <1>5 DEF HoldersFollow, Holders, HandlesTo

\* What is planned, as a list of calls.
LEMMA Planned ==
    ASSUME NEW x \in Impls, NEW y \in Impls \cup {Null}
    PROVE  /\ Retain(x) \in Calls /\ Release(y) \in Calls /\ Retain(x) \o Release(y) \in Calls
           /\ <<>> \in Calls
           /\ \A i : /\ Retains(Retain(x), i) <=> i = x
                     /\ ~ Releases(Retain(x), i) /\ ~ Deletes(Retain(x), i)
           /\ \A i : /\ ~ Retains(Release(y), i) /\ ~ Deletes(Release(y), i)
                     /\ Releases(Release(y), i) <=> (i = y /\ y # Null)
           /\ \A i : /\ Retains(Retain(x) \o Release(y), i) <=> i = x
                     /\ Releases(Retain(x) \o Release(y), i) <=> (i = y /\ y # Null)
                     /\ ~ Deletes(Retain(x) \o Release(y), i)
<1>1. \A a, b : <<a>> \o <<b>> = <<a, b>>
  <2> TAKE a, b
  <2>1. <<a>> \in Seq({a, b}) /\ <<b>> \in Seq({a, b}) /\ <<a, b>> \in Seq({a, b})
    OBVIOUS
  <2>2. /\ <<a>> \o <<b>> \in Seq({a, b}) /\ Len(<<a>> \o <<b>>) = 2
        /\ (<<a>> \o <<b>>)[1] = a /\ (<<a>> \o <<b>>)[2] = b
    BY <2>1, ConcatProperties
  <2>3. Len(<<a, b>>) = 2 /\ <<a, b>>[1] = a /\ <<a, b>>[2] = b
    OBVIOUS
  <2>4. \A k \in 1..2 : (<<a>> \o <<b>>)[k] = <<a, b>>[k]
    <3>1. \A k \in 1..2 : k = 1 \/ k = 2
      OBVIOUS
    <3> QED
      BY <2>2, <2>3, <3>1
  <2> QED
    BY <2>1, <2>2, <2>3, <2>4, SeqEqual
<1>0. \A a : <<a>> \o <<>> = <<a>>
  <2> TAKE a
  <2>1. <<a>> \in Seq({a})
    OBVIOUS
  <2> QED
    BY <2>1, ConcatEmptySeq
<1>2. CASE y = Null
  <2>1. Release(y) = <<>> /\ Retain(x) = <<<<"retain", x>>>>
        /\ Retain(x) \o Release(y) = <<<<"retain", x>>>>
    BY <1>0, <1>2 DEF Release, Retain
  <2> QED
    BY <2>1, <1>2, NoCalls, RetainCalls, NullAssumption DEF Calls
<1>3. CASE y \in Impls
  <2>1. Release(y) = <<<<"release", y>>>> /\ Retain(x) = <<<<"retain", x>>>>
        /\ Retain(x) \o Release(y) = <<<<"retain", x>>, <<"release", y>>>>
    BY <1>1, <1>3, NullAssumption DEF Release, Retain
  <2>2. y # Null
    BY <1>3, NullAssumption
  <2>3. /\ <<>> \in Calls /\ <<<<"retain", x>>>> \in Calls /\ <<<<"release", y>>>> \in Calls
        /\ <<<<"retain", x>>, <<"release", y>>>> \in Calls
    BY <1>3 DEF Calls
  <2> HIDE DEF Retain, Release
  <2>4. \A i : /\ Retains(Retain(x), i) <=> i = x
               /\ ~ Releases(Retain(x), i) /\ ~ Deletes(Retain(x), i)
    BY <2>1, RetainCalls
  <2>5. \A i : /\ ~ Retains(Release(y), i) /\ ~ Deletes(Release(y), i)
               /\ Releases(Release(y), i) <=> (i = y /\ y # Null)
    BY <2>1, <2>2, <1>3, ReleaseCalls
  <2>6. \A c : c = <<<<"retain", x>>, <<"release", y>>>> =>
          \A i : /\ Retains(c, i) <=> i = x
                 /\ Releases(c, i) <=> (i = y /\ y # Null)
                 /\ ~ Deletes(c, i)
    BY <2>2, <1>3, AssignmentCalls
  <2> QED
    BY <2>1, <2>3, <2>4, <2>5, <2>6
<1> QED
  BY <1>2, <1>3

\* The same of a release alone.
LEMMA Released ==
    ASSUME NEW y \in Impls \cup {Null}
    PROVE  /\ Release(y) \in Calls
           /\ \A i : /\ ~ Retains(Release(y), i) /\ ~ Deletes(Release(y), i)
                     /\ Releases(Release(y), i) <=> (i = y /\ y # Null)
<1>1. CASE Impls = {}
  <2>1. Release(y) = <<>>
    BY <1>1 DEF Release
  <2> QED
    BY <2>1, <1>1, NoCalls DEF Calls
<1>2. CASE Impls # {}
  <2>1. PICK x \in Impls : TRUE
    BY <1>2
  <2> QED
    BY <2>1, Planned
<1> QED
  BY <1>1, <1>2

\* The copy operations: h becomes a handle to x, which the handle s reaches, and
\* what h was a handle to is released.
LEMMA CopyRewires ==
    ASSUME IInv, NEW t \in Threads, NEW h \in Handles, NEW s \in DOMAIN handle,
           NEW x, NEW cs, NEW y,
           x # Null,
           x = handle[s] \/ (s # h /\ handle[s] # Null /\ x = captured[handle[s]]),
           y = IF h \in DOMAIN handle THEN handle[h] ELSE Null,
           cs \in Calls,
           \A i : /\ Retains(cs, i) <=> i = x
                  /\ Releases(cs, i) <=> (i = y /\ y # Null)
                  /\ ~ Deletes(cs, i),
           Begin(t, {s}, {h}, cs), handle' = With(h, x), UNCHANGED <<alive, captured, count>>
    PROVE  Rewires(t, {s}, {h}, cs)
<1>1. /\ DOMAIN handle \subseteq Handles /\ handle \in [DOMAIN handle -> Impls \cup {Null}]
      /\ \A g \in DOMAIN handle : handle[g] \in alive \cup {Null}
      /\ \A i \in alive : captured[i] \in (alive \ {i}) \cup {Null}
      /\ alive \subseteq Impls /\ captured \in [Impls -> Impls \cup {Null}]
      /\ count \in [Impls -> Int]
  BY DEF IInv, Types, Reaches
<1>2. x \in alive /\ x \in Impls /\ y \in Impls \cup {Null}
  BY <1>1, NullAssumption
<1>4. /\ DOMAIN handle' = DOMAIN handle \cup {h} /\ handle'[h] = x
      /\ \A g \in DOMAIN handle \ {h} : handle'[g] = handle[g]
  BY DEF With
<1>5. handle' \in [DOMAIN handle' -> Impls \cup {Null}] /\ DOMAIN handle' \subseteq Handles
  BY <1>1, <1>2, <1>4 DEF With
<1>6. x \in Reachable({s} \cup {h}) /\ y \in Reachable({s} \cup {h})
  BY <1>1 DEF Reachable
<1>7. \A i \in Impls :
        Retains(cs, i) =>
          \/ Releases(cs, i)
          \/ \E g \in ({s} \ {h}) \cap DOMAIN handle :
               handle[g] = i \/ (handle[g] \in alive /\ captured[handle[g]] = i)
  <2> SUFFICES ASSUME NEW i \in Impls, Retains(cs, i), ~ Releases(cs, i)
               PROVE  \E g \in ({s} \ {h}) \cap DOMAIN handle :
                        handle[g] = i \/ (handle[g] \in alive /\ captured[handle[g]] = i)
    OBVIOUS
  <2>1. i = x
    OBVIOUS
  <2>2. CASE s # h
    BY <2>1, <2>2, <1>1
  <2>3. CASE s = h
    BY <2>1, <2>3, <1>1, NullAssumption
  <2> QED
    BY <2>2, <2>3
<1>8. ASSUME NEW i \in alive
      PROVE  /\ IsFiniteSet(Holders(i)')
             /\ Cardinality(Holders(i)') + (IF Releases(cs, i) THEN 1 ELSE 0)
                  = Cardinality(Holders(i))
  <2>1. HoldersFollow({h}, cs)
    <3>1. /\ {s} \in SUBSET Handles /\ {h} \in SUBSET Handles
          /\ DOMAIN handle' \ {h} = DOMAIN handle \ {h}
          /\ \A g \in DOMAIN handle \ {h} : handle'[g] = handle[g]
      BY <1>1, <1>4
    <3> QED
      BY <3>1, HoldersFrame
  <2>2. Holders(i)' = Holders(i) \ {h}
    BY <2>1, <1>4 DEF HoldersFollow
  <2>3. h \in Holders(i) <=> Releases(cs, i)
    BY <2>1, <1>1, NullAssumption DEF HoldersFollow
  <2>4. IsFiniteSet(Holders(i)) /\ Cardinality(Holders(i)) \in Nat
    BY FS_CardinalityType DEF IInv, Counted
  <2>5. /\ IsFiniteSet(Holders(i) \ {h})
        /\ Cardinality(Holders(i) \ {h}) = IF h \in Holders(i) THEN Cardinality(Holders(i)) - 1
                                                              ELSE Cardinality(Holders(i))
    BY <2>4, FS_RemoveElement
  <2> QED
    BY <2>2, <2>3, <2>4, <2>5
<1>9. \A i \in Impls : Retains(cs, i) \/ Releases(cs, i) => i \in Reachable({s} \cup {h})
  BY <1>6
<1>10. \A i \in Impls :
         Retains(cs, i) =>
           \E g \in DOMAIN handle' :
             /\ {h} = {g}
             /\ \/ handle'[g] = i
                \/ handle'[g] \in alive' \ alive /\ captured'[handle'[g]] = i
  BY <1>4
<1>11. \A g \in {h} \cap DOMAIN handle' :
         handle'[g] \in Reachable({s} \cup {h}) \cup (alive' \ alive)
  BY <1>4, <1>6
<1>12. s \in Handles /\ alive' = alive /\ captured' = captured /\ count' = count
  BY <1>1
<1> QED
  BY <1>1, <1>4, <1>5, <1>7, <1>8, <1>9, <1>10, <1>11, <1>12 DEF Rewires

\* The move operations and the destruction: the handle that from was one to, if
\* any, goes to h, and what h was a handle to is released.
LEMMA MoveRewires ==
    ASSUME IInv, NEW t \in Threads, NEW h \in Handles, NEW from \in DOMAIN handle,
           NEW cs, NEW y,
           y = IF h \in DOMAIN handle THEN handle[h] ELSE Null,
           cs = Release(y),
           Begin(t, {}, {h, from}, cs), handle' = Moved(h, from),
           UNCHANGED <<alive, captured, count>>
    PROVE  Rewires(t, {}, {h, from}, cs)
<1>1. /\ DOMAIN handle \subseteq Handles /\ handle \in [DOMAIN handle -> Impls \cup {Null}]
      /\ \A g \in DOMAIN handle : handle[g] \in alive \cup {Null}
      /\ alive \subseteq Impls /\ captured \in [Impls -> Impls \cup {Null}]
      /\ count \in [Impls -> Int]
  BY DEF IInv, Types, Reaches
<1>2. y \in Impls \cup {Null}
  BY <1>1
<1>3. /\ cs \in Calls
      /\ \A i : /\ ~ Retains(cs, i) /\ ~ Deletes(cs, i)
                /\ Releases(cs, i) <=> (i = y /\ y # Null)
  BY <1>2, Released
<1>4. /\ DOMAIN handle' = DOMAIN handle \cup {h} /\ handle'[from] = Null
      /\ h # from => handle'[h] = handle[from]
      /\ \A g \in DOMAIN handle \ {h, from} : handle'[g] = handle[g]
  BY DEF Moved, With
<1>5. handle' \in [DOMAIN handle' -> Impls \cup {Null}] /\ DOMAIN handle' \subseteq Handles
  <2>1. handle' = [g \in DOMAIN handle' |-> handle'[g]]
    BY DEF Moved, With
  <2> QED
    BY <2>1, <1>1, <1>4
<1>6. /\ handle[from] \in Reachable({} \cup {h, from}) /\ y \in Reachable({} \cup {h, from})
      /\ Null \in Reachable({} \cup {h, from})
  BY DEF Reachable
<1>7. \A g \in {h, from} \cap DOMAIN handle' :
        handle'[g] \in Reachable({} \cup {h, from}) \cup (alive' \ alive)
  BY <1>4, <1>6
<1>8. ASSUME NEW i \in alive
      PROVE  /\ IsFiniteSet(Holders(i)')
             /\ Cardinality(Holders(i)') + (IF Releases(cs, i) THEN 1 ELSE 0)
                  = Cardinality(Holders(i))
  <2>1. HoldersFollow({h, from}, cs)
    <3>1. /\ {} \in SUBSET Handles /\ {h, from} \in SUBSET Handles
          /\ DOMAIN handle' \ {h, from} = DOMAIN handle \ {h, from}
          /\ \A g \in DOMAIN handle \ {h, from} : handle'[g] = handle[g]
      BY <1>1, <1>4
    <3> QED
      BY <3>1, HoldersFrame
  <2>2. i # Null
    BY <1>1, NullAssumption
  <2>3. h \in Holders(i) <=> Releases(cs, i)
    BY <2>1, <2>2, <1>3 DEF HoldersFollow
  <2>4. from \in Holders(i) <=> handle[from] = i
    BY <2>1 DEF HoldersFollow
  <2>5. IsFiniteSet(Holders(i)) /\ Cardinality(Holders(i)) \in Nat
    BY FS_CardinalityType DEF IInv, Counted
  <2>6. CASE h # from /\ handle[from] = i
    <3> DEFINE rest == (Holders(i) \ {h}) \ {from}
    <3>1. Holders(i)' = rest \cup {h}
      BY <2>1, <2>2, <2>6, <1>3, <1>4 DEF HoldersFollow
    <3>2. /\ IsFiniteSet(Holders(i) \ {h})
          /\ Cardinality(Holders(i) \ {h}) = Cardinality(Holders(i))
                                               - (IF Releases(cs, i) THEN 1 ELSE 0)
      BY SMTT(30), <2>3, <2>5, FS_RemoveElement
    <3>3. from \in Holders(i) \ {h}
      BY <2>4, <2>6
    <3>4. IsFiniteSet(rest) /\ Cardinality(rest) = Cardinality(Holders(i) \ {h}) - 1
      BY <3>2, <3>3, FS_RemoveElement
    <3>5. h \notin rest
      OBVIOUS
    <3>6. IsFiniteSet(rest \cup {h}) /\ Cardinality(rest \cup {h}) = Cardinality(rest) + 1
      BY <3>4, <3>5, FS_AddElement
    <3>7. Cardinality(rest) \in Nat
      BY <3>4, FS_CardinalityType
    <3> QED
      BY <3>1, <3>2, <3>4, <3>6, <3>7, <2>5
  <2>7. CASE ~ (h # from /\ handle[from] = i)
    <3>1. Holders(i)' = Holders(i) \ {h}
      BY <2>1, <2>2, <2>4, <2>7, <1>4 DEF HoldersFollow
    <3>2. /\ IsFiniteSet(Holders(i) \ {h})
          /\ Cardinality(Holders(i) \ {h}) = IF h \in Holders(i) THEN Cardinality(Holders(i)) - 1
                                                                ELSE Cardinality(Holders(i))
      BY <2>5, FS_RemoveElement
    <3> QED
      BY <3>1, <3>2, <2>3, <2>5
  <2> QED
    BY <2>6, <2>7
<1>9. from \in Handles
  BY <1>1
<1> QED
  BY <1>1, <1>3, <1>4, <1>5, <1>6, <1>7, <1>8, <1>9 DEF Rewires

\* The destruction of a handle.
LEMMA DestroyRewires ==
    ASSUME IInv, NEW t \in Threads, NEW h \in DOMAIN handle, NEW cs,
           cs \in Calls,
           \A i : /\ ~ Retains(cs, i) /\ ~ Deletes(cs, i)
                  /\ Releases(cs, i) <=> (i = handle[h] /\ handle[h] # Null),
           Begin(t, {}, {h}, cs), handle' = [g \in DOMAIN handle \ {h} |-> handle[g]],
           UNCHANGED <<alive, captured, count>>
    PROVE  Rewires(t, {}, {h}, cs)
<1>1. /\ DOMAIN handle \subseteq Handles /\ handle \in [DOMAIN handle -> Impls \cup {Null}]
      /\ alive \subseteq Impls /\ captured \in [Impls -> Impls \cup {Null}]
      /\ count \in [Impls -> Int] /\ h \in Handles
  BY DEF IInv, Types
<1>2. /\ DOMAIN handle' = DOMAIN handle \ {h}
      /\ \A g \in DOMAIN handle \ {h} : handle'[g] = handle[g]
  OBVIOUS
<1>3. handle' \in [DOMAIN handle' -> Impls \cup {Null}] /\ DOMAIN handle' \subseteq Handles
  BY <1>1
<1>4. handle[h] \in Reachable({} \cup {h})
  BY DEF Reachable
<1>5. ASSUME NEW i \in alive
      PROVE  /\ IsFiniteSet(Holders(i)')
             /\ Cardinality(Holders(i)') + (IF Releases(cs, i) THEN 1 ELSE 0)
                  = Cardinality(Holders(i))
  <2>1. HoldersFollow({h}, cs)
    <3>1. /\ {} \in SUBSET Handles /\ {h} \in SUBSET Handles
          /\ DOMAIN handle' \ {h} = DOMAIN handle \ {h}
          /\ \A g \in DOMAIN handle \ {h} : handle'[g] = handle[g]
      BY <1>1, <1>2
    <3> QED
      BY <3>1, HoldersFrame
  <2>5. Holders(i)' = Holders(i) \ {h}
    BY <2>1, <1>2 DEF HoldersFollow
  <2>6. h \in Holders(i) <=> Releases(cs, i)
    BY <2>1, <1>1, NullAssumption DEF HoldersFollow
  <2>7. IsFiniteSet(Holders(i)) /\ Cardinality(Holders(i)) \in Nat
    BY FS_CardinalityType DEF IInv, Counted
  <2>8. /\ IsFiniteSet(Holders(i) \ {h})
        /\ Cardinality(Holders(i) \ {h}) = IF h \in Holders(i) THEN Cardinality(Holders(i)) - 1
                                                              ELSE Cardinality(Holders(i))
    BY <2>7, FS_RemoveElement
  <2> QED
    BY <2>5, <2>6, <2>7, <2>8
<1>6. alive' = alive /\ captured' = captured /\ count' = count
  OBVIOUS
<1>7. \A i \in Impls : Retains(cs, i) \/ Releases(cs, i) => i \in Reachable({} \cup {h})
  BY <1>4
<1> QED
  BY <1>1, <1>2, <1>3, <1>5, <1>6, <1>7 DEF Rewires

\* An implementation is made, which captured x, the one that a handle of rs is to,
\* or nothing.
LEMMA MakeRewires ==
    ASSUME IInv, NEW t \in Threads, NEW h \in Handles \ DOMAIN handle,
           NEW impl \in Impls \ alive, NEW rs \in SUBSET DOMAIN handle, NEW x, NEW cs,
           x = Null \/ \E s \in rs : x = handle[s],
           cs \in Calls,
           \A i : /\ Retains(cs, i) <=> (i = x /\ x # Null)
                  /\ ~ Releases(cs, i) /\ ~ Deletes(cs, i),
           Begin(t, rs, {h}, cs), handle' = With(h, impl), alive' = alive \cup {impl},
           captured' \in [Impls -> Impls \cup {Null}], count' \in [Impls -> Int],
           captured'[impl] = x, count'[impl] = 1,
           \A i \in alive : captured'[i] = captured[i] /\ count'[i] = count[i]
    PROVE  Rewires(t, rs, {h}, cs)
<1>1. /\ DOMAIN handle \subseteq Handles /\ handle \in [DOMAIN handle -> Impls \cup {Null}]
      /\ \A g \in DOMAIN handle : handle[g] \in alive \cup {Null}
      /\ alive \subseteq Impls /\ captured \in [Impls -> Impls \cup {Null}]
      /\ count \in [Impls -> Int] /\ rs \subseteq Handles
  BY DEF IInv, Types, Reaches
<1>2. x \in alive \cup {Null} /\ x \in Reachable(rs \cup {h})
  BY <1>1 DEF Reachable
<1>3. /\ DOMAIN handle' = DOMAIN handle \cup {h} /\ handle'[h] = impl
      /\ \A g \in DOMAIN handle \ {h} : handle'[g] = handle[g]
  BY DEF With
<1>4. handle' \in [DOMAIN handle' -> Impls \cup {Null}] /\ DOMAIN handle' \subseteq Handles
  BY <1>1, <1>3 DEF With
<1>5. /\ captured' \in [Impls -> Impls \cup {Null}] /\ count' \in [Impls -> Int]
      /\ captured'[impl] = x /\ count'[impl] = 1
      /\ \A i \in alive : captured'[i] = captured[i] /\ count'[i] = count[i]
  OBVIOUS
<1>6. ASSUME NEW i \in alive
      PROVE  /\ IsFiniteSet(Holders(i)')
             /\ Cardinality(Holders(i)') + (IF Releases(cs, i) THEN 1 ELSE 0)
                  = Cardinality(Holders(i))
  <2>1. HoldersFollow({h}, cs)
    <3>1. /\ rs \in SUBSET Handles /\ {h} \in SUBSET Handles
          /\ DOMAIN handle' \ {h} = DOMAIN handle \ {h}
          /\ \A g \in DOMAIN handle \ {h} : handle'[g] = handle[g]
      BY <1>1, <1>3
    <3> QED
      BY <3>1, HoldersFrame
  <2>5. Holders(i)' = Holders(i)
    BY SMTT(30), <2>1, <1>3 DEF HoldersFollow
  <2>6. IsFiniteSet(Holders(i)) /\ Cardinality(Holders(i)) \in Nat
    BY FS_CardinalityType DEF IInv, Counted
  <2> QED
    BY <2>5, <2>6
<1>7. \A i \in alive' \ alive :
        /\ count'[i] = 1
        /\ \E g \in DOMAIN handle' : {h} = {g} /\ handle'[g] = i
        /\ \/ captured'[i] = Null
           \/ captured'[i] \in Reachable(rs \cup {h}) /\ Retains(cs, captured'[i])
  BY <1>2, <1>3, <1>5
<1>8. \A i \in Impls :
        Retains(cs, i) =>
          /\ \E g \in DOMAIN handle' :
               /\ {h} = {g}
               /\ \/ handle'[g] = i
                  \/ handle'[g] \in alive' \ alive /\ captured'[handle'[g]] = i
          /\ \E s \in (rs \ {h}) \cap DOMAIN handle : handle[s] = i
  BY <1>3, <1>5
<1>9. \A i \in Impls : Retains(cs, i) \/ Releases(cs, i) => i \in Reachable(rs \cup {h})
  BY <1>2
<1>10. \A g \in {h} \cap DOMAIN handle' :
         handle'[g] \in Reachable(rs \cup {h}) \cup (alive' \ alive)
  BY <1>3
<1>11. alive \subseteq alive' /\ alive' \subseteq Impls
  BY <1>1
<1>12. DOMAIN handle' \ {h} = DOMAIN handle \ {h}
  BY <1>3
<1>13. \A i : ~ Deletes(cs, i)
  OBVIOUS
<1>14. t \in Threads /\ rs \subseteq Handles /\ {h} \subseteq Handles
  BY <1>1
<1> QED
  BY <1>3, <1>4, <1>5, <1>6, <1>7, <1>8, <1>9, <1>10, <1>11, <1>12, <1>13, <1>14 DEF Rewires

\* Handles are left alone.
LEMMA NoHandleRewires ==
    ASSUME IInv, NEW t \in Threads, NEW rs \in SUBSET Handles, NEW ws \in SUBSET Handles,
           NoHandle(t, rs, ws)
    PROVE  Rewires(t, rs, ws, <<>>)
<1>1. /\ Begin(t, rs, ws, <<>>) /\ handle' = handle /\ alive' = alive
      /\ captured' = captured /\ count' = count
  BY DEF NoHandle
<1>2. Types
  BY DEF IInv
<1>3. <<>> \in Calls
  BY DEF Calls
<1>4. \A i : ~ Retains(<<>>, i) /\ ~ Releases(<<>>, i) /\ ~ Deletes(<<>>, i)
  BY NoCalls
<1>5. \A g \in ws \cap DOMAIN handle' : handle'[g] \in Reachable(rs \cup ws)
  BY <1>1 DEF Reachable
<1>6. ASSUME NEW i \in alive
      PROVE  /\ IsFiniteSet(Holders(i)')
             /\ Cardinality(Holders(i)') + (IF Releases(<<>>, i) THEN 1 ELSE 0)
                  = Cardinality(Holders(i))
  <2>1. HoldersFollow(ws, <<>>)
    BY <1>1, HoldersFrame
  <2>5. \A g : g \in Holders(i) => g \in DOMAIN handle /\ handle[g] = i
    BY DEF Holders, HandlesTo
  <2>6. Holders(i)' = Holders(i)
    <3>1. ~ Retains(<<>>, i)
      BY <1>4
    <3>2. \A g : g \in Holders(i)' <=>
            \/ g \in Holders(i) /\ g \notin ws
            \/ g \in ws /\ g \in DOMAIN handle /\ handle[g] = i
      BY <2>1, <3>1, <1>1 DEF HoldersFollow
    <3>3. \A g : g \in ws => (g \in Holders(i) <=> g \in DOMAIN handle /\ handle[g] = i)
      BY <2>1 DEF HoldersFollow
    <3> QED
      BY <3>2, <3>3
  <2>7. IsFiniteSet(Holders(i)) /\ Cardinality(Holders(i)) \in Nat
    BY FS_CardinalityType DEF IInv, Counted
  <2> QED
    BY <2>6, <2>7, <1>4
<1> QED
  BY <1>1, <1>2, <1>3, <1>4, <1>5, <1>6 DEF Rewires, Types

\* Every operation that is begun keeps the invariant.
LEMMA OperateStep ==
    ASSUME IInv, NEW t \in Threads, NEW h \in Handles, Operate(t, h)
    PROVE  IInv'
<1>0. /\ DOMAIN handle \subseteq Handles /\ handle \in [DOMAIN handle -> Impls \cup {Null}]
      /\ \A g \in DOMAIN handle : handle[g] \in alive \cup {Null}
      /\ \A i \in alive : captured[i] \in (alive \ {i}) \cup {Null}
      /\ alive \subseteq Impls /\ captured \in [Impls -> Impls \cup {Null}]
      /\ count \in [Impls -> Int]
  BY DEF IInv, Types, Reaches
<1>1. ASSUME NEW i \in Impls, Make(t, h, i) PROVE IInv'
  <2>1. /\ h \in Handles \ DOMAIN handle /\ i \in Impls \ alive
        /\ Begin(t, {}, {h}, <<>>) /\ handle' = With(h, i) /\ alive' = alive \cup {i}
    BY <1>1 DEF Make
  <2>2. /\ captured' \in [Impls -> Impls \cup {Null}] /\ count' \in [Impls -> Int]
        /\ captured'[i] = Null /\ count'[i] = 1
        /\ \A k \in alive : captured'[k] = captured[k] /\ count'[k] = count[k]
    BY <1>1, <2>1, <1>0 DEF Make
  <2>3. <<>> \in Calls
    BY DEF Calls
  <2>4. Rewires(t, {}, {h}, <<>>)
    BY <2>1, <2>2, <2>3, NoCalls, MakeRewires
  <2> QED
    BY <2>4, Begun
<1>2. ASSUME NEW i \in Impls, NEW s \in Handles, MakeFrom(t, h, i, s) PROVE IInv'
  <2> DEFINE cs == Retain(handle[s])
  <2>1. /\ h \in Handles \ DOMAIN handle /\ i \in Impls \ alive /\ s \in DOMAIN handle
        /\ Begin(t, {s}, {h}, cs) /\ handle' = With(h, i) /\ alive' = alive \cup {i}
        /\ handle[s] # Null /\ handle[s] \in Impls
    BY <1>2, <1>0 DEF MakeFrom
  <2>2. /\ captured' \in [Impls -> Impls \cup {Null}] /\ count' \in [Impls -> Int]
        /\ captured'[i] = handle[s] /\ count'[i] = 1
        /\ \A k \in alive : captured'[k] = captured[k] /\ count'[k] = count[k]
    BY <1>2, <2>1, <1>0 DEF MakeFrom
  <2>3. cs \in Calls /\ \A k : /\ Retains(cs, k) <=> k = handle[s]
                               /\ ~ Releases(cs, k) /\ ~ Deletes(cs, k)
    BY <2>1, Planned
  <2>4. Rewires(t, {s}, {h}, cs)
    BY <2>1, <2>2, <2>3, MakeRewires
  <2> QED
    BY <2>4, Begun
<1>3. ASSUME Destroy(t, h) PROVE IInv'
  <2> DEFINE cs == Release(handle[h])
  <2>1. /\ h \in DOMAIN handle /\ Begin(t, {}, {h}, cs)
        /\ handle' = [g \in DOMAIN handle \ {h} |-> handle[g]]
        /\ UNCHANGED <<alive, captured, count>> /\ handle[h] \in Impls \cup {Null}
    BY <1>3, <1>0 DEF Destroy
  <2>2. cs \in Calls /\ \A k : /\ ~ Retains(cs, k) /\ ~ Deletes(cs, k)
                               /\ Releases(cs, k) <=> (k = handle[h] /\ handle[h] # Null)
    BY <2>1, Released
  <2>3. Rewires(t, {}, {h}, cs)
    BY <2>1, <2>2, DestroyRewires
  <2> QED
    BY <2>3, Begun
<1>4. ASSUME NEW o \in DOMAIN handle, handle[o] # Null, NEW x, x # Null, h \notin DOMAIN handle,
             x = handle[o] \/ x = captured[handle[o]],
             Begin(t, {o}, {h}, Retain(x)), handle' = With(h, x),
             UNCHANGED <<alive, captured, count>>
      PROVE  IInv'
  <2> DEFINE cs == Retain(x)
  <2>1. x \in Impls
    BY <1>0, <1>4
  <2>2. cs \in Calls /\ \A k : /\ Retains(cs, k) <=> k = x
                               /\ ~ Releases(cs, k) /\ ~ Deletes(cs, k)
    BY <2>1, Planned
  <2>3. PICK y : y = Null
    OBVIOUS
  <2>4. /\ y = IF h \in DOMAIN handle THEN handle[h] ELSE Null
        /\ \A k : Releases(cs, k) <=> (k = y /\ y # Null)
        /\ o # h
    BY <2>2, <2>3, <1>4
  <2> HIDE DEF cs
  <2>5. Begin(t, {o}, {h}, cs)
    BY <1>4 DEF cs
  <2>6. Rewires(t, {o}, {h}, cs)
    BY <2>2, <2>4, <2>5, <1>4, CopyRewires
  <2> QED
    BY <2>6, Begun
<1>5. ASSUME NEW o \in Handles, CopyConstruct(t, h, o) PROVE IInv'
  BY <1>4, <1>5 DEF CopyConstruct
<1>6. ASSUME NEW o \in Handles, CopyCaptured(t, h, o) PROVE IInv'
  BY <1>4, <1>6 DEF CopyCaptured
<1>7. ASSUME NEW o \in Handles, CopyAssign(t, h, o) PROVE IInv'
  <2> DEFINE cs == Retain(handle[o]) \o Release(handle[h])
  <2>1. /\ h \in DOMAIN handle /\ o \in DOMAIN handle /\ handle[o] # Null
        /\ Begin(t, {o}, {h}, cs) /\ handle' = [handle EXCEPT ![h] = handle[o]]
        /\ UNCHANGED <<alive, captured, count>>
    BY <1>7 DEF CopyAssign, AssignCalls
  <2>2. handle[o] \in Impls /\ handle[h] \in Impls \cup {Null}
    BY <2>1, <1>0
  <2>3. cs \in Calls /\ \A k : /\ Retains(cs, k) <=> k = handle[o]
                               /\ Releases(cs, k) <=> (k = handle[h] /\ handle[h] # Null)
                               /\ ~ Deletes(cs, k)
    BY <2>2, Planned
  <2>4. handle' = With(h, handle[o])
    <3>1. DOMAIN handle \cup {h} = DOMAIN handle
      BY <2>1
    <3> QED
      BY <2>1, <3>1, <1>0 DEF With
  <2>5. PICK y : y = handle[h]
    OBVIOUS
  <2>6. /\ y = IF h \in DOMAIN handle THEN handle[h] ELSE Null
        /\ \A k : Releases(cs, k) <=> (k = y /\ y # Null)
    BY <2>1, <2>3, <2>5
  <2> HIDE DEF cs
  <2>7. Rewires(t, {o}, {h}, cs)
    BY <2>1, <2>3, <2>4, <2>6, CopyRewires
  <2> QED
    BY <2>7, Begun
<1>8. ASSUME NEW o \in Handles, MoveConstruct(t, h, o) PROVE IInv'
  <2>1. /\ h \notin DOMAIN handle /\ o \in DOMAIN handle /\ Begin(t, {}, {h, o}, <<>>)
        /\ handle' = Moved(h, o) /\ UNCHANGED <<alive, captured, count>>
    BY <1>8 DEF MoveConstruct
  <2>2. PICK y : y = Null
    OBVIOUS
  <2>3. y = (IF h \in DOMAIN handle THEN handle[h] ELSE Null) /\ <<>> = Release(y)
    BY <2>1, <2>2 DEF Release
  <2>4. Rewires(t, {}, {h, o}, Release(y))
    BY <2>1, <2>3, MoveRewires
  <2> QED
    BY <2>4, Begun
<1>9. ASSUME NEW o \in Handles, MoveAssign(t, h, o) PROVE IInv'
  <2>1. /\ h \in DOMAIN handle /\ o \in DOMAIN handle
        /\ Begin(t, {}, {h, o}, Release(handle[h]))
        /\ handle' = Moved(h, o) /\ UNCHANGED <<alive, captured, count>>
    BY <1>9 DEF MoveAssign
  <2>2. PICK y : y = handle[h]
    OBVIOUS
  <2>3. y = (IF h \in DOMAIN handle THEN handle[h] ELSE Null)
        /\ Begin(t, {}, {h, o}, Release(y))
    BY <2>1, <2>2
  <2>4. Rewires(t, {}, {h, o}, Release(y))
    BY <2>1, <2>3, MoveRewires
  <2> QED
    BY <2>4, Begun
<1> QED
  BY <1>1, <1>2, <1>3, <1>5, <1>6, <1>7, <1>8, <1>9 DEF Operate

-----------------------------------------------------------------------------
(* An operation goes on *)

\* The call at the head is one of those that are left.
LEMMA HeadOfCalls ==
    ASSUME NEW c \in Calls, c # <<>>, NEW i \in Impls
    PROVE  /\ Head(c) = <<"retain", i>> => Retains(c, i)
           /\ Head(c) = <<"release", i>> => c = <<<<"release", i>>>>
           /\ Head(c) = <<"delete", i>> => c = <<<<"delete", i>>>>
<1>1. \A a : Head(<<a>>) = a
  OBVIOUS
<1>2. \A a, b : Head(<<a, b>>) = a
  OBVIOUS
<1>3. CASE \E x \in Impls : c \in {<<<<"retain", x>>>>, <<<<"release", x>>>>, <<<<"delete", x>>>>}
  BY <1>1, <1>3 DEF Retains
<1>4. CASE \E x, y \in Impls : c = <<<<"retain", x>>, <<"release", y>>>>
  BY <1>2, <1>4 DEF Retains
<1> QED
  BY <1>3, <1>4 DEF Calls

\* What is left after the retain of a list of calls, and that it was the only one.
LEMMA RetainDone ==
    ASSUME NEW c, NEW i, Retains(c, i)
    PROVE  /\ Tail(c) \in Calls
           /\ \A k : /\ Retains(c, k) <=> k = i
                     /\ ~ Deletes(c, k)
                     /\ ~ Retains(Tail(c), k) /\ ~ Deletes(Tail(c), k)
                     /\ Releases(Tail(c), k) <=> Releases(c, k)
<1>1. i \in Impls
  BY DEF Retains
<1>2. CASE c = <<<<"retain", i>>>> /\ Tail(c) = <<>>
  BY <1>1, <1>2, NoCalls, RetainCalls DEF Calls
<1>3. CASE \E y \in Impls : /\ c = <<<<"retain", i>>, <<"release", y>>>>
                            /\ Tail(c) = <<<<"release", y>>>>
  <2>1. PICK y \in Impls : /\ c = <<<<"retain", i>>, <<"release", y>>>>
                          /\ Tail(c) = <<<<"release", y>>>>
    BY <1>3
  <2>2. Tail(c) \in Calls
    BY <2>1 DEF Calls
  <2>3. \A k : (Retains(c, k) <=> k = i) /\ (Releases(c, k) <=> k = y) /\ ~ Deletes(c, k)
    BY <2>1, <1>1, AssignmentCalls
  <2>4. \A k : /\ ~ Retains(Tail(c), k) /\ ~ Deletes(Tail(c), k)
               /\ Releases(Tail(c), k) <=> k = y
    BY <2>1, ReleaseCalls
  <2> QED
    BY <2>2, <2>3, <2>4
<1> QED
  BY <1>1, <1>2, <1>3, AfterRetain

\* fetch_add: what was referred to and not counted is counted.
LEMMA RetainStep ==
    ASSUME IInv, NEW t \in Threads, NEW i \in Impls, DoRetain(t, i)
    PROVE  IInv'
<1>0. Types /\ Reaches /\ Apart /\ Target /\ Protected /\ LastToKnow /\ Counted /\ Deleted
  BY DEF IInv
<1>1. /\ handle' = handle /\ alive' = alive /\ captured' = captured
      /\ reads' = reads /\ writes' = writes
      /\ count' = [count EXCEPT ![i] = count[i] + 1]
      /\ todo' = [todo EXCEPT ![t] = Tail(todo[t])]
      /\ todo[t] # <<>> /\ Head(todo[t]) = <<"retain", i>>
  BY DEF DoRetain, Calling
<1>2. /\ todo \in [Threads -> Calls] /\ count \in [Impls -> Int] /\ alive \subseteq Impls
      /\ \A j \in alive : captured[j] \in (alive \ {j}) \cup {Null}
  BY <1>0 DEF Types, Reaches
<1>3. Retains(todo[t], i)
  BY <1>1, <1>2, HeadOfCalls
<1>4. /\ todo'[t] = Tail(todo[t]) /\ Tail(todo[t]) \in Calls
      /\ \A u \in Threads \ {t} : todo'[u] = todo[u]
  BY <1>1, <1>2, <1>3, RetainDone
<1>5. \A k : /\ WillRetain(t, k) <=> k = i
             /\ ~ WillRetain(t, k)' /\ ~ WillDelete(t, k) /\ ~ WillDelete(t, k)'
             /\ WillRelease(t, k)' <=> WillRelease(t, k)
  BY <1>3, <1>4, RetainDone DEF WillRetain, WillRelease, WillDelete
<1>6. \A u \in Threads \ {t} : \A k :
        /\ WillRetain(u, k)' <=> WillRetain(u, k)
        /\ WillRelease(u, k)' <=> WillRelease(u, k)
        /\ WillDelete(u, k)' <=> WillDelete(u, k)
  BY <1>4 DEF WillRetain, WillRelease, WillDelete
<1>7. \A k : HandlesTo(k)' = HandlesTo(k) /\ CapturedBy(k)' = CapturedBy(k)
  BY <1>1 DEF HandlesTo, CapturedBy
<1>8. i \in alive
  BY <1>0, <1>5 DEF Reaches
<1>9. PICK h \in DOMAIN handle :
        /\ writes[t] = {h}
        /\ \/ handle[h] = i
           \/ /\ handle[h] \in alive /\ captured[handle[h]] = i
              /\ HandlesTo(handle[h]) = {h} /\ CapturedBy(handle[h]) = {}
  BY <1>0, <1>5 DEF Target
<1>10. \A u \in Threads \ {t} : \A k : WillRetain(u, k) => h \notin writes[u]
  <2> SUFFICES ASSUME NEW u \in Threads \ {t}, NEW k, WillRetain(u, k)
               PROVE  h \notin writes[u]
    OBVIOUS
  <2>1. Busy(u)
    BY NoCalls DEF Busy, WillRetain
  <2> QED
    BY <2>1, <1>0, <1>1, <1>9 DEF Apart, Busy
<1>11. \A g \in DOMAIN handle :
         UncountedHandle(g)' <=> UncountedHandle(g) /\ ~ (g = h /\ handle[h] = i)
  <2> SUFFICES ASSUME NEW g \in DOMAIN handle
               PROVE  UncountedHandle(g)' <=> UncountedHandle(g) /\ ~ (g = h /\ handle[h] = i)
    OBVIOUS
  <2>1. UncountedHandle(g)' <=>
          \E u \in Threads \ {t} : g \in writes[u] /\ WillRetain(u, handle[g])
    BY <1>1, <1>4, <1>5, <1>6 DEF UncountedHandle, WillRetain
  <2>2. UncountedHandle(g) <=>
          \/ g = h /\ handle[g] = i
          \/ \E u \in Threads \ {t} : g \in writes[u] /\ WillRetain(u, handle[g])
    BY <1>5, <1>9 DEF UncountedHandle
  <2> QED
    BY <2>1, <2>2, <1>10
<1>12. \A j \in alive :
         UncountedCapture(j)' <=> UncountedCapture(j) /\ ~ (j = handle[h] /\ captured[j] = i)
  <2> SUFFICES ASSUME NEW j \in alive
               PROVE  UncountedCapture(j)'
                       <=> UncountedCapture(j) /\ ~ (j = handle[h] /\ captured[j] = i)
    OBVIOUS
  <2> DEFINE Others == \E u \in Threads \ {t} : /\ WillRetain(u, captured[j])
                                               /\ \E g \in writes[u] : g \in HandlesTo(j)
  <2>1. UncountedCapture(j)' <=> Others
    BY <1>1, <1>4, <1>5, <1>6, <1>7 DEF UncountedCapture, WillRetain, HandlesTo
  <2>2. UncountedCapture(j) <=> (captured[j] = i /\ h \in HandlesTo(j)) \/ Others
    BY <1>5, <1>9 DEF UncountedCapture
  <2>3. h \in HandlesTo(j) <=> j = handle[h]
    BY <1>9 DEF HandlesTo
  <2>4. ASSUME j = handle[h], captured[j] = i, Others PROVE FALSE
    <3>1. j # i
      BY <2>4, <1>2, NullAssumption
    <3>2. HandlesTo(j) = {h}
      BY <2>4, <3>1, <1>9
    <3> QED
      BY <2>4, <3>2, <1>10
  <2> QED
    BY <2>1, <2>2, <2>3, <2>4
<1>13. \A k : Holders(k)' = IF k = i /\ handle[h] = i THEN Holders(k) \cup {h} ELSE Holders(k)
  BY <1>1, <1>9, <1>11 DEF Holders, HandlesTo
<1>14. \A k : Captors(k)' = IF k = i /\ handle[h] # i THEN Captors(k) \cup {handle[h]}
                                                     ELSE Captors(k)
  <2>1. handle[h] # i => handle[h] \in alive /\ captured[handle[h]] = i
    BY <1>9
  <2>2. \A j \in alive : captured[j] = i => j # i
    BY <1>2, NullAssumption
  <2>3. ASSUME NEW k, NEW j
        PROVE  j \in Captors(k)' <=> j \in Captors(k) \/ (k = i /\ handle[h] # i /\ j = handle[h])
    <3>1. j \in Captors(k)' <=> (j \in alive /\ captured[j] = k /\ ~ UncountedCapture(j)')
      BY <1>1 DEF Captors, CapturedBy
    <3>2. j \in Captors(k) <=> (j \in alive /\ captured[j] = k /\ ~ UncountedCapture(j))
      BY DEF Captors, CapturedBy
    <3> QED
      BY <3>1, <3>2, <2>1, <2>2, <1>12
  <2> QED
    BY <2>3
<1>15. \A k : Leavers(k)' = Leavers(k)
  BY <1>5, <1>6 DEF Leavers
<1>16. Types'
  BY <1>0, <1>1, <1>4 DEF Types
<1>17. Reaches'
  BY <1>0, <1>1, <1>5, <1>6 DEF Reaches
<1>18. Apart'
  <2>1. \A u \in Threads : Busy(u)' => Busy(u)
    BY <1>1, <1>4 DEF Busy
  <2> QED
    BY <2>1, <1>0, <1>1 DEF Apart
<1>19. Target'
  <2> SUFFICES ASSUME NEW u \in Threads, NEW k \in Impls, WillRetain(u, k)'
               PROVE  \E g \in DOMAIN handle :
                        /\ writes[u] = {g}
                        /\ \/ handle[g] = k
                           \/ /\ handle[g] \in alive /\ captured[handle[g]] = k
                              /\ HandlesTo(handle[g]) = {g} /\ CapturedBy(handle[g]) = {}
    BY <1>1 DEF Target, HandlesTo, CapturedBy
  <2>1. WillRetain(u, k)
    BY <1>5, <1>6
  <2> QED
    BY <2>1, <1>0 DEF Target
<1>20. Protected'
  <2> SUFFICES ASSUME NEW u \in Threads, NEW k \in Impls, WillRetain(u, k)', ~ WillRelease(u, k)'
               PROVE  \E s \in reads[u] :
                        s \in Holders(k)' \/ \E j \in Captors(k)' : s \in Holders(j)'
    BY <1>1 DEF Protected
  <2>1. WillRetain(u, k) /\ ~ WillRelease(u, k)
    BY <1>5, <1>6
  <2>2. PICK s \in reads[u] : s \in Holders(k) \/ \E j \in Captors(k) : s \in Holders(j)
    BY <2>1, <1>0 DEF Protected
  <2>3. /\ \A j : s \in Holders(j) => s \in Holders(j)'
        /\ \A j : j \in Captors(k) => j \in Captors(k)'
    BY <1>13, <1>14
  <2> QED
    BY <2>2, <2>3
<1>21. LastToKnow'
  BY <1>0, <1>5, <1>6, <1>7 DEF LastToKnow
<1>22. Counted'
  <2> SUFFICES ASSUME NEW k \in alive
               PROVE  /\ IsFiniteSet(Holders(k)') /\ IsFiniteSet(Captors(k)')
                      /\ IsFiniteSet(Leavers(k)')
                      /\ count'[k] = Cardinality(Holders(k)') + Cardinality(Captors(k)')
                                       + Cardinality(Leavers(k)')
    BY <1>1 DEF Counted
  <2>1. /\ IsFiniteSet(Holders(k)) /\ IsFiniteSet(Captors(k)) /\ IsFiniteSet(Leavers(k))
        /\ count[k] = Cardinality(Holders(k)) + Cardinality(Captors(k)) + Cardinality(Leavers(k))
    BY <1>0 DEF Counted
  <2>2. /\ Cardinality(Holders(k)) \in Nat /\ Cardinality(Captors(k)) \in Nat
        /\ Cardinality(Leavers(k)) \in Nat
    BY <2>1, FS_CardinalityType
  <2>3. Leavers(k)' = Leavers(k) /\ count'[k] = IF k = i THEN count[k] + 1 ELSE count[k]
    BY <1>1, <1>2, <1>15
  <2>4. CASE k # i
    BY <2>1, <2>3, <2>4, <1>13, <1>14
  <2>5. CASE k = i /\ handle[h] = i
    <3>1. h \notin Holders(i)
      BY <2>5, <1>5, <1>9 DEF Holders, UncountedHandle
    <3>2. Holders(k)' = Holders(i) \cup {h} /\ Captors(k)' = Captors(k)
      BY <2>5, <1>13, <1>14
    <3>3. IsFiniteSet(Holders(i) \cup {h})
          /\ Cardinality(Holders(i) \cup {h}) = Cardinality(Holders(i)) + 1
      BY <2>1, <2>5, <3>1, FS_AddElement
    <3> QED
      BY <2>1, <2>2, <2>3, <2>5, <3>2, <3>3
  <2>6. CASE k = i /\ handle[h] # i
    <3> DEFINE j == handle[h]
    <3>1. j \notin Captors(i)
      <4>1. h \in writes[t] /\ h \in HandlesTo(j) /\ captured[j] = i
        BY <2>6, <1>9 DEF HandlesTo
      <4>2. UncountedCapture(j)
        BY <4>1, <1>5 DEF UncountedCapture
      <4> QED
        BY <4>2 DEF Captors
    <3>2. Captors(k)' = Captors(i) \cup {j} /\ Holders(k)' = Holders(k)
      BY <2>6, <1>13, <1>14
    <3>3. IsFiniteSet(Captors(i) \cup {j})
          /\ Cardinality(Captors(i) \cup {j}) = Cardinality(Captors(i)) + 1
      BY <2>1, <2>6, <3>1, FS_AddElement
    <3> QED
      BY <2>1, <2>2, <2>3, <2>6, <3>2, <3>3
  <2> QED
    BY <2>4, <2>5, <2>6
<1>23. Deleted'
  <2> SUFFICES ASSUME NEW k \in alive, count'[k] = 0
               PROVE  \E u \in Threads : WillDelete(u, k)'
    BY <1>1 DEF Deleted
  <2>1. count[i] \in Nat
    <3>1. /\ IsFiniteSet(Holders(i)) /\ IsFiniteSet(Captors(i)) /\ IsFiniteSet(Leavers(i))
          /\ count[i] = Cardinality(Holders(i)) + Cardinality(Captors(i))
                          + Cardinality(Leavers(i))
      BY <1>0, <1>8 DEF Counted
    <3> QED
      BY <3>1, FS_CardinalityType
  <2>2. count[k] = 0
    BY <2>1, <1>1, <1>2
  <2> QED
    BY <2>2, <1>0, <1>5, <1>6 DEF Deleted
<1> QED
  BY <1>16, <1>17, <1>18, <1>19, <1>20, <1>21, <1>22, <1>23 DEF IInv

\* A list of one call, or none, and nothing after it.
LEMMA NothingAfter ==
    /\ \A a : Tail(<<a>>) = <<>> /\ <<a>> \o <<>> = <<a>>
    /\ <<>> \o <<>> = <<>>
<1>1. \A a : Tail(<<a>>) = <<>>
  OBVIOUS
<1>2. \A a : <<a>> \o <<>> = <<a>>
  <2> TAKE a
  <2>1. <<a>> \in Seq({a})
    OBVIOUS
  <2> QED
    BY <2>1, ConcatEmptySeq
<1>3. <<>> \o <<>> = <<>>
  <2>1. <<>> \in Seq({})
    OBVIOUS
  <2> QED
    BY <2>1, ConcatEmptySeq
<1> QED
  BY <1>1, <1>2, <1>3

\* fetch_sub: the one who leaves last, and only that one, will delete.
LEMMA ReleaseStep ==
    ASSUME IInv, NEW t \in Threads, NEW i \in Impls, DoRelease(t, i)
    PROVE  IInv'
<1>0. Types /\ Reaches /\ Apart /\ Target /\ Protected /\ LastToKnow /\ Counted /\ Deleted
  BY DEF IInv
<1> DEFINE last == count[i] = 1
<1>1. /\ handle' = handle /\ alive' = alive /\ captured' = captured
      /\ reads' = reads /\ writes' = writes
      /\ count' = [count EXCEPT ![i] = count[i] - 1]
      /\ todo' = [todo EXCEPT ![t] =
                    (IF last THEN <<<<"delete", i>>>> ELSE <<>>) \o Tail(todo[t])]
      /\ todo[t] # <<>> /\ Head(todo[t]) = <<"release", i>>
  BY DEF DoRelease, Calling, IsLast
<1>2. /\ todo \in [Threads -> Calls] /\ count \in [Impls -> Int] /\ alive \subseteq Impls
      /\ \A j \in alive : captured[j] \in (alive \ {j}) \cup {Null}
  BY <1>0 DEF Types, Reaches
<1>3. todo[t] = <<<<"release", i>>>>
  BY <1>1, <1>2, HeadOfCalls
<1>4. /\ todo'[t] = IF last THEN <<<<"delete", i>>>> ELSE <<>>
      /\ \A u \in Threads \ {t} : todo'[u] = todo[u]
  BY <1>1, <1>2, <1>3, NothingAfter
<1>5. \A k : /\ ~ WillRetain(t, k) /\ ~ WillRetain(t, k)'
             /\ ~ WillDelete(t, k)
             /\ WillDelete(t, k)' <=> (k = i /\ last)
             /\ WillRelease(t, k) <=> k = i
             /\ ~ WillRelease(t, k)'
  <2>1. \A k : ~ WillRetain(t, k) /\ ~ WillDelete(t, k) /\ (WillRelease(t, k) <=> k = i)
    BY <1>3, ReleaseCalls DEF WillRetain, WillRelease, WillDelete
  <2>2. \A k : /\ ~ Retains(todo'[t], k) /\ ~ Releases(todo'[t], k)
               /\ Deletes(todo'[t], k) <=> (k = i /\ last)
    BY <1>4, DeleteCalls, NoCalls
  <2> QED
    BY <2>1, <2>2 DEF WillRetain, WillRelease, WillDelete
<1>6. \A u \in Threads \ {t} : \A k :
        /\ WillRetain(u, k)' <=> WillRetain(u, k)
        /\ WillRelease(u, k)' <=> WillRelease(u, k)
        /\ WillDelete(u, k)' <=> WillDelete(u, k)
  BY <1>4 DEF WillRetain, WillRelease, WillDelete
<1>7. \A k : HandlesTo(k)' = HandlesTo(k) /\ CapturedBy(k)' = CapturedBy(k)
  BY <1>1 DEF HandlesTo, CapturedBy
<1>8. i \in alive
  BY <1>0, <1>5 DEF Reaches
<1>9. \A u \in Threads : \A k : WillRetain(u, k)' <=> WillRetain(u, k)
  BY <1>5, <1>6
<1>10. \A g : UncountedHandle(g)' <=> UncountedHandle(g)
  BY <1>1, <1>9 DEF UncountedHandle, WillRetain
<1>11. \A j : UncountedCapture(j)' <=> UncountedCapture(j)
  BY <1>1, <1>7, <1>9 DEF UncountedCapture, WillRetain, HandlesTo
<1>12. \A k : Holders(k)' = Holders(k) /\ Captors(k)' = Captors(k)
  BY <1>7, <1>10, <1>11 DEF Holders, Captors
<1>13. \A k : Leavers(k)' = IF k = i THEN Leavers(k) \ {t} ELSE Leavers(k)
  BY <1>5, <1>6 DEF Leavers
<1>14. t \in Leavers(i)
  BY <1>5 DEF Leavers
<1>15. /\ IsFiniteSet(Holders(i)) /\ IsFiniteSet(Captors(i)) /\ IsFiniteSet(Leavers(i))
       /\ count[i] = Cardinality(Holders(i)) + Cardinality(Captors(i)) + Cardinality(Leavers(i))
       /\ Cardinality(Holders(i)) \in Nat /\ Cardinality(Captors(i)) \in Nat
       /\ Cardinality(Leavers(i)) \in Nat
  BY <1>0, <1>8, FS_CardinalityType DEF Counted
<1>16. /\ IsFiniteSet(Leavers(i) \ {t})
       /\ Cardinality(Leavers(i) \ {t}) = Cardinality(Leavers(i)) - 1
       /\ Cardinality(Leavers(i) \ {t}) \in Nat
  <2>1. /\ IsFiniteSet(Leavers(i) \ {t})
        /\ Cardinality(Leavers(i) \ {t}) = Cardinality(Leavers(i)) - 1
    BY <1>14, <1>15, FS_RemoveElement
  <2> QED
    BY <2>1, FS_CardinalityType
\* The last one to leave is alone.
<1>17. ASSUME last
       PROVE  Holders(i) = {} /\ Captors(i) = {} /\ Leavers(i) \ {t} = {}
  <2>1. Cardinality(Holders(i)) = 0 /\ Cardinality(Captors(i)) = 0
        /\ Cardinality(Leavers(i) \ {t}) = 0
    BY <1>15, <1>16, <1>17
  <2> QED
    BY <2>1, <1>15, <1>16, FS_EmptySet
<1>18. ASSUME last, NEW u \in Threads PROVE ~ WillRetain(u, i)
  <2> SUFFICES ASSUME WillRetain(u, i) PROVE FALSE
    OBVIOUS
  <2>1. u # t
    BY <1>5
  <2>2. ~ WillRelease(u, i)
    BY <2>1, <1>17, <1>18 DEF Leavers
  <2>3. PICK s \in reads[u] : s \in Holders(i) \/ \E j \in Captors(i) : s \in Holders(j)
    BY <2>2, <1>0 DEF Protected
  <2> QED
    BY <2>3, <1>17, <1>18
<1>19. ASSUME last PROVE HandlesTo(i) = {} /\ CapturedBy(i) = {}
  <2>1. \A h \in HandlesTo(i) : ~ UncountedHandle(h)
    BY <1>18, <1>19 DEF UncountedHandle, HandlesTo
  <2>2. \A j \in CapturedBy(i) : ~ UncountedCapture(j)
    BY <1>18, <1>19 DEF UncountedCapture, CapturedBy
  <2> QED
    BY <2>1, <2>2, <1>17, <1>19 DEF Holders, Captors
<1>20. Types'
  <2>1. todo'[t] \in Calls
    BY <1>4 DEF Calls
  <2> QED
    BY <2>1, <1>0, <1>1 DEF Types
<1>21. Reaches'
  BY <1>0, <1>1, <1>5, <1>6, <1>8 DEF Reaches
<1>22. Apart'
  <2>1. \A u \in Threads : Busy(u)' => Busy(u)
    BY <1>1, <1>4 DEF Busy
  <2> QED
    BY <2>1, <1>0, <1>1 DEF Apart
<1>23. Target'
  <2> SUFFICES ASSUME NEW u \in Threads, NEW k \in Impls, WillRetain(u, k)'
               PROVE  \E g \in DOMAIN handle :
                        /\ writes[u] = {g}
                        /\ \/ handle[g] = k
                           \/ /\ handle[g] \in alive /\ captured[handle[g]] = k
                              /\ HandlesTo(handle[g]) = {g} /\ CapturedBy(handle[g]) = {}
    BY <1>1 DEF Target, HandlesTo, CapturedBy
  <2>1. WillRetain(u, k)
    BY <1>9
  <2> QED
    BY <2>1, <1>0 DEF Target
<1>24. Protected'
  <2> SUFFICES ASSUME NEW u \in Threads, NEW k \in Impls, WillRetain(u, k)', ~ WillRelease(u, k)'
               PROVE  \E s \in reads[u] :
                        s \in Holders(k)' \/ \E j \in Captors(k)' : s \in Holders(j)'
    BY <1>1 DEF Protected
  <2>1. WillRetain(u, k) /\ ~ WillRelease(u, k)
    BY <1>5, <1>6
  <2>2. PICK s \in reads[u] : s \in Holders(k) \/ \E j \in Captors(k) : s \in Holders(j)
    BY <2>1, <1>0 DEF Protected
  <2> QED
    BY <2>2, <1>12
<1>25. LastToKnow'
  <2> SUFFICES ASSUME NEW u \in Threads, NEW k \in Impls, WillDelete(u, k)'
               PROVE  /\ HandlesTo(k) = {} /\ CapturedBy(k) = {}
                      /\ \A v \in Threads \ {u} :
                           ~ WillRetain(v, k)' /\ ~ WillRelease(v, k)' /\ ~ WillDelete(v, k)'
    BY <1>7 DEF LastToKnow
  <2>1. CASE u # t
    <3>1. WillDelete(u, k)
      BY <2>1, <1>6
    <3>2. k # i
      BY <2>1, <3>1, <1>0, <1>5 DEF LastToKnow
    <3> QED
      BY <2>1, <3>1, <3>2, <1>0, <1>5, <1>6 DEF LastToKnow
  <2>2. CASE u = t
    <3>1. k = i /\ last
      BY <2>2, <1>5
    <3>2. \A v \in Threads \ {t} : ~ WillDelete(v, i)
      BY <1>0, <1>5 DEF LastToKnow
    <3>3. \A v \in Threads \ {t} : ~ WillRelease(v, i)
      BY <3>1, <1>17 DEF Leavers
    <3> QED
      BY <2>2, <3>1, <3>2, <3>3, <1>6, <1>18, <1>19
  <2> QED
    BY <2>1, <2>2
<1>26. Counted'
  <2> SUFFICES ASSUME NEW k \in alive
               PROVE  /\ IsFiniteSet(Holders(k)') /\ IsFiniteSet(Captors(k)')
                      /\ IsFiniteSet(Leavers(k)')
                      /\ count'[k] = Cardinality(Holders(k)') + Cardinality(Captors(k)')
                                       + Cardinality(Leavers(k)')
    BY <1>1 DEF Counted
  <2>1. CASE k # i
    <3>1. Leavers(k)' = Leavers(k) /\ count'[k] = count[k]
      BY <2>1, <1>1, <1>2, <1>13
    <3> QED
      BY <3>1, <1>0, <1>12 DEF Counted
  <2>2. CASE k = i
    <3>1. Leavers(k)' = Leavers(i) \ {t} /\ count'[k] = count[i] - 1
      BY <2>2, <1>1, <1>2, <1>13
    <3> QED
      BY <2>2, <3>1, <1>12, <1>15, <1>16
  <2> QED
    BY <2>1, <2>2
<1>27. Deleted'
  <2> SUFFICES ASSUME NEW k \in alive, count'[k] = 0
               PROVE  \E u \in Threads : WillDelete(u, k)'
    BY <1>1 DEF Deleted
  <2>1. CASE k = i
    <3>1. last
      BY <2>1, <1>1, <1>2
    <3> QED
      BY <2>1, <3>1, <1>5
  <2>2. CASE k # i
    <3>1. count[k] = 0
      BY <2>2, <1>1, <1>2
    <3>2. PICK u \in Threads : WillDelete(u, k)
      BY <3>1, <1>0 DEF Deleted
    <3>3. u # t
      BY <3>2, <1>5
    <3> QED
      BY <3>2, <3>3, <1>6
  <2> QED
    BY <2>1, <2>2
<1> QED
  BY <1>20, <1>21, <1>22, <1>23, <1>24, <1>25, <1>26, <1>27 DEF IInv

\* delete: what was captured is let go of.
LEMMA DeleteStep ==
    ASSUME IInv, NEW t \in Threads, NEW i \in Impls, DoDelete(t, i)
    PROVE  IInv'
<1>0. Types /\ Reaches /\ Apart /\ Target /\ Protected /\ LastToKnow /\ Counted /\ Deleted
  BY DEF IInv
<1> DEFINE x == captured[i]
<1>1. /\ handle' = handle /\ alive' = alive \ {i} /\ captured' = captured
      /\ reads' = reads /\ writes' = writes /\ count' = count
      /\ todo' = [todo EXCEPT ![t] = Release(x) \o Tail(todo[t])]
      /\ todo[t] # <<>> /\ Head(todo[t]) = <<"delete", i>>
  BY DEF DoDelete, Calling
<1>2. /\ todo \in [Threads -> Calls] /\ alive \subseteq Impls
      /\ \A j \in alive : captured[j] \in (alive \ {j}) \cup {Null}
  BY <1>0 DEF Types, Reaches
<1>3. todo[t] = <<<<"delete", i>>>>
  BY <1>1, <1>2, HeadOfCalls
<1>4. i \in alive
  <2>1. WillDelete(t, i)
    BY <1>3 DEF WillDelete, Deletes
  <2> QED
    BY <2>1, <1>0 DEF Reaches
<1>5. x \in Impls \cup {Null} /\ x \in (alive \ {i}) \cup {Null}
  BY <1>2, <1>4
<1>6. todo'[t] = Release(x) /\ \A u \in Threads \ {t} : todo'[u] = todo[u]
  <2>1. Release(x) \o Tail(todo[t]) = Release(x)
    BY <1>3, NothingAfter DEF Release
  <2> QED
    BY <2>1, <1>1, <1>2
<1>7. \A k : /\ ~ WillRetain(t, k) /\ ~ WillRetain(t, k)'
             /\ ~ WillDelete(t, k)'
             /\ WillDelete(t, k) <=> k = i
             /\ ~ WillRelease(t, k)
             /\ WillRelease(t, k)' <=> (k = x /\ x # Null)
  <2>1. \A k : ~ WillRetain(t, k) /\ ~ WillRelease(t, k) /\ (WillDelete(t, k) <=> k = i)
    BY <1>3, DeleteCalls DEF WillRetain, WillRelease, WillDelete
  <2>2. \A k : /\ ~ Retains(todo'[t], k) /\ ~ Deletes(todo'[t], k)
               /\ Releases(todo'[t], k) <=> (k = x /\ x # Null)
    BY <1>5, <1>6, Released
  <2> QED
    BY <2>1, <2>2 DEF WillRetain, WillRelease, WillDelete
<1>8. \A u \in Threads \ {t} : \A k :
        /\ WillRetain(u, k)' <=> WillRetain(u, k)
        /\ WillRelease(u, k)' <=> WillRelease(u, k)
        /\ WillDelete(u, k)' <=> WillDelete(u, k)
  BY <1>6 DEF WillRetain, WillRelease, WillDelete
<1>9. /\ HandlesTo(i) = {} /\ CapturedBy(i) = {}
      /\ \A u \in Threads \ {t} :
           ~ WillRetain(u, i) /\ ~ WillRelease(u, i) /\ ~ WillDelete(u, i)
  BY <1>0, <1>7 DEF LastToKnow
<1>10. \A k : HandlesTo(k)' = HandlesTo(k) /\ CapturedBy(k)' = CapturedBy(k) \ {i}
  BY <1>1 DEF HandlesTo, CapturedBy
<1>11. \A u \in Threads : \A k : WillRetain(u, k)' <=> WillRetain(u, k)
  BY <1>7, <1>8
<1>12. \A g : UncountedHandle(g)' <=> UncountedHandle(g)
  BY <1>1, <1>11 DEF UncountedHandle, WillRetain
<1>13. \A j : UncountedCapture(j)' <=> UncountedCapture(j)
  BY <1>1, <1>10, <1>11 DEF UncountedCapture, WillRetain, HandlesTo
<1>14. \A k : Holders(k)' = Holders(k) /\ Captors(k)' = Captors(k) \ {i}
  BY <1>10, <1>12, <1>13 DEF Holders, Captors
<1>15. \A k : Leavers(k)' = IF k = x /\ x # Null THEN Leavers(k) \cup {t} ELSE Leavers(k)
  BY <1>7, <1>8 DEF Leavers
<1>16. \A k : i \in Captors(k) <=> k = x
  <2>1. ~ UncountedCapture(i)
    BY <1>9 DEF UncountedCapture
  <2> QED
    BY <2>1, <1>4 DEF Captors, CapturedBy
<1>17. Types'
  <2>1. Release(x) \in Calls
    BY <1>5, Released
  <2> QED
    BY <2>1, <1>0, <1>1, <1>6 DEF Types
<1>18. Reaches'
  <2>1. \A h \in DOMAIN handle : handle[h] # i
    BY <1>9 DEF HandlesTo
  <2>2. \A j \in alive : captured[j] # i
    BY <1>9 DEF CapturedBy
  <2>3. \A u \in Threads, k \in Impls :
          WillRetain(u, k)' \/ WillRelease(u, k)' \/ WillDelete(u, k)' => k \in alive \ {i}
    BY <1>0, <1>5, <1>7, <1>8, <1>9 DEF Reaches
  <2> QED
    BY <2>1, <2>2, <2>3, <1>0, <1>1 DEF Reaches
<1>19. Apart'
  <2>1. \A u \in Threads : Busy(u)' => Busy(u)
    BY <1>1, <1>6 DEF Busy
  <2> QED
    BY <2>1, <1>0, <1>1 DEF Apart
<1>20. Target'
  <2> SUFFICES ASSUME NEW u \in Threads, NEW k \in Impls, WillRetain(u, k)'
               PROVE  \E g \in DOMAIN handle :
                        /\ writes[u] = {g}
                        /\ \/ handle[g] = k
                           \/ /\ handle[g] \in alive \ {i} /\ captured[handle[g]] = k
                              /\ HandlesTo(handle[g]) = {g} /\ CapturedBy(handle[g]) = {}
    BY <1>1 DEF Target, HandlesTo, CapturedBy
  <2>1. WillRetain(u, k)
    BY <1>11
  <2>2. \A h \in DOMAIN handle : handle[h] # i
    BY <1>9 DEF HandlesTo
  <2> QED
    BY <2>1, <2>2, <1>0 DEF Target
<1>21. Protected'
  <2> SUFFICES ASSUME NEW u \in Threads, NEW k \in Impls, WillRetain(u, k)', ~ WillRelease(u, k)'
               PROVE  \E s \in reads[u] :
                        s \in Holders(k)' \/ \E j \in Captors(k)' : s \in Holders(j)'
    BY <1>1 DEF Protected
  <2>1. WillRetain(u, k) /\ ~ WillRelease(u, k)
    BY <1>7, <1>8
  <2>2. PICK s \in reads[u] : s \in Holders(k) \/ \E j \in Captors(k) : s \in Holders(j)
    BY <2>1, <1>0 DEF Protected
  <2>3. s \notin Holders(i)
    BY <1>9 DEF Holders
  <2> QED
    BY <2>2, <2>3, <1>14
<1>22. LastToKnow'
  <2> SUFFICES ASSUME NEW u \in Threads, NEW k \in Impls, WillDelete(u, k)'
               PROVE  /\ HandlesTo(k) = {} /\ CapturedBy(k) \ {i} = {}
                      /\ \A v \in Threads \ {u} :
                           ~ WillRetain(v, k)' /\ ~ WillRelease(v, k)' /\ ~ WillDelete(v, k)'
    BY <1>10 DEF LastToKnow
  <2>1. u # t /\ WillDelete(u, k)
    BY <1>7, <1>8
  <2>2. /\ HandlesTo(k) = {} /\ CapturedBy(k) = {}
        /\ \A v \in Threads \ {u} :
             ~ WillRetain(v, k) /\ ~ WillRelease(v, k) /\ ~ WillDelete(v, k)
    BY <2>1, <1>0 DEF LastToKnow
  <2>3. k # x
    BY <2>2, <1>4 DEF CapturedBy
  <2> QED
    BY <2>2, <2>3, <1>7, <1>8
<1>23. Counted'
  <2> SUFFICES ASSUME NEW k \in alive \ {i}
               PROVE  /\ IsFiniteSet(Holders(k)') /\ IsFiniteSet(Captors(k)')
                      /\ IsFiniteSet(Leavers(k)')
                      /\ count'[k] = Cardinality(Holders(k)') + Cardinality(Captors(k)')
                                       + Cardinality(Leavers(k)')
    BY <1>1 DEF Counted
  <2>1. /\ IsFiniteSet(Holders(k)) /\ IsFiniteSet(Captors(k)) /\ IsFiniteSet(Leavers(k))
        /\ count[k] = Cardinality(Holders(k)) + Cardinality(Captors(k)) + Cardinality(Leavers(k))
        /\ Cardinality(Holders(k)) \in Nat /\ Cardinality(Captors(k)) \in Nat
        /\ Cardinality(Leavers(k)) \in Nat
    BY <1>0, FS_CardinalityType DEF Counted
  <2>2. CASE k # x
    <3>1. Captors(k)' = Captors(k) /\ Leavers(k)' = Leavers(k)
      BY <2>2, <1>14, <1>15, <1>16
    <3> QED
      BY <3>1, <2>1, <1>1, <1>14
  <2>3. CASE k = x
    <3>1. x # Null
      BY <2>3, <1>2, NullAssumption
    <3>2. i \in Captors(k) /\ t \notin Leavers(k)
      BY <2>3, <1>7, <1>16 DEF Leavers
    <3>3. IsFiniteSet(Captors(k) \ {i})
          /\ Cardinality(Captors(k) \ {i}) = Cardinality(Captors(k)) - 1
      BY <2>1, <3>2, FS_RemoveElement
    <3>4. IsFiniteSet(Leavers(k) \cup {t})
          /\ Cardinality(Leavers(k) \cup {t}) = Cardinality(Leavers(k)) + 1
      BY <2>1, <3>2, FS_AddElement
    <3>5. Captors(k)' = Captors(k) \ {i} /\ Leavers(k)' = Leavers(k) \cup {t}
      BY <2>3, <3>1, <1>14, <1>15
    <3> QED
      BY <2>1, <3>3, <3>4, <3>5, <1>1, <1>14
  <2> QED
    BY <2>2, <2>3
<1>24. Deleted'
  <2> SUFFICES ASSUME NEW k \in alive \ {i}, count[k] = 0
               PROVE  \E u \in Threads : WillDelete(u, k)'
    BY <1>1 DEF Deleted
  <2>1. PICK u \in Threads : WillDelete(u, k)
    BY <1>0 DEF Deleted
  <2> QED
    BY <2>1, <1>7, <1>8
<1> QED
  BY <1>17, <1>18, <1>19, <1>20, <1>21, <1>22, <1>23, <1>24 DEF IInv

-----------------------------------------------------------------------------
(* The theorems *)

\* Whatever a step of ValueTypes is, of the handles it is one of SharedImpl, or
\* leaves them alone.
LEMMA StepOfHandles ==
    ASSUME ValueNext
    PROVE  \E t \in Threads :
             \/ Continue(t)
             \/ \E h \in Handles : Operate(t, h)
             \/ \E rs \in SUBSET Handles, ws \in SUBSET Handles : NoHandle(t, rs, ws)
<1> PICK t \in Threads :
      \/ Continue(t) /\ UNCHANGED holds
      \/ \E h \in Plain : Operate(t, h) /\ UNCHANGED holds
      \/ \E m \in Maybes : OperateMaybe(t, m)
      \/ \E v \in Variants : OperateVariant(t, v)
  BY DEF ValueNext
<1> DEFINE Goal == \/ \E h \in Handles : Operate(t, h)
                   \/ \E rs \in SUBSET Handles, ws \in SUBSET Handles : NoHandle(t, rs, ws)
<1>1. ASSUME NEW h \in Plain, Operate(t, h) PROVE Goal
  BY <1>1 DEF Plain
<1>2. ASSUME NEW m \in Handles,
             \/ Destroy(t, m)
             \/ \E o \in Handles : \/ CopyConstruct(t, m, o) \/ CopyAssign(t, m, o)
                                   \/ MoveConstruct(t, m, o) \/ MoveAssign(t, m, o)
             \/ NoHandle(t, {}, {m})
      PROVE  Goal
  BY <1>2 DEF Operate
<1>3. ASSUME NEW m \in Maybes, OperateMaybe(t, m) PROVE Goal
  <2>1. m \in Handles /\ Plain \cup Maybes \subseteq Handles
    BY StorageAssumption DEF Plain
  <2>2. CASE MaybeNothing(t, m) \/ MaybeReset(t, m) \/ DestroyStorage(t, m)
    BY <2>1, <2>2, <1>2 DEF MaybeNothing, MaybeReset, reset, DestroyStorage
  <2>3. CASE \E s \in Plain \cup Maybes, moves \in BOOLEAN :
               MaybeConstruct(t, m, s, moves) \/ MaybeAssign(t, m, s, moves)
    BY <2>1, <2>3, <1>2 DEF MaybeConstruct, MaybeAssign, init
  <2> QED
    BY <1>3, <2>2, <2>3 DEF OperateMaybe
<1>4. ASSUME NEW v \in Variants, OperateVariant(t, v) PROVE Goal
  <2>1. v \in Handles /\ Plain \cup Variants \subseteq Handles
    BY StorageAssumption DEF Plain
  <2>2. CASE \/ VariantOther(t, v) \/ VariantAssignOther(t, v) \/ VariantAssignThrows(t, v)
             \/ DestroyStorage(t, v)
    BY <2>1, <2>2, <1>2 DEF VariantOther, VariantAssignOther, VariantAssignThrows,
                            WhenCopyThrows, DestroyStorage
  <2>3. CASE \E s \in Plain \cup Variants, moves \in BOOLEAN :
               VariantConstruct(t, v, s, moves) \/ VariantAssign(t, v, s, moves)
    BY <2>1, <2>3, <1>2 DEF VariantConstruct, VariantAssign
  <2> QED
    BY <1>4, <2>2, <2>3 DEF OperateVariant
<1> QED
  BY <1>1, <1>3, <1>4

\* IInv is an inductive invariant.
THEOREM Invariance == ValueSpec => []IInv
<1>1. ValueInit => IInv
  <2> SUFFICES ASSUME ValueInit PROVE IInv
    OBVIOUS
  <2>1. /\ handle = [h \in {} |-> Null] /\ alive = {} /\ captured = [i \in Impls |-> Null]
        /\ count = [i \in Impls |-> 0] /\ todo = [t \in Threads |-> <<>>]
        /\ reads = [t \in Threads |-> {}] /\ writes = [t \in Threads |-> {}]
    BY DEF ValueInit, Init
  <2>2. \A t \in Threads : \A i : ~ WillRetain(t, i) /\ ~ WillRelease(t, i) /\ ~ WillDelete(t, i)
    BY <2>1, NoCalls DEF WillRetain, WillRelease, WillDelete
  <2>3. Types
    BY <2>1 DEF Types, Calls
  <2>4. Reaches /\ Apart
    BY <2>1, <2>2 DEF Reaches, Apart, Busy
  <2>5. Target /\ Protected /\ LastToKnow
    BY <2>2 DEF Target, Protected, LastToKnow
  <2>6. Counted /\ Deleted
    BY <2>1 DEF Counted, Deleted
  <2> QED
    BY <2>3, <2>4, <2>5, <2>6 DEF IInv
<1>2. IInv /\ [ValueNext]_allVars => IInv'
  <2> SUFFICES ASSUME IInv, [ValueNext]_allVars PROVE IInv'
    OBVIOUS
  <2>1. CASE ValueNext
    <3>1. PICK t \in Threads :
            \/ Continue(t)
            \/ \E h \in Handles : Operate(t, h)
            \/ \E rs \in SUBSET Handles, ws \in SUBSET Handles : NoHandle(t, rs, ws)
      BY <2>1, StepOfHandles
    <3>2. CASE Continue(t)
      BY <3>2, RetainStep, ReleaseStep, DeleteStep DEF Continue
    <3>3. CASE \E h \in Handles : Operate(t, h)
      BY <3>3, OperateStep
    <3>4. CASE \E rs \in SUBSET Handles, ws \in SUBSET Handles : NoHandle(t, rs, ws)
      BY <3>4, NoHandleRewires, Begun
    <3> QED
      BY <3>1, <3>2, <3>3, <3>4
  <2>2. CASE UNCHANGED allVars
    <3>1. /\ handle' = handle /\ alive' = alive /\ captured' = captured /\ count' = count
          /\ todo' = todo /\ reads' = reads /\ writes' = writes
      BY <2>2 DEF allVars, vars
    <3>2. \A k : HandlesTo(k)' = HandlesTo(k) /\ CapturedBy(k)' = CapturedBy(k)
      BY <3>1 DEF HandlesTo, CapturedBy
    <3>3. \A g : UncountedHandle(g)' <=> UncountedHandle(g)
      BY <3>1 DEF UncountedHandle, WillRetain
    <3>4. \A j : UncountedCapture(j)' <=> UncountedCapture(j)
      BY <3>1 DEF UncountedCapture, WillRetain, HandlesTo
    <3>5. \A k : Holders(k)' = Holders(k) /\ Captors(k)' = Captors(k)
      BY <3>2, <3>3, <3>4 DEF Holders, Captors
    <3>6. \A k : Leavers(k)' = Leavers(k)
      BY <3>1 DEF Leavers, WillRelease
    <3>7. Types' /\ Reaches' /\ Apart'
      BY <3>1 DEF IInv, Types, Reaches, Apart, Busy, WillRetain, WillRelease, WillDelete
    <3>8. Target' /\ LastToKnow'
      BY <3>1 DEF IInv, Target, LastToKnow, WillRetain, WillRelease, WillDelete, HandlesTo,
                  CapturedBy
    <3>9. Protected'
      BY <3>1, <3>5 DEF IInv, Protected, WillRetain, WillRelease
    <3>10. Counted' /\ Deleted'
      BY <3>1, <3>5, <3>6 DEF IInv, Counted, Deleted, WillDelete
    <3> QED
      BY <3>7, <3>8, <3>9, <3>10 DEF IInv
  <2> QED
    BY <2>1, <2>2
<1> QED
  BY <1>1, <1>2, PTL DEF ValueSpec

\* No thread calls, deletes or can reach an implementation that was deleted, however
\* many threads share it and in whatever order their operations interleave (the
\* intrusive count of Gen.hpp and Shrinkable.hpp).
THEOREM NothingUsedAfterFree == ValueSpec => []NoUseAfterFree
<1>1. IInv => NoUseAfterFree
  <2> SUFFICES ASSUME IInv PROVE NoUseAfterFree
    OBVIOUS
  <2>1. /\ \A h \in DOMAIN handle : handle[h] \in alive \cup {Null}
        /\ \A i \in alive : captured[i] \in alive \cup {Null}
    BY DEF IInv, Reaches
  <2>2. ASSUME NEW t \in Threads, NEW k \in DOMAIN todo[t] PROVE todo[t][k][2] \in alive
    <3>1. \A i \in Impls :
            WillRetain(t, i) \/ WillRelease(t, i) \/ WillDelete(t, i) => i \in alive
      BY DEF IInv, Reaches
    <3>2. todo[t] \in Calls
      BY DEF IInv, Types
    <3>3. CASE todo[t] = <<>>
      BY <3>3, <2>2
    <3>4. CASE \E x \in Impls :
                 todo[t] \in {<<<<"retain", x>>>>, <<<<"release", x>>>>, <<<<"delete", x>>>>}
      <4>1. PICK x \in Impls :
              todo[t] \in {<<<<"retain", x>>>>, <<<<"release", x>>>>, <<<<"delete", x>>>>}
        BY <3>4
      <4>2. x \in alive
        BY <4>1, <3>1, RetainCalls, ReleaseCalls, DeleteCalls
           DEF WillRetain, WillRelease, WillDelete
      <4>3. k = 1 /\ todo[t][1][2] = x
        BY <4>1, <2>2
      <4> QED
        BY <4>2, <4>3
    <3>5. CASE \E x, y \in Impls : todo[t] = <<<<"retain", x>>, <<"release", y>>>>
      <4>1. PICK x \in Impls, y \in Impls : todo[t] = <<<<"retain", x>>, <<"release", y>>>>
        BY <3>5
      <4>2. x \in alive /\ y \in alive
        BY <4>1, <3>1, AssignmentCalls DEF WillRetain, WillRelease
      <4>3. k \in {1, 2} /\ todo[t][1][2] = x /\ todo[t][2][2] = y
        BY <4>1, <2>2
      <4> QED
        BY <4>2, <4>3
    <3> QED
      BY <3>2, <3>3, <3>4, <3>5 DEF Calls
  <2> QED
    BY <2>1, <2>2 DEF NoUseAfterFree
<1> QED
  BY <1>1, Invariance, PTL

\* When no operation is under way, what is left on the heap is referred to: nothing
\* leaks, through captured handles and moved ones either.
THEOREM NothingLeaks == ValueSpec => []NoLeak
<1>1. IInv => NoLeak
  <2> SUFFICES ASSUME IInv, \A t \in Threads : todo[t] = <<>>, NEW i \in alive,
                      HandlesTo(i) = {}, CapturedBy(i) = {}
               PROVE  FALSE
    BY DEF NoLeak
  <2>1. \A t \in Threads : ~ WillRelease(t, i) /\ ~ WillDelete(t, i)
    BY NoCalls DEF WillRelease, WillDelete
  <2>2. Holders(i) = {} /\ Captors(i) = {} /\ Leavers(i) = {}
    BY <2>1 DEF Holders, Captors, Leavers
  <2>3. count[i] = 0
    BY <2>2, FS_EmptySet DEF IInv, Counted
  <2> QED
    BY <2>1, <2>3 DEF IInv, Deleted
<1> QED
  BY <1>1, Invariance, PTL

-----------------------------------------------------------------------------
(* Storage *)

\* Which storage exists, and what is in it.
SInv ==
    /\ SaysWhatItHolds
    /\ DOMAIN holds \subseteq Maybes \cup Variants

\* Which handles there are after an operation.
LEMMA HandleConstructed ==
    ASSUME NEW t, NEW h, NEW o,
           CopyConstruct(t, h, o) \/ CopyCaptured(t, h, o) \/ MoveConstruct(t, h, o)
    PROVE  DOMAIN handle' = DOMAIN handle \cup {h}
<1>1. CASE CopyConstruct(t, h, o) \/ CopyCaptured(t, h, o)
  BY <1>1 DEF CopyConstruct, CopyCaptured, With
<1>2. CASE MoveConstruct(t, h, o)
  BY <1>2 DEF MoveConstruct, Moved, With
<1> QED
  BY <1>1, <1>2

LEMMA HandleAssigned ==
    ASSUME NEW t, NEW h, NEW o, CopyAssign(t, h, o) \/ MoveAssign(t, h, o)
    PROVE  DOMAIN handle' = DOMAIN handle
<1>1. CASE CopyAssign(t, h, o)
  BY <1>1 DEF CopyAssign
<1>2. CASE MoveAssign(t, h, o)
  BY <1>2 DEF MoveAssign, Moved, With
<1> QED
  BY <1>1, <1>2

LEMMA HandleMade ==
    ASSUME NEW t, NEW h, NEW i, NEW o, Make(t, h, i) \/ MakeFrom(t, h, i, o)
    PROVE  DOMAIN handle' = DOMAIN handle \cup {h}
BY DEF Make, MakeFrom, With

LEMMA HandleDestroyed ==
    ASSUME NEW t, NEW h, Destroy(t, h)
    PROVE  DOMAIN handle' = DOMAIN handle \ {h}
BY DEF Destroy

LEMMA NoHandleInvolved ==
    ASSUME NEW t, NEW rs, NEW ws, NoHandle(t, rs, ws)
    PROVE  DOMAIN handle' = DOMAIN handle
BY DEF NoHandle

\* What the flag says goes with what was done to the storage b.
LEMMA StorageFollows ==
    ASSUME SInv, NEW b \in Maybes \cup Variants,
           \/ DOMAIN handle' = DOMAIN handle \cup {b} /\ holds' = Marked(b, "handle")
           \/ DOMAIN handle' = DOMAIN handle \ {b} /\ holds' = Marked(b, "other")
           \/ /\ DOMAIN handle' = DOMAIN handle \ {b}
              /\ holds' = [x \in DOMAIN holds \ {b} |-> holds[x]]
    PROVE  SInv'
BY DEF SInv, SaysWhatItHolds, Marked

\* SInv is an inductive invariant.
LEMMA StorageStep ==
    ASSUME SInv, ValueNext
    PROVE  SInv'
<1>0. /\ \A b \in Maybes \cup Variants :
           b \in DOMAIN handle <=> (b \in DOMAIN holds /\ holds[b] = "handle")
      /\ DOMAIN holds \subseteq Maybes \cup Variants
  BY DEF SInv, SaysWhatItHolds
\* Handles outside storage come and go.
<1>1. ASSUME NEW h \in Plain, UNCHANGED holds,
             \/ DOMAIN handle' = DOMAIN handle \cup {h} \/ DOMAIN handle' = DOMAIN handle \ {h}
             \/ DOMAIN handle' = DOMAIN handle
      PROVE  SInv'
  BY <1>0, <1>1 DEF SInv, SaysWhatItHolds, Plain
<1>2. ASSUME UNCHANGED holds, DOMAIN handle' = DOMAIN handle PROVE SInv'
  BY <1>0, <1>2 DEF SInv, SaysWhatItHolds
<1>3. ASSUME NEW t \in Threads, Continue(t), UNCHANGED holds PROVE SInv'
  BY <1>2, <1>3 DEF Continue, DoRetain, DoRelease, DoDelete
<1>4. ASSUME NEW t \in Threads, NEW h \in Plain, Operate(t, h), UNCHANGED holds PROVE SInv'
  <2>1. \/ DOMAIN handle' = DOMAIN handle \cup {h} \/ DOMAIN handle' = DOMAIN handle \ {h}
        \/ DOMAIN handle' = DOMAIN handle
    <3>1. CASE Destroy(t, h)
      BY <3>1, HandleDestroyed
    <3>2. CASE \E o \in Handles : \/ CopyConstruct(t, h, o) \/ CopyCaptured(t, h, o)
                               \/ MoveConstruct(t, h, o)
      BY <3>2, HandleConstructed
    <3>3. CASE \E o \in Handles : CopyAssign(t, h, o) \/ MoveAssign(t, h, o)
      BY <3>3, HandleAssigned
    <3>4. CASE \E i \in Impls : Make(t, h, i) \/ \E o \in Handles : MakeFrom(t, h, i, o)
      BY <3>4, HandleMade
    <3> QED
      BY <1>4, <3>1, <3>2, <3>3, <3>4 DEF Operate
  <2> QED
    BY <1>1, <1>4, <2>1
<1>5. ASSUME NEW t \in Threads, NEW m \in Maybes, OperateMaybe(t, m) PROVE SInv'
  <2>1. CASE MaybeNothing(t, m)
    <3>1. m \notin DOMAIN handle /\ DOMAIN handle' = DOMAIN handle /\ holds' = Marked(m, "other")
      BY <2>1, HandleDestroyed, NoHandleInvolved DEF MaybeNothing, Exists
    <3>2. DOMAIN handle' = DOMAIN handle \ {m}
      BY <3>1
    <3> QED
      BY <3>1, <3>2, StorageFollows
  <2>2. CASE MaybeReset(t, m)
    <3>1. CASE holds[m] = "handle"
      BY <2>2, <3>1, HandleDestroyed, StorageFollows DEF MaybeReset, reset, AfterReset
    <3>2. CASE holds[m] # "handle"
      BY <2>2, <3>2, <1>2, HandleDestroyed, NoHandleInvolved DEF MaybeReset, reset
    <3> QED
      BY <3>1, <3>2
  <2>3. CASE DestroyStorage(t, m)
    <3>1. DOMAIN handle' = DOMAIN handle \ {m}
      BY <2>3, <1>0, HandleDestroyed, NoHandleInvolved DEF DestroyStorage
    <3> QED
      BY <2>3, <3>1, StorageFollows DEF DestroyStorage
  <2>4. ASSUME NEW s, NEW moves \in BOOLEAN, init(t, m, s, moves) PROVE SInv'
    <3>1. DOMAIN handle' = DOMAIN handle \cup {m}
      <4>1. CASE moves
        BY <2>4, <4>1, HandleConstructed DEF init
      <4>2. CASE ~moves
        BY <2>4, <4>2, HandleConstructed DEF init
      <4> QED
        BY <4>1, <4>2
    <3>2. holds' = Marked(m, "handle")
      BY <2>4 DEF init
    <3> QED
      BY <3>1, <3>2, StorageFollows
  <2>5. ASSUME NEW s, NEW moves \in BOOLEAN, MaybeConstruct(t, m, s, moves) PROVE SInv'
    BY <2>4, <2>5 DEF MaybeConstruct
  <2>6. ASSUME NEW s, NEW moves \in BOOLEAN, MaybeAssign(t, m, s, moves) PROVE SInv'
    <3>1. CASE holds[m] = "handle"
      BY <2>6, <3>1, <1>2, HandleAssigned DEF MaybeAssign
    <3>2. CASE holds[m] # "handle"
      BY <2>6, <3>2, <2>4 DEF MaybeAssign
    <3> QED
      BY <3>1, <3>2
  <2> QED
    BY <1>5, <2>1, <2>2, <2>3, <2>5, <2>6 DEF OperateMaybe
<1>6. ASSUME NEW t \in Threads, NEW v \in Variants, OperateVariant(t, v) PROVE SInv'
  <2>1. CASE VariantOther(t, v)
    <3>1. v \notin DOMAIN handle /\ DOMAIN handle' = DOMAIN handle /\ holds' = Marked(v, "other")
      BY <2>1, HandleDestroyed, NoHandleInvolved DEF VariantOther, Exists
    <3>2. DOMAIN handle' = DOMAIN handle \ {v}
      BY <3>1
    <3> QED
      BY <3>1, <3>2, StorageFollows
  <2>2. CASE VariantAssignOther(t, v)
    <3>1. DOMAIN handle' = DOMAIN handle \ {v}
      BY <2>2, <1>0, HandleDestroyed, NoHandleInvolved DEF VariantAssignOther
    <3> QED
      BY <2>2, <3>1, StorageFollows DEF VariantAssignOther
  <2>3. CASE VariantAssignThrows(t, v)
    BY <2>3, <1>2, HandleDestroyed, NoHandleInvolved DEF VariantAssignThrows, WhenCopyThrows
  <2>4. CASE DestroyStorage(t, v)
    <3>1. DOMAIN handle' = DOMAIN handle \ {v}
      BY <2>4, <1>0, HandleDestroyed, NoHandleInvolved DEF DestroyStorage
    <3> QED
      BY <2>4, <3>1, StorageFollows DEF DestroyStorage
  <2>5. ASSUME NEW s, NEW moves \in BOOLEAN, VariantConstruct(t, v, s, moves) PROVE SInv'
    <3>1. DOMAIN handle' = DOMAIN handle \cup {v}
      <4>1. CASE moves
        BY <2>5, <4>1, HandleConstructed DEF VariantConstruct
      <4>2. CASE ~moves
        BY <2>5, <4>2, HandleConstructed DEF VariantConstruct
      <4> QED
        BY <4>1, <4>2
    <3>2. holds' = Marked(v, "handle")
      BY <2>5 DEF VariantConstruct
    <3> QED
      BY <3>1, <3>2, StorageFollows
  <2>6. ASSUME NEW s, NEW moves \in BOOLEAN, VariantAssign(t, v, s, moves) PROVE SInv'
    <3>1. CASE holds[v] = "handle"
      BY <2>6, <3>1, <1>2, HandleAssigned DEF VariantAssign
    <3>2. CASE holds[v] # "handle"
      <4>1. DOMAIN handle' = DOMAIN handle \cup {v}
        <5>1. CASE moves
          BY <2>6, <3>2, <5>1, HandleConstructed DEF VariantAssign
        <5>2. CASE ~moves
          BY <2>6, <3>2, <5>2, HandleConstructed DEF VariantAssign
        <5> QED
          BY <5>1, <5>2
      <4>2. holds' = Marked(v, "handle")
        BY <2>6, <3>2 DEF VariantAssign
      <4> QED
        BY <4>1, <4>2, StorageFollows
    <3> QED
      BY <3>1, <3>2
  <2> QED
    BY <1>6, <2>1, <2>2, <2>3, <2>4, <2>5, <2>6 DEF OperateVariant
<1> QED
  BY <1>3, <1>4, <1>5, <1>6 DEF ValueNext

\* There is a handle in a Maybe or a Variant exactly if it says so, whatever was
\* assigned to it, from where, and even if a copy threw (Maybe.hpp, Variant.hpp).
THEOREM StorageSaysWhatItHolds == ValueSpec => []SaysWhatItHolds
<1>1. ValueInit => SInv
  BY DEF ValueInit, Init, SInv, SaysWhatItHolds
<1>2. SInv /\ [ValueNext]_allVars => SInv'
  <2>1. SInv /\ UNCHANGED allVars => SInv'
    BY DEF SInv, SaysWhatItHolds, allVars, vars
  <2> QED
    BY <2>1, StorageStep
<1>3. SInv => SaysWhatItHolds
  BY DEF SInv
<1> QED
  BY <1>1, <1>2, <1>3, PTL DEF ValueSpec
=============================================================================
