------------------------ MODULE ImplicitParamProofs ------------------------
(***************************************************************************)
(* Implicit parameters, for any parameters, any nesting of scopes and any  *)
(* number of bindings: every binding has exactly one party that pops it,   *)
(* and what a look at a parameter sees is dynamic scoping as               *)
(* ImplicitParam.h promises it.                                            *)
(***************************************************************************)
EXTENDS ImplicitParam, FiniteSetTheorems, SequenceTheorems, TLAPS

Pushed == [value : Values, level : Nat]
Object == {Scope} \cup {Binding(p) : p \in Params}

\* The three counts of the invariant, of any stack, objects and scopes.
AtIn(s, l)     == {k \in DOMAIN s : s[k].level = l}
ScopesTo(o, k) == {j \in 1..k : o[j] = Scope}
Depth(o)       == Cardinality(ScopesTo(o, Len(o)))
OwnedIn(o, p, l) ==
    {k \in DOMAIN o : o[k] = Binding(p) /\ Cardinality(ScopesTo(o, k)) = l}
NotesIn(n, p)  == {k \in DOMAIN n : n[k] = p}

\* The stack s of p, ordered by level up to the innermost one.
Ordered(s, top) ==
    /\ \A j, k \in DOMAIN s : j <= k => s[j].level <= s[k].level
    /\ \A k \in DOMAIN s : s[k].level <= top

\* On each level, what the objects pushed and at most one default.
Balanced(p, s, o, m) ==
    /\ Ordered(s, Len(m))
    /\ \A l \in 1..Len(m) :
         /\ Cardinality(NotesIn(m[l], p)) <= 1
         /\ Cardinality(AtIn(s, l)) =
              Cardinality(OwnedIn(o, p, l)) + Cardinality(NotesIn(m[l], p))
    /\ Cardinality(AtIn(s, 0)) - Cardinality(OwnedIn(o, p, 0)) \in {0, 1}

Types ==
    /\ m_stack \in [Params -> Seq(Pushed)]
    /\ m_scopes \in Seq(Seq(Params))
    /\ objects \in Seq(Object)
    /\ seen \in Values

IInv ==
    /\ Types
    /\ Depth(objects) = Level
    /\ \A p \in Params : Balanced(p, m_stack[p], objects, m_scopes)

-----------------------------------------------------------------------------
(* Sequences and counts *)

LEMMA LastOfSeq ==
    ASSUME NEW S, NEW s \in Seq(S), s # <<>>
    PROVE  /\ Front(s) \in Seq(S) /\ Last(s) \in S
           /\ Len(s) \in Nat \ {0} /\ Len(Front(s)) = Len(s) - 1
           /\ \A k \in 1..(Len(s) - 1) : Front(s)[k] = s[k]
           /\ Last(s) = s[Len(s)]
           /\ s = Append(Front(s), Last(s))
<1>1. Len(s) \in Nat /\ s \in [1..Len(s) -> S] /\ Len(s) # 0
  BY LenProperties, EmptySeq
<1>2. \A k \in 1..(Len(s) - 1) : s[k] \in S
  BY <1>1
<1>3. /\ Front(s) \in Seq(S) /\ Len(Front(s)) = Len(s) - 1
      /\ \A k \in 1..(Len(s) - 1) : Front(s)[k] = s[k]
  BY <1>1, <1>2, SubSeqProperties DEF Front
<1>4. Last(s) = s[Len(s)] /\ Last(s) \in S
  BY <1>1 DEF Last
<1> DEFINE a == Append(Front(s), Last(s))
<1>5. /\ a \in Seq(S) /\ Len(a) = Len(s)
      /\ \A k \in 1..(Len(s) - 1) : a[k] = s[k]
      /\ a[Len(s)] = s[Len(s)]
  <2> DEFINE f == Front(s)
             e == Last(s)
  <2>1. f \in Seq(S) /\ e \in S /\ Len(f) = Len(s) - 1 /\ e = s[Len(s)]
    BY <1>3, <1>4
  <2>2. \A k \in 1..Len(f) : f[k] = s[k]
    BY <1>3
  <2> HIDE DEF f, e
  <2>3. /\ Append(f, e) \in Seq(S) /\ Len(Append(f, e)) = Len(f) + 1
        /\ \A k \in 1..Len(f) : Append(f, e)[k] = f[k]
        /\ Append(f, e)[Len(f) + 1] = e
    BY <2>1, AppendProperties
  <2> QED
    BY <1>1, <2>1, <2>2, <2>3 DEF f, e
<1>6. a \in [1..Len(s) -> S]
  BY <1>5, LenProperties
<1>7. a = s
  <2> HIDE DEF a
  <2>1. \A k \in 1..Len(s) : a[k] = s[k]
    BY <1>1, <1>5
  <2> QED
    BY <1>1, <1>6, <2>1
<1> QED
  BY <1>1, <1>3, <1>4, <1>7

LEMMA Appended ==
    ASSUME NEW S, NEW s \in Seq(S), NEW e \in S
    PROVE  /\ Append(s, e) \in Seq(S) /\ Append(s, e) # <<>>
           /\ Len(s) \in Nat /\ Len(Append(s, e)) = Len(s) + 1
           /\ DOMAIN s = 1..Len(s) /\ DOMAIN Append(s, e) = 1..(Len(s) + 1)
           /\ \A k \in 1..Len(s) : Append(s, e)[k] = s[k]
           /\ Append(s, e)[Len(s) + 1] = e
           /\ Front(Append(s, e)) = s /\ Last(Append(s, e)) = e
<1> DEFINE a == Append(s, e)
<1>1. Len(s) \in Nat /\ s \in [1..Len(s) -> S]
  BY LenProperties
<1>2. /\ a \in Seq(S) /\ a # <<>> /\ Len(a) = Len(s) + 1
      /\ \A k \in 1..Len(s) : a[k] = s[k]
      /\ a[Len(s) + 1] = e
  BY AppendProperties
<1>3. DOMAIN a = 1..(Len(s) + 1)
  BY <1>2, LenProperties
<1>4. /\ Front(a) \in Seq(S) /\ Len(Front(a)) = Len(s)
      /\ \A k \in 1..Len(s) : Front(a)[k] = s[k]
      /\ Last(a) = e
  <2> HIDE DEF a
  <2> QED
    BY <1>1, <1>2, LastOfSeq
<1>5. Front(a) \in [1..Len(s) -> S]
  BY <1>4, LenProperties
<1>6. Front(a) = s
  <2> HIDE DEF a
  <2> QED
    BY <1>1, <1>4, <1>5
<1> QED
  BY <1>1, <1>2, <1>3, <1>4, <1>6

\* One more index beyond 1..n counts once.
LEMMA CountNext ==
    ASSUME NEW n \in Nat, NEW T \in SUBSET (1..n)
    PROVE  /\ IsFiniteSet(T) /\ Cardinality(T) \in Nat
           /\ IsFiniteSet(T \cup {n + 1})
           /\ Cardinality(T \cup {n + 1}) = Cardinality(T) + 1
<1>1. IsFiniteSet(1..n)
  BY FS_Interval
<1>2. IsFiniteSet(T)
  BY <1>1, FS_Subset
<1>3. n + 1 \notin T
  OBVIOUS
<1> QED
  BY <1>2, <1>3, FS_AddElement, FS_CardinalityType

\* The bindings of a level, when one more is pushed.
LEMMA AtPushed ==
    ASSUME NEW s \in Seq(Pushed), NEW b \in Pushed, NEW l \in Nat
    PROVE  /\ Cardinality(AtIn(s, l)) \in Nat
           /\ Cardinality(AtIn(Append(s, b), l)) =
                Cardinality(AtIn(s, l)) + (IF b.level = l THEN 1 ELSE 0)
<1> DEFINE a == Append(s, b)
<1>1. /\ Len(s) \in Nat /\ DOMAIN s = 1..Len(s) /\ DOMAIN a = 1..(Len(s) + 1)
      /\ \A k \in 1..Len(s) : a[k] = s[k]
      /\ a[Len(s) + 1] = b
  BY Appended
<1>2. AtIn(s, l) \in SUBSET (1..Len(s))
  BY <1>1 DEF AtIn
<1> HIDE DEF a
<1>3. CASE b.level = l
  <2>1. AtIn(a, l) = AtIn(s, l) \cup {Len(s) + 1}
    BY <1>1, <1>3 DEF AtIn
  <2> QED
    BY ZenonT(40), <1>1, <1>2, <1>3, <2>1, CountNext DEF a
<1>4. CASE b.level # l
  <2>1. AtIn(a, l) = AtIn(s, l)
    BY <1>1, <1>4 DEF AtIn
  <2>2. Cardinality(AtIn(s, l)) \in Nat
    BY <1>1, <1>2, CountNext
  <2> QED
    BY <1>4, <2>1, <2>2 DEF a
<1> QED
  BY <1>3, <1>4

\* The notes of a scope, when one more is made.
LEMMA NoteMade ==
    ASSUME NEW n \in Seq(Params), NEW p \in Params, NEW q \in Params
    PROVE  /\ Cardinality(NotesIn(n, p)) \in Nat
           /\ Cardinality(NotesIn(Append(n, q), p)) =
                Cardinality(NotesIn(n, p)) + (IF p = q THEN 1 ELSE 0)
<1> DEFINE a == Append(n, q)
<1>1. /\ Len(n) \in Nat /\ DOMAIN n = 1..Len(n) /\ DOMAIN a = 1..(Len(n) + 1)
      /\ \A k \in 1..Len(n) : a[k] = n[k]
      /\ a[Len(n) + 1] = q
  BY Appended
<1>2. NotesIn(n, p) \in SUBSET (1..Len(n))
  BY <1>1 DEF NotesIn
<1> HIDE DEF a
<1>3. CASE p = q
  <2>1. NotesIn(a, p) = NotesIn(n, p) \cup {Len(n) + 1}
    BY <1>1, <1>3 DEF NotesIn
  <2> QED
    BY ZenonT(40), <1>1, <1>2, <1>3, <2>1, CountNext DEF a
<1>4. CASE p # q
  <2>1. NotesIn(a, p) = NotesIn(n, p)
    BY <1>1, <1>4 DEF NotesIn
  <2>2. Cardinality(NotesIn(n, p)) \in Nat
    BY <1>1, <1>2, CountNext
  <2> QED
    BY <1>4, <2>1, <2>2 DEF a
<1> QED
  BY <1>3, <1>4

\* The depth, and what a level owns, when one more object is made.
LEMMA DepthMade ==
    ASSUME NEW o \in Seq(Object), NEW x \in Object
    PROVE  /\ Depth(o) \in Nat
           /\ Depth(Append(o, x)) = Depth(o) + (IF x = Scope THEN 1 ELSE 0)
<1> DEFINE a == Append(o, x)
           n == Len(o)
<1>1. /\ n \in Nat /\ Len(a) = n + 1
      /\ \A k \in 1..n : a[k] = o[k]
      /\ a[n + 1] = x
  BY Appended
<1>2. ScopesTo(o, n) \in SUBSET (1..n)
  BY DEF ScopesTo
<1> HIDE DEF a, n
<1>3. CASE x = Scope
  <2>1. ScopesTo(a, n + 1) = ScopesTo(o, n) \cup {n + 1}
    BY <1>1, <1>3 DEF ScopesTo
  <2> QED
    BY <1>1, <1>2, <1>3, <2>1, CountNext DEF a, n, Depth
<1>4. CASE x # Scope
  <2>1. ScopesTo(a, n + 1) = ScopesTo(o, n)
    BY <1>1, <1>4 DEF ScopesTo
  <2>2. Cardinality(ScopesTo(o, n)) \in Nat
    BY <1>1, <1>2, CountNext
  <2> QED
    BY <1>1, <1>4, <2>1, <2>2 DEF a, n, Depth
<1> QED
  BY <1>3, <1>4

LEMMA KindsDiffer ==
    ASSUME NEW p \in Params, NEW q \in Params
    PROVE  Scope # Binding(p) /\ (Binding(p) = Binding(q) => p = q)
<1>1. Scope.kind = "scope" /\ Binding(p).kind = "binding"
  BY DEF Scope, Binding
<1>2. Binding(p).param = p /\ Binding(q).param = q
  BY DEF Binding
<1> QED
  BY <1>1, <1>2

LEMMA OwnedMade ==
    ASSUME NEW o \in Seq(Object), NEW x \in Object, NEW p \in Params, NEW l \in Nat
    PROVE  /\ Cardinality(OwnedIn(o, p, l)) \in Nat
           /\ Cardinality(OwnedIn(Append(o, x), p, l)) =
                Cardinality(OwnedIn(o, p, l))
                  + (IF x = Binding(p) /\ l = Depth(o) THEN 1 ELSE 0)
<1> DEFINE a == Append(o, x)
           n == Len(o)
<1>1. /\ n \in Nat /\ DOMAIN o = 1..n /\ DOMAIN a = 1..(n + 1)
      /\ \A k \in 1..n : a[k] = o[k]
      /\ a[n + 1] = x
  BY Appended
<1>2. OwnedIn(o, p, l) \in SUBSET (1..n)
  BY <1>1 DEF OwnedIn
<1> HIDE DEF a, n
<1>3. \A k \in 1..n : ScopesTo(a, k) = ScopesTo(o, k)
  BY <1>1 DEF ScopesTo
<1>4. ASSUME x = Binding(p)
      PROVE  Cardinality(ScopesTo(a, n + 1)) = Depth(o)
  <2>1. ScopesTo(a, n + 1) = ScopesTo(o, n)
    BY <1>1, <1>4, KindsDiffer DEF ScopesTo
  <2> QED
    BY <2>1 DEF Depth, n
<1>5. CASE x = Binding(p) /\ l = Depth(o)
  <2>1. OwnedIn(a, p, l) = OwnedIn(o, p, l) \cup {n + 1}
    BY <1>1, <1>3, <1>4, <1>5 DEF OwnedIn
  <2> QED
    BY ZenonT(40), <1>1, <1>2, <1>5, <2>1, CountNext DEF a, n
<1>6. CASE ~(x = Binding(p) /\ l = Depth(o))
  <2>1. OwnedIn(a, p, l) = OwnedIn(o, p, l)
    BY <1>1, <1>3, <1>4, <1>6 DEF OwnedIn
  <2>2. Cardinality(OwnedIn(o, p, l)) \in Nat
    BY <1>1, <1>2, CountNext
  <2> QED
    BY <1>6, <2>1, <2>2 DEF a
<1> QED
  BY <1>5, <1>6

\* No object is on a level that is not open.
LEMMA OwnedOpen ==
    ASSUME NEW o \in Seq(Object), NEW p \in Params, NEW l \in Nat, l > Depth(o)
    PROVE  OwnedIn(o, p, l) = {} /\ Cardinality(OwnedIn(o, p, l)) = 0
<1>1. Len(o) \in Nat /\ DOMAIN o = 1..Len(o)
  BY LenProperties
<1>2. ASSUME NEW k \in 1..Len(o)
      PROVE  Cardinality(ScopesTo(o, k)) \in Nat /\ Cardinality(ScopesTo(o, k)) <= Depth(o)
  <2>1. ScopesTo(o, k) \subseteq ScopesTo(o, Len(o))
    BY <1>1 DEF ScopesTo
  <2>2. ScopesTo(o, Len(o)) \in SUBSET (1..Len(o))
    BY DEF ScopesTo
  <2>3. IsFiniteSet(ScopesTo(o, Len(o)))
    BY <1>1, <2>2, CountNext
  <2>4. IsFiniteSet(ScopesTo(o, k)) /\ Cardinality(ScopesTo(o, k)) <= Depth(o)
    BY <2>1, <2>3, FS_Subset DEF Depth
  <2> QED
    BY <2>4, FS_CardinalityType
<1>3. Depth(o) \in Nat
  <2>1. Scope \in Object
    BY DEF Object
  <2> QED
    BY <2>1, DepthMade
<1>4. OwnedIn(o, p, l) = {}
  BY <1>1, <1>2, <1>3 DEF OwnedIn
<1> QED
  BY <1>4, FS_EmptySet

-----------------------------------------------------------------------------
(* The order of a stack *)

LEMMA StackFacts ==
    ASSUME NEW s \in Seq(Pushed), NEW k \in DOMAIN s
    PROVE  s[k] \in Pushed /\ s[k].level \in Nat /\ s[k].value \in Values
<1>1. s[k] \in Pushed
  BY LenProperties
<1> QED
  BY <1>1 DEF Pushed

LEMMA OrderPush ==
    ASSUME NEW s \in Seq(Pushed), NEW b \in Pushed, Ordered(s, b.level)
    PROVE  Ordered(Append(s, b), b.level)
<1> DEFINE a == Append(s, b)
<1>1. /\ Len(s) \in Nat /\ DOMAIN s = 1..Len(s) /\ DOMAIN a = 1..(Len(s) + 1)
      /\ \A k \in 1..Len(s) : a[k] = s[k]
      /\ a[Len(s) + 1] = b
  BY Appended
<1>2. b.level \in Nat
  BY DEF Pushed
<1> HIDE DEF a
<1>3. \A k \in DOMAIN a : a[k].level <= b.level
  BY <1>1, <1>2 DEF Ordered
<1>4. ASSUME NEW j \in DOMAIN a, NEW k \in DOMAIN a, j <= k
      PROVE  a[j].level <= a[k].level
  BY <1>1, <1>3, <1>4 DEF Ordered
<1> QED
  BY <1>3, <1>4 DEF Ordered, a

LEMMA OrderPop ==
    ASSUME NEW s \in Seq(Pushed), NEW b \in Pushed, NEW top \in Nat,
           Ordered(Append(s, b), top)
    PROVE  Ordered(s, top) /\ b.level <= top
<1> DEFINE a == Append(s, b)
<1>1. /\ Len(s) \in Nat /\ DOMAIN s = 1..Len(s) /\ DOMAIN a = 1..(Len(s) + 1)
      /\ \A k \in 1..Len(s) : a[k] = s[k]
      /\ a[Len(s) + 1] = b
  BY Appended
<1> HIDE DEF a
<1>2. Ordered(a, top)
  BY DEF a
<1> QED
  BY <1>1, <1>2 DEF Ordered

LEMMA OrderBelow ==
    ASSUME NEW s \in Seq(Pushed), NEW top \in Nat, Ordered(s, top + 1),
           AtIn(s, top + 1) = {}
    PROVE  Ordered(s, top)
<1>1. ASSUME NEW k \in DOMAIN s
      PROVE  s[k].level <= top
  <2>1. s[k].level \in Nat /\ s[k].level <= top + 1
    BY StackFacts DEF Ordered
  <2>2. s[k].level # top + 1
    BY DEF AtIn
  <2> QED
    BY <2>1, <2>2
<1> QED
  BY <1>1 DEF Ordered

\* The innermost level has a binding just if the last one is on it.
LEMMA TopOfStack ==
    ASSUME NEW s \in Seq(Pushed), NEW top \in Nat, Ordered(s, top)
    PROVE  /\ Cardinality(AtIn(s, top)) # 0 => s # <<>> /\ Last(s).level = top
           /\ s = <<>> \/ Last(s).level < top => AtIn(s, top) = {}
<1>1. /\ Len(s) \in Nat /\ DOMAIN s = 1..Len(s) /\ s = <<>> => Len(s) = 0
      /\ Last(s) = s[Len(s)]
  BY LenProperties, EmptySeq DEF Last
<1>2. \A k \in 1..Len(s) : s[k].level \in Nat
  BY <1>1, StackFacts
<1>3. ASSUME AtIn(s, top) # {}
      PROVE  s # <<>> /\ Last(s).level = top
  <2>1. PICK k \in 1..Len(s) : s[k].level = top
    BY <1>1, <1>3 DEF AtIn
  <2>2. s[k].level <= s[Len(s)].level /\ s[Len(s)].level <= top
    BY <1>1, <2>1 DEF Ordered
  <2> QED
    BY <1>1, <1>2, <2>1, <2>2
<1>4. Cardinality(AtIn(s, top)) # 0 => AtIn(s, top) # {}
  BY FS_EmptySet
<1>5. ASSUME s = <<>> \/ Last(s).level < top
      PROVE  AtIn(s, top) = {}
  BY <1>3, <1>5
<1> QED
  BY <1>3, <1>4, <1>5

-----------------------------------------------------------------------------
(* Each step keeps a stack balanced *)

LEMMA BalancedEnter ==
    ASSUME NEW p \in Params, NEW s \in Seq(Pushed), NEW o \in Seq(Object),
           NEW m \in Seq(Seq(Params)), Depth(o) = Len(m), Balanced(p, s, o, m)
    PROVE  Balanced(p, s, Append(o, Scope), Append(m, <<>>))
<1> DEFINE o1 == Append(o, Scope)
           m1 == Append(m, <<>>)
           top == Len(m)
<1>1. /\ top \in Nat /\ Len(m1) = top + 1 /\ m1[top + 1] = <<>>
      /\ \A l \in 1..top : m1[l] = m[l]
  <2>1. <<>> \in Seq(Params)
    BY EmptySeq
  <2> QED
    BY <2>1, Appended
<1>2. \A l \in Nat : Cardinality(OwnedIn(o1, p, l)) = Cardinality(OwnedIn(o, p, l))
  <2>1. Scope \in Object /\ Scope # Binding(p)
    BY KindsDiffer DEF Object
  <2>2. \A l \in Nat : Cardinality(OwnedIn(o, p, l)) \in Nat
    BY <2>1, OwnedMade
  <2> QED
    BY <2>1, <2>2, OwnedMade
<1>3. Cardinality(OwnedIn(o, p, top + 1)) = 0
  BY <1>1, OwnedOpen
<1>4. NotesIn(<<>>, p) = {} /\ Cardinality(NotesIn(<<>>, p)) = 0
  BY FS_EmptySet DEF NotesIn
<1>5. \A k \in DOMAIN s : s[k].level \in Nat
  BY StackFacts
<1>6. Ordered(s, top)
  BY DEF Balanced
<1>7. Cardinality(AtIn(s, top + 1)) = 0
  <2>1. AtIn(s, top + 1) = {}
    BY <1>1, <1>5, <1>6 DEF Ordered, AtIn
  <2> QED
    BY <2>1, FS_EmptySet
<1> HIDE DEF o1, m1
<1>8. Ordered(s, Len(m1))
  BY <1>1, <1>5, <1>6 DEF Ordered
<1>9. ASSUME NEW l \in 1..Len(m1)
      PROVE  /\ Cardinality(NotesIn(m1[l], p)) <= 1
             /\ Cardinality(AtIn(s, l)) =
                  Cardinality(OwnedIn(o1, p, l)) + Cardinality(NotesIn(m1[l], p))
  <2>1. CASE l = top + 1
    BY <1>1, <1>2, <1>3, <1>4, <1>7, <2>1
  <2>2. CASE l # top + 1
    <3>1. l \in 1..top /\ l \in Nat /\ m1[l] = m[l]
      BY <1>1, <2>2
    <3>2. /\ Cardinality(NotesIn(m[l], p)) <= 1
          /\ Cardinality(AtIn(s, l)) =
               Cardinality(OwnedIn(o, p, l)) + Cardinality(NotesIn(m[l], p))
      BY <3>1 DEF Balanced
    <3>3. Cardinality(OwnedIn(o1, p, l)) = Cardinality(OwnedIn(o, p, l))
      BY <1>2, <3>1
    <3> QED
      BY <3>1, <3>2, <3>3
  <2> QED
    BY <2>1, <2>2
<1>10. Cardinality(AtIn(s, 0)) - Cardinality(OwnedIn(o1, p, 0)) \in {0, 1}
  BY <1>2 DEF Balanced
<1> QED
  BY <1>8, <1>9, <1>10 DEF Balanced, o1, m1

\* A binding is pushed, by an object that will pop it.
LEMMA BalancedBind ==
    ASSUME NEW p \in Params, NEW s \in Seq(Pushed), NEW o \in Seq(Object),
           NEW m \in Seq(Seq(Params)), Depth(o) = Len(m), Balanced(p, s, o, m),
           NEW b \in Pushed, b.level = Len(m)
    PROVE  Balanced(p, Append(s, b), Append(o, Binding(p)), m)
<1> DEFINE s1 == Append(s, b)
           o1 == Append(o, Binding(p))
<1>1. Len(m) \in Nat /\ Binding(p) \in Object
  BY LenProperties DEF Object
<1>2. Ordered(s1, Len(m))
  BY OrderPush DEF Balanced
<1>3. ASSUME NEW l \in Nat
      PROVE  /\ Cardinality(AtIn(s, l)) \in Nat /\ Cardinality(OwnedIn(o, p, l)) \in Nat
             /\ Cardinality(AtIn(s1, l)) =
                  Cardinality(AtIn(s, l)) + (IF l = Len(m) THEN 1 ELSE 0)
             /\ Cardinality(OwnedIn(o1, p, l)) =
                  Cardinality(OwnedIn(o, p, l)) + (IF l = Len(m) THEN 1 ELSE 0)
  <2>1. /\ Cardinality(AtIn(s, l)) \in Nat
        /\ Cardinality(AtIn(s1, l)) =
             Cardinality(AtIn(s, l)) + (IF b.level = l THEN 1 ELSE 0)
    BY AtPushed
  <2>2. /\ Cardinality(OwnedIn(o, p, l)) \in Nat
        /\ Cardinality(OwnedIn(o1, p, l)) =
             Cardinality(OwnedIn(o, p, l))
               + (IF Binding(p) = Binding(p) /\ l = Depth(o) THEN 1 ELSE 0)
    BY <1>1, OwnedMade
  <2> HIDE DEF s1, o1
  <2> QED
    BY <2>1, <2>2
<1>4. \A l \in 1..Len(m) : Cardinality(NotesIn(m[l], p)) \in Nat
  <2>1. \A l \in 1..Len(m) : m[l] \in Seq(Params)
    BY LenProperties
  <2> QED
    BY <2>1, NoteMade
<1> HIDE DEF s1, o1
<1>5. ASSUME NEW l \in 1..Len(m)
      PROVE  /\ Cardinality(NotesIn(m[l], p)) <= 1
             /\ Cardinality(AtIn(s1, l)) =
                  Cardinality(OwnedIn(o1, p, l)) + Cardinality(NotesIn(m[l], p))
  <2>1. /\ Cardinality(NotesIn(m[l], p)) <= 1
        /\ Cardinality(AtIn(s, l)) =
             Cardinality(OwnedIn(o, p, l)) + Cardinality(NotesIn(m[l], p))
    BY DEF Balanced
  <2>2. l \in Nat /\ Cardinality(NotesIn(m[l], p)) \in Nat
    BY <1>1, <1>4
  <2> DEFINE d == IF l = Len(m) THEN 1 ELSE 0
  <2>3. /\ Cardinality(AtIn(s1, l)) = Cardinality(AtIn(s, l)) + d
        /\ Cardinality(OwnedIn(o1, p, l)) = Cardinality(OwnedIn(o, p, l)) + d
        /\ Cardinality(AtIn(s, l)) \in Nat /\ Cardinality(OwnedIn(o, p, l)) \in Nat
    BY <1>3, <2>2
  <2>4. d \in Nat
    OBVIOUS
  <2> HIDE DEF d
  <2> QED
    BY <2>1, <2>2, <2>3, <2>4
<1>6. Cardinality(AtIn(s1, 0)) - Cardinality(OwnedIn(o1, p, 0)) \in {0, 1}
  <2>1. Cardinality(AtIn(s, 0)) - Cardinality(OwnedIn(o, p, 0)) \in {0, 1}
    BY DEF Balanced
  <2> DEFINE d == IF 0 = Len(m) THEN 1 ELSE 0
  <2>2. /\ Cardinality(AtIn(s1, 0)) = Cardinality(AtIn(s, 0)) + d
        /\ Cardinality(OwnedIn(o1, p, 0)) = Cardinality(OwnedIn(o, p, 0)) + d
        /\ Cardinality(AtIn(s, 0)) \in Nat /\ Cardinality(OwnedIn(o, p, 0)) \in Nat
    BY <1>3
  <2>3. d \in Nat
    OBVIOUS
  <2> HIDE DEF d
  <2> QED
    BY <2>1, <2>2, <2>3
<1> QED
  BY <1>2, <1>5, <1>6 DEF Balanced, s1, o1

\* An object of another parameter is made.
LEMMA BalancedOther ==
    ASSUME NEW p \in Params, NEW s, NEW o \in Seq(Object), NEW m \in Seq(Seq(Params)),
           NEW q \in Params, q # p
    PROVE  Balanced(p, s, Append(o, Binding(q)), m) <=> Balanced(p, s, o, m)
<1>1. Binding(q) \in Object /\ Binding(q) # Binding(p)
  BY KindsDiffer DEF Object
<1>2. \A l \in Nat : /\ Cardinality(OwnedIn(Append(o, Binding(q)), p, l))
                          = Cardinality(OwnedIn(o, p, l))
  <2>1. \A l \in Nat : Cardinality(OwnedIn(o, p, l)) \in Nat
    BY <1>1, OwnedMade
  <2> QED
    BY <1>1, <2>1, OwnedMade
<1>3. Len(m) \in Nat
  BY LenProperties
<1> QED
  BY <1>2, <1>3 DEF Balanced

\* The scopes, once the innermost one, if any, has a note to pop q.
NotedIn(m, q) == IF m # <<>> THEN [m EXCEPT ![Len(m)] = Append(@, q)] ELSE m

LEMMA NotedFacts ==
    ASSUME NEW m \in Seq(Seq(Params)), NEW q \in Params
    PROVE  /\ NotedIn(m, q) \in Seq(Seq(Params)) /\ Len(NotedIn(m, q)) = Len(m)
           /\ \A l \in 1..Len(m) :
                NotedIn(m, q)[l] = IF l = Len(m) THEN Append(m[l], q) ELSE m[l]
<1>1. Len(m) \in Nat /\ m \in [1..Len(m) -> Seq(Params)]
  BY LenProperties
<1>2. CASE m = <<>>
  BY <1>1, <1>2, EmptySeq DEF NotedIn
<1>3. CASE m # <<>>
  <2>1. Len(m) \in 1..Len(m)
    BY <1>1, <1>3, EmptySeq
  <2>2. Append(m[Len(m)], q) \in Seq(Params)
    BY <1>1, <2>1, AppendProperties
  <2>3. NotedIn(m, q) = [m EXCEPT ![Len(m)] = Append(m[Len(m)], q)]
    BY <1>3 DEF NotedIn
  <2>4. NotedIn(m, q) \in Seq(Seq(Params)) /\ Len(NotedIn(m, q)) = Len(m)
    BY <2>1, <2>2, <2>3, ExceptSeq
  <2>5. \A l \in 1..Len(m) :
          NotedIn(m, q)[l] = IF l = Len(m) THEN Append(m[l], q) ELSE m[l]
    BY <1>1, <2>3
  <2> QED
    BY <2>4, <2>5
<1> QED
  BY <1>2, <1>3

\* The default is pushed, and noted in the scope that will pop it.
LEMMA BalancedDefault ==
    ASSUME NEW p \in Params, NEW s \in Seq(Pushed), NEW o \in Seq(Object),
           NEW m \in Seq(Seq(Params)), Depth(o) = Len(m), Balanced(p, s, o, m),
           s = <<>> \/ Last(s).level < Len(m),
           NEW b \in Pushed, b.level = Len(m)
    PROVE  /\ AtIn(s, Len(m)) = {} /\ OwnedIn(o, p, Len(m)) = {}
           /\ Balanced(p, Append(s, b), o, NotedIn(m, p))
<1> DEFINE s1 == Append(s, b)
           m1 == NotedIn(m, p)
           top == Len(m)
<1>1. top \in Nat /\ Scope \in Object /\ Ordered(s, top)
  BY LenProperties DEF Object, Balanced
<1>2. AtIn(s, top) = {} /\ Cardinality(AtIn(s, top)) = 0
  BY <1>1, TopOfStack, FS_EmptySet
<1>3. Ordered(s1, top)
  BY <1>1, OrderPush
<1>4. Cardinality(AtIn(s1, top)) = 1
  <2>1. Cardinality(AtIn(s1, top)) =
          Cardinality(AtIn(s, top)) + (IF b.level = top THEN 1 ELSE 0)
    BY <1>1, AtPushed
  <2> QED
    BY <1>2, <2>1
<1>5. ASSUME NEW l \in Nat, l # top
      PROVE  Cardinality(AtIn(s1, l)) = Cardinality(AtIn(s, l))
  <2>1. /\ Cardinality(AtIn(s, l)) \in Nat
        /\ Cardinality(AtIn(s1, l)) =
             Cardinality(AtIn(s, l)) + (IF b.level = l THEN 1 ELSE 0)
    BY AtPushed
  <2> QED
    BY <1>5, <2>1
<1>6. \A l \in Nat : Cardinality(OwnedIn(o, p, l)) \in Nat
  BY <1>1, OwnedMade
<1>7. ASSUME NEW l \in 1..top
      PROVE  /\ Cardinality(NotesIn(m[l], p)) \in Nat
             /\ l = top => Cardinality(NotesIn(m1[l], p)) = Cardinality(NotesIn(m[l], p)) + 1
             /\ l # top => m1[l] = m[l]
  <2>1. m[l] \in Seq(Params)
    BY LenProperties
  <2>2. m1[l] = IF l = top THEN Append(m[l], p) ELSE m[l]
    BY NotedFacts
  <2>3. /\ Cardinality(NotesIn(m[l], p)) \in Nat
        /\ Cardinality(NotesIn(Append(m[l], p), p)) = Cardinality(NotesIn(m[l], p)) + 1
    BY <2>1, NoteMade
  <2> HIDE DEF m1, top
  <2> QED
    BY <2>2, <2>3
<1>8. Len(m1) = top
  BY NotedFacts
<1>9. /\ Cardinality(AtIn(s, 0)) - Cardinality(OwnedIn(o, p, 0)) \in {0, 1}
      /\ \A l \in 1..top :
           /\ Cardinality(NotesIn(m[l], p)) <= 1
           /\ Cardinality(AtIn(s, l)) =
                Cardinality(OwnedIn(o, p, l)) + Cardinality(NotesIn(m[l], p))
  BY DEF Balanced
<1> HIDE DEF s1, m1, top
<1>10. Cardinality(OwnedIn(o, p, top)) = 0
       /\ (top # 0 => Cardinality(NotesIn(m[top], p)) = 0)
  <2>1. CASE top = 0
    <3>1. Cardinality(AtIn(s, 0)) = 0 /\ Cardinality(OwnedIn(o, p, 0)) \in Nat
      <4>1. AtIn(s, top) = AtIn(s, 0)
        BY Zenon, <2>1
      <4>2. Cardinality(AtIn(s, 0)) = 0
        BY Zenon, <1>2, <4>1
      <4> QED
        BY <1>6, <4>2
    <3>2. Cardinality(OwnedIn(o, p, 0)) = 0
      BY <1>9, <3>1
    <3> QED
      BY <2>1, <3>2
  <2>2. CASE top # 0
    <3>1. top \in 1..top
      BY <1>1, <2>2
    <3>2. /\ Cardinality(NotesIn(m[top], p)) \in Nat
          /\ Cardinality(OwnedIn(o, p, top)) \in Nat
          /\ 0 = Cardinality(OwnedIn(o, p, top)) + Cardinality(NotesIn(m[top], p))
      BY <1>1, <1>2, <1>6, <1>7, <1>9, <3>1
    <3> QED
      BY <3>2
  <2> QED
    BY <2>1, <2>2
<1>11. OwnedIn(o, p, top) = {}
  <2>1. OwnedIn(o, p, top) \in SUBSET (1..Len(o)) /\ Len(o) \in Nat
    BY LenProperties DEF OwnedIn
  <2> QED
    BY <1>10, <2>1, CountNext, FS_EmptySet
<1>12. ASSUME NEW l \in 1..top
       PROVE  /\ Cardinality(NotesIn(m1[l], p)) <= 1
              /\ Cardinality(AtIn(s1, l)) =
                   Cardinality(OwnedIn(o, p, l)) + Cardinality(NotesIn(m1[l], p))
  <2>1. CASE l = top
    <3>1. Cardinality(NotesIn(m1[top], p)) = Cardinality(NotesIn(m[top], p)) + 1
      BY <1>7, <2>1
    <3>2. top # 0
      BY <1>1, <2>1
    <3> QED
      BY <1>4, <1>10, <2>1, <3>1, <3>2
  <2>2. CASE l # top
    <3>1. Cardinality(AtIn(s1, l)) = Cardinality(AtIn(s, l)) /\ m1[l] = m[l]
      BY <1>1, <1>5, <1>7, <2>2
    <3> QED
      BY <1>9, <3>1
  <2> QED
    BY <2>1, <2>2
<1>13. Cardinality(AtIn(s1, 0)) - Cardinality(OwnedIn(o, p, 0)) \in {0, 1}
  <2>1. CASE top = 0
    BY <1>4, <1>10, <2>1
  <2>2. CASE top # 0
    <3>1. Cardinality(AtIn(s1, 0)) = Cardinality(AtIn(s, 0))
      BY <1>5, <2>2
    <3> QED
      BY <1>9, <3>1
  <2> QED
    BY <2>1, <2>2
<1> QED
  BY <1>2, <1>3, <1>8, <1>11, <1>12, <1>13 DEF Balanced, s1, m1, top

\* A note to pop another parameter is made.
LEMMA BalancedNoted ==
    ASSUME NEW p \in Params, NEW s, NEW o, NEW m \in Seq(Seq(Params)),
           NEW q \in Params, q # p, Balanced(p, s, o, m)
    PROVE  Balanced(p, s, o, NotedIn(m, q))
<1> DEFINE m1 == NotedIn(m, q)
           top == Len(m)
<1>1. \A l \in 1..top : Cardinality(NotesIn(m1[l], p)) = Cardinality(NotesIn(m[l], p))
  <2>1. \A l \in 1..top : m[l] \in Seq(Params)
    BY LenProperties
  <2>2. \A l \in 1..top : m1[l] = IF l = top THEN Append(m[l], q) ELSE m[l]
    BY NotedFacts
  <2>3. \A l \in 1..top :
          Cardinality(NotesIn(Append(m[l], q), p)) = Cardinality(NotesIn(m[l], p))
    BY SMTT(30), <2>1, NoteMade
  <2> HIDE DEF m1
  <2> QED
    BY <2>2, <2>3
<1>2. Len(m1) = top
  BY NotedFacts
<1> HIDE DEF m1
<1> QED
  BY <1>1, <1>2 DEF Balanced, m1

\* Only values are written.
LEMMA BalancedWrite ==
    ASSUME NEW p \in Params, NEW s \in Seq(Pushed), NEW s1 \in Seq(Pushed), NEW o, NEW m,
           Len(s1) = Len(s), \A k \in DOMAIN s : s1[k].level = s[k].level,
           Balanced(p, s, o, m)
    PROVE  Balanced(p, s1, o, m) /\ \A l \in Nat : AtIn(s1, l) = AtIn(s, l)
<1>1. DOMAIN s1 = DOMAIN s
  BY LenProperties
<1>2. \A l : AtIn(s1, l) = AtIn(s, l)
  BY <1>1 DEF AtIn
<1>3. Ordered(s1, Len(m))
  BY <1>1 DEF Ordered, Balanced
<1> QED
  BY <1>2, <1>3 DEF Balanced

\* A scope hides nothing of what the objects outside it own.
LEMMA OwnedUnderScope ==
    ASSUME NEW o \in Seq(Object), NEW p \in Params, NEW l \in Nat
    PROVE  OwnedIn(Append(o, Scope), p, l) = OwnedIn(o, p, l)
<1> DEFINE a == Append(o, Scope)
           n == Len(o)
<1>1. /\ n \in Nat /\ DOMAIN o = 1..n /\ DOMAIN a = 1..(n + 1)
      /\ \A k \in 1..n : a[k] = o[k]
      /\ a[n + 1] = Scope
  <2>1. Scope \in Object
    BY DEF Object
  <2> QED
    BY <2>1, Appended
<1> HIDE DEF a, n
<1>2. \A k \in 1..n : ScopesTo(a, k) = ScopesTo(o, k)
  BY <1>1 DEF ScopesTo
<1>3. Scope # Binding(p)
  BY KindsDiffer
<1>4. OwnedIn(a, p, l) = OwnedIn(o, p, l)
  BY <1>1, <1>2, <1>3 DEF OwnedIn
<1> QED
  BY <1>4 DEF a

LEMMA AtFinite ==
    ASSUME NEW s \in Seq(Pushed), NEW l
    PROVE  Cardinality(AtIn(s, l)) = 0 <=> AtIn(s, l) = {}
<1>1. AtIn(s, l) \in SUBSET (1..Len(s)) /\ Len(s) \in Nat
  BY LenProperties DEF AtIn
<1> QED
  BY <1>1, CountNext, FS_EmptySet

\* An object dies and pops its own binding.
LEMMA BalancedUnbind ==
    ASSUME NEW p \in Params, NEW s \in Seq(Pushed), NEW o \in Seq(Object),
           NEW m \in Seq(Seq(Params)), Depth(o) = Len(m),
           Balanced(p, s, Append(o, Binding(p)), m)
    PROVE  /\ s # <<>> /\ Last(s).level = Len(m)
           /\ Balanced(p, Front(s), o, m)
<1> DEFINE o1 == Append(o, Binding(p))
           top == Len(m)
           f == Front(s)
<1>1. top \in Nat /\ Binding(p) \in Object /\ Ordered(s, top)
  BY LenProperties DEF Object, Balanced
<1>2. ASSUME NEW l \in Nat
      PROVE  /\ Cardinality(OwnedIn(o, p, l)) \in Nat
             /\ Cardinality(OwnedIn(o1, p, l)) =
                  Cardinality(OwnedIn(o, p, l)) + (IF l = top THEN 1 ELSE 0)
  <2>1. /\ Cardinality(OwnedIn(o, p, l)) \in Nat
        /\ Cardinality(OwnedIn(o1, p, l)) =
             Cardinality(OwnedIn(o, p, l))
               + (IF Binding(p) = Binding(p) /\ l = Depth(o) THEN 1 ELSE 0)
    BY <1>1, OwnedMade
  <2> HIDE DEF o1
  <2> QED
    BY <2>1
<1>3. \A l \in 1..top : Cardinality(NotesIn(m[l], p)) \in Nat
  <2>1. \A l \in 1..top : m[l] \in Seq(Params)
    BY LenProperties
  <2> QED
    BY <2>1, NoteMade
<1>4. /\ Cardinality(AtIn(s, 0)) - Cardinality(OwnedIn(o1, p, 0)) \in {0, 1}
      /\ \A l \in 1..top :
           /\ Cardinality(NotesIn(m[l], p)) <= 1
           /\ Cardinality(AtIn(s, l)) =
                Cardinality(OwnedIn(o1, p, l)) + Cardinality(NotesIn(m[l], p))
  BY DEF Balanced
<1> HIDE DEF o1, top
<1>5. Cardinality(AtIn(s, top)) # 0
  <2>1. CASE top = 0
    <3>1. /\ Cardinality(OwnedIn(o, p, 0)) \in Nat
          /\ Cardinality(OwnedIn(o1, p, 0)) = Cardinality(OwnedIn(o, p, 0)) + 1
      BY <1>2, <2>1
    <3>2. Cardinality(AtIn(s, 0)) # 0
      <4>1. Cardinality(AtIn(s, 0)) \in Nat \/ Cardinality(AtIn(s, 0)) # 0
        OBVIOUS
      <4> QED
        BY <1>4, <3>1, <4>1
    <3>3. AtIn(s, top) = AtIn(s, 0)
      BY Zenon, <2>1
    <3> QED
      BY <3>2, <3>3
  <2>2. CASE top # 0
    <3>1. top \in 1..top
      BY <1>1, <2>2
    <3>2. /\ Cardinality(OwnedIn(o, p, top)) \in Nat
          /\ Cardinality(OwnedIn(o1, p, top)) = Cardinality(OwnedIn(o, p, top)) + 1
          /\ Cardinality(NotesIn(m[top], p)) \in Nat
          /\ Cardinality(AtIn(s, top)) =
               Cardinality(OwnedIn(o1, p, top)) + Cardinality(NotesIn(m[top], p))
      BY <1>1, <1>2, <1>3, <1>4, <3>1
    <3> QED
      BY <3>2
  <2> QED
    BY <2>1, <2>2
<1>6. s # <<>> /\ Last(s).level = top
  BY <1>1, <1>5, TopOfStack
<1>7. f \in Seq(Pushed) /\ Last(s) \in Pushed /\ s = Append(f, Last(s))
  BY <1>6, LastOfSeq
<1>8. ASSUME NEW l \in Nat
      PROVE  \E d \in {0, 1} :
               /\ Cardinality(AtIn(s, l)) = Cardinality(AtIn(f, l)) + d
               /\ Cardinality(OwnedIn(o1, p, l)) = Cardinality(OwnedIn(o, p, l)) + d
               /\ Cardinality(AtIn(f, l)) \in Nat /\ Cardinality(OwnedIn(o, p, l)) \in Nat
  <2> DEFINE e == Last(s)
             d == IF l = top THEN 1 ELSE 0
  <2>1. e \in Pushed /\ e.level = top /\ s = Append(f, e)
    BY <1>6, <1>7
  <2> HIDE DEF e, f
  <2>2. /\ Cardinality(AtIn(f, l)) \in Nat
        /\ Cardinality(AtIn(Append(f, e), l)) =
             Cardinality(AtIn(f, l)) + (IF e.level = l THEN 1 ELSE 0)
    BY <1>7, <2>1, AtPushed
  <2>3. (IF e.level = l THEN 1 ELSE 0) = d
    BY <2>1
  <2>4. Cardinality(AtIn(s, l)) = Cardinality(AtIn(f, l)) + d
    <3> HIDE DEF d
    <3> QED
      BY Zenon, <2>1, <2>2, <2>3
  <2>5. /\ Cardinality(OwnedIn(o, p, l)) \in Nat
        /\ Cardinality(OwnedIn(o1, p, l)) = Cardinality(OwnedIn(o, p, l)) + d
    BY <1>2
  <2>6. d \in {0, 1}
    OBVIOUS
  <2> HIDE DEF d
  <2> QED
    BY <2>2, <2>4, <2>5, <2>6
<1> HIDE DEF f
<1>9. Ordered(f, top)
  BY <1>1, <1>7, OrderPop
<1>10. ASSUME NEW l \in 1..top
       PROVE  /\ Cardinality(NotesIn(m[l], p)) <= 1
              /\ Cardinality(AtIn(f, l)) =
                   Cardinality(OwnedIn(o, p, l)) + Cardinality(NotesIn(m[l], p))
  <2>1. l \in Nat /\ Cardinality(NotesIn(m[l], p)) \in Nat
    BY <1>1, <1>3
  <2>2. PICK d \in {0, 1} :
          /\ Cardinality(AtIn(s, l)) = Cardinality(AtIn(f, l)) + d
          /\ Cardinality(OwnedIn(o1, p, l)) = Cardinality(OwnedIn(o, p, l)) + d
          /\ Cardinality(AtIn(f, l)) \in Nat /\ Cardinality(OwnedIn(o, p, l)) \in Nat
    BY <1>8, <2>1
  <2>3. /\ Cardinality(NotesIn(m[l], p)) <= 1
        /\ Cardinality(AtIn(s, l)) =
             Cardinality(OwnedIn(o1, p, l)) + Cardinality(NotesIn(m[l], p))
    BY <1>4
  <2> QED
    BY <2>1, <2>2, <2>3
<1>11. Cardinality(AtIn(f, 0)) - Cardinality(OwnedIn(o, p, 0)) \in {0, 1}
  <2>1. PICK d \in {0, 1} :
          /\ Cardinality(AtIn(s, 0)) = Cardinality(AtIn(f, 0)) + d
          /\ Cardinality(OwnedIn(o1, p, 0)) = Cardinality(OwnedIn(o, p, 0)) + d
          /\ Cardinality(AtIn(f, 0)) \in Nat /\ Cardinality(OwnedIn(o, p, 0)) \in Nat
    BY <1>8
  <2> QED
    BY <1>4, <2>1
<1> QED
  BY <1>6, <1>9, <1>10, <1>11 DEF Balanced, f, top

\* What is left of the stack s of p once the notes n are done.
Rest(s, n, p) == SubSeq(s, 1, Len(s) - Cardinality(NotesIn(n, p)))

\* A scope dies and pops what is noted in it.
LEMMA BalancedLeave ==
    ASSUME NEW p \in Params, NEW s \in Seq(Pushed), NEW o \in Seq(Object),
           NEW m \in Seq(Seq(Params)), Depth(o) = Len(m), NEW n \in Seq(Params),
           Balanced(p, s, Append(o, Scope), Append(m, n)),
           NEW r, r = Rest(s, n, p)
    PROVE  /\ r \in Seq(Pushed) /\ Balanced(p, r, o, m)
           /\ \/ r = s
              \/ /\ Last(s) \in Pushed /\ Last(s).level = Len(m) + 1
                 /\ Ordered(r, Last(s).level) /\ s = Append(r, Last(s))
           /\ Cardinality(AtIn(s, Len(m) + 1)) \in {0, 1}
           /\ Cardinality(OwnedIn(Append(o, Scope), p, Len(m) + 1)) = 0
<1> DEFINE o1 == Append(o, Scope)
           m1 == Append(m, n)
           top == Len(m)
           c == Cardinality(NotesIn(n, p))
<1>1. /\ top \in Nat /\ Scope \in Object /\ Len(m1) = top + 1 /\ m1[top + 1] = n
      /\ \A l \in 1..top : m1[l] = m[l]
  BY Appended DEF Object
<1>2. c \in Nat
  BY NoteMade
<1>3. \A l \in Nat : OwnedIn(o1, p, l) = OwnedIn(o, p, l)
  BY OwnedUnderScope
<1>4. OwnedIn(o, p, top + 1) = {} /\ Cardinality(OwnedIn(o1, p, top + 1)) = 0
  <2>1. Cardinality(OwnedIn(o, p, top + 1)) = 0
    BY <1>1, OwnedOpen
  <2> QED
    BY <1>1, <1>3, <2>1, OwnedOpen
<1> HIDE DEF o1, m1, top, c
<1>5. /\ Ordered(s, top + 1)
      /\ Cardinality(AtIn(s, 0)) - Cardinality(OwnedIn(o1, p, 0)) \in {0, 1}
      /\ \A l \in 1..(top + 1) :
           /\ Cardinality(NotesIn(m1[l], p)) <= 1
           /\ Cardinality(AtIn(s, l)) =
                Cardinality(OwnedIn(o1, p, l)) + Cardinality(NotesIn(m1[l], p))
  <2>1. Balanced(p, s, o1, m1)
    BY DEF o1, m1
  <2> QED
    BY <1>1, <2>1 DEF Balanced
<1>6. Cardinality(AtIn(s, top + 1)) = c /\ c <= 1
  <2>1. top + 1 \in 1..(top + 1)
    BY <1>1
  <2>2. /\ Cardinality(NotesIn(n, p)) <= 1
        /\ Cardinality(AtIn(s, top + 1)) = 0 + Cardinality(NotesIn(n, p))
    BY <1>1, <1>4, <1>5, <2>1
  <2> QED
    BY <1>2, <2>2 DEF c
<1>7. Len(s) \in Nat /\ DOMAIN s = 1..Len(s) /\ \A k \in 1..Len(s) : s[k].level \in Nat
  BY LenProperties, StackFacts
<1>8. /\ r \in Seq(Pushed) /\ Len(r) = Len(s) - c
      /\ \A k \in 1..Len(r) : r[k] = s[k]
      /\ Ordered(r, top)
      /\ \A l \in 0..top : AtIn(r, l) = AtIn(s, l)
      /\ \/ r = s
         \/ /\ Last(s) \in Pushed /\ Last(s).level = top + 1
            /\ Ordered(r, Last(s).level) /\ s = Append(r, Last(s))
  <2>1. CASE c = 0
    <3>1. r = s
      BY <1>7, <2>1, SubSeqFull DEF c, Rest
    <3>2. AtIn(s, top + 1) = {}
      BY <1>6, <2>1, AtFinite
    <3>3. Ordered(s, top)
      BY <1>1, <1>5, <3>2, OrderBelow
    <3> QED
      BY <1>7, <2>1, <3>1, <3>3
  <2>2. CASE c = 1
    <3>1. s # <<>> /\ Last(s).level = top + 1
      BY <1>1, <1>5, <1>6, <2>2, TopOfStack
    <3>2. r = Front(s)
      BY <2>2 DEF c, Front, Rest
    <3>3. /\ Front(s) \in Seq(Pushed) /\ Last(s) \in Pushed
          /\ s = Append(Front(s), Last(s)) /\ Last(s) = s[Len(s)]
          /\ Len(s) \in Nat \ {0} /\ Len(Front(s)) = Len(s) - 1
          /\ \A k \in 1..(Len(s) - 1) : Front(s)[k] = s[k]
      BY <3>1, LastOfSeq
    <3>4. /\ r \in Seq(Pushed) /\ Last(s) \in Pushed /\ s = Append(r, Last(s))
          /\ Len(s) \in Nat \ {0} /\ Len(r) = Len(s) - 1 /\ Last(s) = s[Len(s)]
          /\ \A k \in 1..(Len(s) - 1) : r[k] = s[k]
      BY <3>3, <3>2
    <3> DEFINE e == Last(s)
    <3>5. DOMAIN r = 1..(Len(s) - 1)
      BY <3>4, LenProperties
    <3>6. e.level = top + 1 /\ e = s[Len(s)] /\ e \in Pushed /\ s = Append(r, e)
      BY <3>1, <3>4
    <3> HIDE DEF e
    <3>7. ASSUME NEW l \in 0..top
          PROVE  AtIn(r, l) = AtIn(s, l)
      <4>1. s[Len(s)].level # l
        BY <1>1, <3>6
      <4>2. Len(s) \in Nat
        BY <1>7
      <4>3. \A k \in 1..Len(s) : k = Len(s) \/ k \in 1..(Len(s) - 1)
        BY <4>2
      <4>4. \A k \in 1..(Len(s) - 1) : k \in 1..Len(s)
        BY <4>2
      <4> QED
        BY <1>7, <3>4, <3>5, <4>1, <4>3, <4>4 DEF AtIn
    <3>8. top \in Nat /\ top + 1 \in Nat
      BY <1>1
    <3>9. AtIn(r, top + 1) = {}
      <4>1. /\ Cardinality(AtIn(r, top + 1)) \in Nat
            /\ Cardinality(AtIn(Append(r, e), top + 1)) =
                 Cardinality(AtIn(r, top + 1)) + (IF e.level = top + 1 THEN 1 ELSE 0)
        BY ZenonT(40), <3>4, <3>6, <3>8, AtPushed
      <4>2. Cardinality(AtIn(Append(r, e), top + 1)) = 1
        BY Zenon, <1>6, <2>2, <3>6
      <4>3. Cardinality(AtIn(r, top + 1)) = 0
        BY <3>6, <4>1, <4>2
      <4> QED
        BY <3>4, <4>3, AtFinite
    <3>10. Ordered(r, top + 1)
      <4>1. Ordered(Append(r, e), top + 1)
        BY Zenon, <1>5, <3>6
      <4> QED
        BY <3>4, <3>6, <3>8, <4>1, OrderPop
    <3>11. Ordered(r, top)
      BY <1>1, <3>4, <3>9, <3>10, OrderBelow
    <3> QED
      BY <2>2, <3>1, <3>4, <3>7, <3>10, <3>11
  <2> QED
    BY <1>2, <1>6, <2>1, <2>2
<1>9. ASSUME NEW l \in 1..top
      PROVE  /\ Cardinality(NotesIn(m[l], p)) <= 1
             /\ Cardinality(AtIn(r, l)) =
                  Cardinality(OwnedIn(o, p, l)) + Cardinality(NotesIn(m[l], p))
  <2>1. l \in 1..(top + 1) /\ l \in Nat /\ l \in 0..top
    BY <1>1
  <2>2. AtIn(r, l) = AtIn(s, l) /\ OwnedIn(o1, p, l) = OwnedIn(o, p, l) /\ m1[l] = m[l]
    BY <1>1, <1>3, <1>8, <2>1
  <2>3. /\ Cardinality(NotesIn(m1[l], p)) <= 1
        /\ Cardinality(AtIn(s, l)) =
             Cardinality(OwnedIn(o1, p, l)) + Cardinality(NotesIn(m1[l], p))
    BY <1>5, <2>1
  <2> QED
    BY <2>2, <2>3
<1>10. Cardinality(AtIn(r, 0)) - Cardinality(OwnedIn(o, p, 0)) \in {0, 1}
  <2>1. AtIn(r, 0) = AtIn(s, 0) /\ OwnedIn(o1, p, 0) = OwnedIn(o, p, 0)
    BY <1>1, <1>3, <1>8
  <2> QED
    BY <1>5, <2>1
<1>11. Balanced(p, r, o, m)
  BY <1>8, <1>9, <1>10 DEF Balanced, top
<1> QED
  BY <1>2, <1>4, <1>6, <1>8, <1>11 DEF o1, top

-----------------------------------------------------------------------------
(* The invariant *)

LEMMA StartsBalanced == Init => IInv
<1> SUFFICES ASSUME Init PROVE IInv
  OBVIOUS
<1>1. /\ m_stack = [p \in Params |-> <<>>] /\ m_scopes = <<>> /\ objects = <<>>
      /\ seen \in Values
  BY DEF Init
<1>2. Types
  BY <1>1, EmptySeq DEF Types
<1>3. Depth(<<>>) = 0
  <2>1. ScopesTo(<<>>, Len(<<>>)) = {}
    BY EmptySeq DEF ScopesTo
  <2> QED
    BY <2>1, FS_EmptySet DEF Depth
<1>4. ASSUME NEW p \in Params
      PROVE  Balanced(p, <<>>, <<>>, <<>>)
  <2>1. AtIn(<<>>, 0) = {} /\ OwnedIn(<<>>, p, 0) = {} /\ Len(<<>>) = 0
    BY EmptySeq DEF AtIn, OwnedIn
  <2>2. Ordered(<<>>, 0)
    BY DEF Ordered
  <2>3. Cardinality(AtIn(<<>>, 0)) = 0 /\ Cardinality(OwnedIn(<<>>, p, 0)) = 0
    BY Zenon, <2>1, FS_EmptySet
  <2> QED
    BY <2>1, <2>2, <2>3 DEF Balanced
<1>5. Depth(objects) = Level
  BY <1>1, <1>3, EmptySeq DEF Level
<1>6. \A p \in Params : Balanced(p, m_stack[p], objects, m_scopes)
  BY <1>1, <1>4
<1> QED
  BY <1>2, <1>5, <1>6 DEF IInv

\* What the stacks and the scopes are once value() has looked at p.
LEMMA ResolvedFacts ==
    ASSUME IInv, NEW p \in Params
    PROVE  /\ Resolved(p) \in [Params -> Seq(Pushed)] /\ Noted(p) \in Seq(Seq(Params))
           /\ Len(Noted(p)) = Level
           /\ Resolved(p)[p] # <<>> /\ Last(Resolved(p)[p]) \in Pushed
           /\ Last(Resolved(p)[p]).level = Level
           /\ \A q \in Params : q # p => Resolved(p)[q] = m_stack[q]
           /\ \A q \in Params : Balanced(q, Resolved(p)[q], objects, Noted(p))
<1> DEFINE b == [value |-> Default(p), level |-> Level]
<1>1. /\ m_stack \in [Params -> Seq(Pushed)] /\ m_scopes \in Seq(Seq(Params))
      /\ objects \in Seq(Object) /\ Depth(objects) = Len(m_scopes)
      /\ \A q \in Params : Balanced(q, m_stack[q], objects, m_scopes)
  BY DEF IInv, Types, Level
<1>2. Level \in Nat /\ b \in Pushed
  BY <1>1, LenProperties, ImplicitAssumption DEF Pushed, Level
<1>3. CASE NeedsDefault(p)
  <2>1. Resolved(p) = [m_stack EXCEPT ![p] = Append(m_stack[p], b)]
    BY <1>3 DEF Resolved, Push
  <2>2. Noted(p) = NotedIn(m_scopes, p)
    BY <1>3 DEF Noted, NotedIn, Level
  <2>3. m_stack[p] = <<>> \/ Last(m_stack[p]).level < Len(m_scopes)
    BY <1>3 DEF NeedsDefault, Level
  <2> HIDE DEF b
  <2>4. /\ Append(m_stack[p], b) \in Seq(Pushed) /\ Append(m_stack[p], b) # <<>>
        /\ Last(Append(m_stack[p], b)) = b
    <3>1. m_stack[p] \in Seq(Pushed) /\ b \in Pushed
      BY <1>1, <1>2
    <3> QED
      BY <3>1, Appended
  <2>5. b.level = Len(m_scopes)
    BY DEF b, Level
  <2>6. Resolved(p)[p] = Append(m_stack[p], b)
    BY <1>1, <2>1
  <2>7. \A q \in Params : q # p => Resolved(p)[q] = m_stack[q]
    BY <1>1, <2>1
  <2>8. Resolved(p) \in [Params -> Seq(Pushed)]
    BY <1>1, <2>1, <2>4
  <2>9. Noted(p) \in Seq(Seq(Params)) /\ Len(Noted(p)) = Level
    BY <1>1, <2>2, NotedFacts DEF Level
  <2>10. ASSUME NEW q \in Params
         PROVE  Balanced(q, Resolved(p)[q], objects, Noted(p))
    <3>1. CASE q = p
      <4>1. Balanced(p, Append(m_stack[p], b), objects, NotedIn(m_scopes, p))
        BY <1>1, <1>2, <2>3, <2>5, BalancedDefault
      <4> QED
        BY <2>2, <2>6, <3>1, <4>1
    <3>2. CASE q # p
      <4>1. Balanced(q, m_stack[q], objects, NotedIn(m_scopes, p))
        BY <1>1, <3>2, BalancedNoted
      <4> QED
        BY <2>2, <2>7, <3>2, <4>1
    <3> QED
      BY <3>1, <3>2
  <2> QED
    BY <1>2, <2>4, <2>5, <2>6, <2>7, <2>8, <2>9, <2>10 DEF Level
<1>4. CASE ~NeedsDefault(p)
  <2>1. Resolved(p) = m_stack /\ Noted(p) = m_scopes
    BY <1>4 DEF Resolved, Noted
  <2>2. m_stack[p] # <<>> /\ ~(Last(m_stack[p]).level < Level)
    BY <1>4 DEF NeedsDefault
  <2>3. m_stack[p] \in Seq(Pushed)
    BY <1>1
  <2>4. Last(m_stack[p]) \in Pushed
    BY <2>2, <2>3, LastOfSeq
  <2>5. Last(m_stack[p]).level = Level
    <3> DEFINE s == m_stack[p]
    <3>0. s \in Seq(Pushed) /\ s # <<>>
      BY <2>2, <2>3
    <3>1. Len(s) \in DOMAIN s /\ Last(s) = s[Len(s)]
      <4> HIDE DEF s
      <4>1. Len(s) \in Nat \ {0} /\ DOMAIN s = 1..Len(s) /\ Last(s) = s[Len(s)]
        BY <3>0, LenProperties, LastOfSeq
      <4> QED
        BY <4>1
    <3>2. Last(m_stack[p]).level <= Level /\ Last(m_stack[p]).level \in Nat
      BY <1>1, <2>3, <3>1, StackFacts DEF Balanced, Ordered, Level
    <3> QED
      BY <1>2, <2>2, <3>2
  <2> QED
    BY <1>1, <2>1, <2>2, <2>4, <2>5 DEF Level
<1> QED
  BY <1>3, <1>4

\* The stack of one parameter is written over.
LEMMA Written ==
    ASSUME IInv, NEW p \in Params, NEW v \in Values, Write(p, v)
    PROVE  /\ m_stack' \in [Params -> Seq(Pushed)]
           /\ \A q \in Params : q # p => m_stack'[q] = m_stack[q]
           /\ Len(m_stack'[p]) = Len(Resolved(p)[p])
           /\ \A k \in DOMAIN Resolved(p)[p] :
                m_stack'[p][k] = IF k = Len(m_stack'[p]) THEN [value |-> v, level |-> Level]
                          ELSE Resolved(p)[p][k]
           /\ \A q \in Params : Balanced(q, m_stack'[q], objects, Noted(p))
<1> DEFINE r == Resolved(p)
           n == Len(r[p])
           e == [r[p][n] EXCEPT !.value = v]
           t == [r[p] EXCEPT ![n] = e]
<1>1. /\ r \in [Params -> Seq(Pushed)] /\ r[p] \in Seq(Pushed) /\ r[p] # <<>>
      /\ Last(r[p]) \in Pushed /\ Last(r[p]).level = Level
      /\ \A q \in Params : q # p => r[q] = m_stack[q]
      /\ \A q \in Params : Balanced(q, r[q], objects, Noted(p))
  BY ResolvedFacts
<1>2. m_stack' = [r EXCEPT ![p] = t]
  BY DEF Write
<1>3. Last(r[p]) = r[p][n] /\ n \in 1..n /\ n \in Nat /\ DOMAIN r[p] = 1..n
  <2> HIDE DEF r
  <2> QED
    BY <1>1, LastOfSeq, LenProperties
<1>4. e \in Pushed /\ e = [value |-> v, level |-> Level]
  <2> HIDE DEF r, n
  <2>1. r[p][n] \in Pushed /\ r[p][n].level = Level
    BY <1>1, <1>3
  <2> QED
    BY <2>1 DEF Pushed
<1>5. t \in Seq(Pushed) /\ Len(t) = n
  <2> HIDE DEF r, e
  <2> QED
    BY <1>1, <1>3, <1>4, ExceptSeq
<1>6. \A k \in 1..n : t[k] = IF k = n THEN e ELSE r[p][k]
  <2> HIDE DEF r, e, n
  <2> QED
    BY <1>1, <1>3
<1> HIDE DEF r, n, e, t
<1>7. m_stack'[p] = t /\ \A q \in Params : q # p => m_stack'[q] = r[q]
  BY <1>1, <1>2
<1>8. m_stack' \in [Params -> Seq(Pushed)]
  BY <1>1, <1>2, <1>5
<1>9. ASSUME NEW q \in Params
      PROVE  Balanced(q, m_stack'[q], objects, Noted(p))
  <2>1. CASE q = p
    <3>1. \A k \in 1..n : t[k].level = r[p][k].level
      BY <1>1, <1>3, <1>4, <1>6
    <3>2. Balanced(p, r[p], objects, Noted(p))
      BY <1>1
    <3>3. Len(t) = Len(r[p])
      BY <1>5 DEF n
    <3>4. Balanced(p, t, objects, Noted(p))
      BY <1>1, <1>3, <1>5, <3>1, <3>2, <3>3, BalancedWrite
    <3> QED
      BY <1>7, <2>1, <3>4
  <2>2. CASE q # p
    BY <1>1, <1>7, <2>2
  <2> QED
    BY <2>1, <2>2
<1>10. Len(m_stack'[p]) = n
  BY <1>5, <1>7
<1>11. \A k \in 1..n :
         m_stack'[p][k] = IF k = n THEN [value |-> v, level |-> Level] ELSE r[p][k]
  BY <1>4, <1>6, <1>7
<1> QED
  BY <1>1, <1>3, <1>7, <1>8, <1>9, <1>10, <1>11 DEF r, n

LEMMA Invariants ==
    ASSUME IInv
    PROVE  /\ m_stack \in [Params -> Seq(Pushed)] /\ m_scopes \in Seq(Seq(Params))
           /\ objects \in Seq(Object) /\ seen \in Values
           /\ Depth(objects) = Len(m_scopes) /\ Level \in Nat
           /\ \A p \in Params : Balanced(p, m_stack[p], objects, m_scopes)
BY LenProperties DEF IInv, Types, Level

LEMMA EnterKeeps ==
    ASSUME IInv, EnterScope
    PROVE  IInv'
<1>1. /\ m_scopes' = Append(m_scopes, <<>>) /\ objects' = Append(objects, Scope)
      /\ m_stack' = m_stack /\ seen' = seen
  BY DEF EnterScope
<1>2. <<>> \in Seq(Params) /\ Scope \in Object
  BY EmptySeq DEF Object
<1>3. /\ Append(m_scopes, <<>>) \in Seq(Seq(Params)) /\ Append(objects, Scope) \in Seq(Object)
      /\ Len(Append(m_scopes, <<>>)) = Len(m_scopes) + 1
  BY <1>2, Invariants, Appended
<1>4. Depth(Append(objects, Scope)) = Len(m_scopes) + 1
  <2>1. Depth(Append(objects, Scope))
          = Depth(objects) + (IF Scope = Scope THEN 1 ELSE 0)
    BY <1>2, Invariants, DepthMade
  <2> QED
    BY <2>1, Invariants
<1>5. ASSUME NEW p \in Params
      PROVE  Balanced(p, m_stack[p], Append(objects, Scope), Append(m_scopes, <<>>))
  BY Invariants, BalancedEnter
<1>6. Types'
  BY <1>1, <1>3, Invariants DEF Types
<1>7. Depth(objects)' = Level'
  BY <1>1, <1>3, <1>4 DEF Level
<1>8. (\A p \in Params : Balanced(p, m_stack[p], objects, m_scopes))'
  BY <1>1, <1>5
<1> QED
  BY <1>6, <1>7, <1>8 DEF IInv

LEMMA BindKeeps ==
    ASSUME IInv, NEW p \in Params, NEW v \in Values, Bind(p, v)
    PROVE  IInv'
<1> DEFINE b == [value |-> v, level |-> Level]
           s == Append(m_stack[p], b)
           o == Append(objects, Binding(p))
<1>1. /\ m_stack' = [m_stack EXCEPT ![p] = s] /\ objects' = o
      /\ m_scopes' = m_scopes /\ seen' = seen
  BY DEF Bind, Push
<1>2. b \in Pushed /\ b.level = Len(m_scopes) /\ Binding(p) \in Object
  BY Invariants DEF Pushed, Object, Level
<1> HIDE DEF b
<1>3. m_stack[p] \in Seq(Pushed)
  BY Invariants
<1>4. s \in Seq(Pushed) /\ o \in Seq(Object)
  BY <1>2, <1>3, Invariants, Appended
<1>5. Depth(o) = Len(m_scopes)
  <2>1. Depth(o) = Depth(objects) + (IF Binding(p) = Scope THEN 1 ELSE 0)
    BY <1>2, Invariants, DepthMade
  <2>2. Binding(p) # Scope
    BY KindsDiffer
  <2> QED
    BY <2>1, <2>2, Invariants, LenProperties
<1>6. Balanced(p, s, o, m_scopes)
  BY <1>2, <1>3, Invariants, BalancedBind
<1>7. ASSUME NEW q \in Params, q # p
      PROVE  Balanced(q, m_stack[q], o, m_scopes)
  BY <1>7, Invariants, BalancedOther
<1> HIDE DEF s, o
<1>8. m_stack' \in [Params -> Seq(Pushed)]
  BY <1>1, <1>4, Invariants
<1>9. Types'
  BY <1>1, <1>4, <1>8, Invariants DEF Types
<1>10. Depth(objects)' = Level'
  BY <1>1, <1>5 DEF Level
<1>11. ASSUME NEW q \in Params
       PROVE  Balanced(q, m_stack'[q], o, m_scopes)
  <2>1. m_stack'[q] = IF q = p THEN s ELSE m_stack[q]
    BY <1>1, Invariants
  <2> QED
    BY <1>6, <1>7, <2>1
<1>12. (\A q \in Params : Balanced(q, m_stack[q], objects, m_scopes))'
  BY <1>1, <1>11
<1> QED
  BY <1>9, <1>10, <1>12 DEF IInv

LEMMA ReadKeeps ==
    ASSUME IInv, NEW p \in Params, Read(p)
    PROVE  IInv'
<1>1. /\ m_stack' = Resolved(p) /\ m_scopes' = Noted(p) /\ objects' = objects
      /\ seen' = Last(Resolved(p)[p]).value
  BY DEF Read
<1>2. Types'
  BY <1>1, ResolvedFacts, Invariants DEF Types, Pushed
<1>3. Depth(objects)' = Level'
  BY <1>1, ResolvedFacts, Invariants DEF Level
<1>4. (\A q \in Params : Balanced(q, m_stack[q], objects, m_scopes))'
  BY <1>1, ResolvedFacts
<1> QED
  BY <1>2, <1>3, <1>4 DEF IInv

LEMMA WriteKeeps ==
    ASSUME IInv, NEW p \in Params, NEW v \in Values, Write(p, v)
    PROVE  IInv'
<1>1. m_scopes' = Noted(p) /\ objects' = objects /\ seen' = seen
  BY DEF Write
<1>2. /\ m_stack' \in [Params -> Seq(Pushed)]
      /\ \A q \in Params : Balanced(q, m_stack'[q], objects, Noted(p))
  BY Written
<1>3. Types'
  BY <1>1, <1>2, ResolvedFacts, Invariants DEF Types
<1>4. Depth(objects)' = Level'
  BY <1>1, ResolvedFacts, Invariants DEF Level
<1>5. (\A q \in Params : Balanced(q, m_stack[q], objects, m_scopes))'
  BY <1>1, <1>2
<1> QED
  BY <1>3, <1>4, <1>5 DEF IInv

LEMMA UnbindKeeps ==
    ASSUME IInv, NEW p \in Params, Unbind(p)
    PROVE  IInv'
<1> DEFINE s == m_stack[p]
           f == Front(m_stack[p])
           o == Front(objects)
<1>1. /\ objects # <<>> /\ Last(objects) = Binding(p)
      /\ m_stack' = [m_stack EXCEPT ![p] = f] /\ objects' = o
      /\ m_scopes' = m_scopes /\ seen' = seen
  BY DEF Unbind
<1>2. o \in Seq(Object) /\ objects = Append(o, Binding(p)) /\ Binding(p) \in Object
  BY <1>1, Invariants, LastOfSeq DEF Object
<1> HIDE DEF o
<1>3. Depth(o) = Len(m_scopes)
  <2>1. Depth(Append(o, Binding(p))) = Depth(o) + (IF Binding(p) = Scope THEN 1 ELSE 0)
        /\ Depth(o) \in Nat
    BY <1>2, DepthMade
  <2>2. Binding(p) # Scope
    BY KindsDiffer
  <2>3. Depth(Append(o, Binding(p))) = Depth(o)
    BY <2>1, <2>2
  <2> QED
    BY Zenon, <1>2, <2>3, Invariants
<1>4. /\ s \in Seq(Pushed)
      /\ \A q \in Params : Balanced(q, m_stack[q], Append(o, Binding(p)), m_scopes)
  BY <1>2, Invariants
<1>5. s # <<>> /\ Balanced(p, f, o, m_scopes)
  BY <1>2, <1>3, <1>4, Invariants, BalancedUnbind
<1>6. f \in Seq(Pushed)
  BY <1>4, <1>5, LastOfSeq
<1>7. ASSUME NEW q \in Params, q # p
      PROVE  Balanced(q, m_stack[q], o, m_scopes)
  BY <1>2, <1>4, <1>7, Invariants, BalancedOther
<1> HIDE DEF f, s
<1>8. m_stack' \in [Params -> Seq(Pushed)]
  BY <1>1, <1>6, Invariants
<1>9. Types'
  BY <1>1, <1>2, <1>8, Invariants DEF Types
<1>10. Depth(objects)' = Level'
  BY <1>1, <1>3 DEF Level
<1>11. ASSUME NEW q \in Params
       PROVE  Balanced(q, m_stack'[q], o, m_scopes)
  <2>1. m_stack'[q] = IF q = p THEN f ELSE m_stack[q]
    BY <1>1, Invariants
  <2> QED
    BY <1>5, <1>7, <2>1
<1>12. (\A q \in Params : Balanced(q, m_stack[q], objects, m_scopes))'
  BY <1>1, <1>11
<1> QED
  BY <1>9, <1>10, <1>12 DEF IInv

\* What a scope that dies leaves behind.
LEMMA LeaveFacts ==
    ASSUME IInv, LeaveScope
    PROVE  \E o \in Seq(Object), m \in Seq(Seq(Params)), n \in Seq(Params) :
             /\ objects = Append(o, Scope) /\ objects' = o
             /\ m_scopes = Append(m, n) /\ m_scopes' = m
             /\ Depth(o) = Len(m)
             /\ m_stack' = [p \in Params |-> Rest(m_stack[p], n, p)]
             /\ seen' = seen
<1> DEFINE o == Front(objects)
           m == Front(m_scopes)
           n == Last(m_scopes)
<1>1. /\ objects # <<>> /\ Last(objects) = Scope /\ objects' = o /\ m_scopes' = m
      /\ seen' = seen
  BY DEF LeaveScope
<1>2. m_stack' = [p \in Params |-> Rest(m_stack[p], n, p)]
  BY DEF LeaveScope, Rest, NotesIn
<1>3. o \in Seq(Object) /\ objects = Append(o, Scope) /\ Scope \in Object
  BY <1>1, Invariants, LastOfSeq DEF Object
<1> HIDE DEF o
<1>4. Depth(o) \in Nat /\ Depth(Append(o, Scope)) = Depth(o) + 1
  <2>1. /\ Depth(Append(o, Scope)) = Depth(o) + (IF Scope = Scope THEN 1 ELSE 0)
        /\ Depth(o) \in Nat
    BY <1>3, DepthMade
  <2> QED
    BY <2>1
<1>5. Len(m_scopes) = Depth(o) + 1
  <2>1. Len(m_scopes) = Depth(Append(o, Scope))
    BY Zenon, <1>3, Invariants
  <2> QED
    BY <1>4, <2>1
<1>6. m_scopes # <<>>
  BY <1>4, <1>5, EmptySeq
<1>7. m_scopes \in Seq(Seq(Params))
  BY Invariants
<1>8. /\ m \in Seq(Seq(Params)) /\ n \in Seq(Params) /\ m_scopes = Append(m, n)
      /\ Len(m) = Len(m_scopes) - 1
  BY <1>6, <1>7, LastOfSeq
<1> HIDE DEF m, n
<1>9. Depth(o) = Len(m)
  BY <1>4, <1>5, <1>8
<1> QED
  BY <1>1, <1>2, <1>3, <1>8, <1>9

LEMMA LeaveKeeps ==
    ASSUME IInv, LeaveScope
    PROVE  IInv'
<1>1. PICK o \in Seq(Object), m \in Seq(Seq(Params)), n \in Seq(Params) :
        /\ objects = Append(o, Scope) /\ objects' = o
        /\ m_scopes = Append(m, n) /\ m_scopes' = m
        /\ Depth(o) = Len(m)
        /\ m_stack' = [p \in Params |-> Rest(m_stack[p], n, p)]
        /\ seen' = seen
  BY LeaveFacts
<1>2. ASSUME NEW p \in Params
      PROVE  Rest(m_stack[p], n, p) \in Seq(Pushed) /\ Balanced(p, Rest(m_stack[p], n, p), o, m)
  <2>1. Balanced(p, m_stack[p], Append(o, Scope), Append(m, n)) /\ m_stack[p] \in Seq(Pushed)
    BY <1>1, Invariants
  <2> QED
    BY <1>1, <2>1, BalancedLeave
<1>3. Types'
  BY <1>1, <1>2, Invariants DEF Types
<1>4. Depth(objects)' = Level'
  BY <1>1 DEF Level
<1>5. (\A p \in Params : Balanced(p, m_stack[p], objects, m_scopes))'
  BY <1>1, <1>2
<1> QED
  BY <1>3, <1>4, <1>5 DEF IInv

THEOREM Invariance == Spec => []IInv
<1>1. ASSUME IInv, [Next]_vars
      PROVE  IInv'
  <2>1. CASE EnterScope
    BY <1>1, <2>1, EnterKeeps
  <2>2. CASE LeaveScope
    BY <1>1, <2>2, LeaveKeeps
  <2>3. ASSUME NEW p \in Params, Unbind(p)
        PROVE  IInv'
    BY <1>1, <2>3, UnbindKeeps
  <2>4. ASSUME NEW p \in Params, Read(p)
        PROVE  IInv'
    BY <1>1, <2>4, ReadKeeps
  <2>5. ASSUME NEW p \in Params, NEW v \in Values, Bind(p, v)
        PROVE  IInv'
    BY <1>1, <2>5, BindKeeps
  <2>6. ASSUME NEW p \in Params, NEW v \in Values, Write(p, v)
        PROVE  IInv'
    BY <1>1, <2>6, WriteKeeps
  <2>7. CASE UNCHANGED vars
    <3>1. m_stack' = m_stack /\ m_scopes' = m_scopes /\ objects' = objects /\ seen' = seen
      BY <2>7 DEF vars
    <3>2. Types'
      BY <3>1, Invariants, <1>1 DEF Types
    <3>3. Depth(objects)' = Level'
      BY <3>1, Invariants, <1>1 DEF Level
    <3>4. (\A p \in Params : Balanced(p, m_stack[p], objects, m_scopes))'
      BY <3>1, Invariants, <1>1
    <3> QED
      BY <3>2, <3>3, <3>4 DEF IInv
  <2> QED
    BY <1>1, <2>1, <2>2, <2>3, <2>4, <2>5, <2>6, <2>7 DEF Next
<1> QED
  BY StartsBalanced, <1>1, PTL DEF Spec

\* Every binding on a stack has one party that will pop it: the object that
\* pushed it, or the scope that was told of the default.  So no destructor
\* (popStackBinding, ~ImplicitParam, ~ImplicitScope) pops what is not its own.
THEOREM EachBindingIsPoppedOnce == Spec => []EveryBindingHasOnePopper
<1>1. ASSUME IInv
      PROVE  EveryBindingHasOnePopper
  <2>1. ASSUME NEW p \in Params
        PROVE  /\ \A l : At(p, l) = AtIn(m_stack[p], l) /\ Owned(p, l) = OwnedIn(objects, p, l)
               /\ \A l : Notes(p, l) = NotesIn(m_scopes[l], p)
    BY DEF At, AtIn, Owned, OwnedIn, ScopesTo, Notes, NotesIn
  <2>2. \A p \in Params : Balanced(p, m_stack[p], objects, m_scopes)
    BY <1>1, Invariants
  <2>3. ASSUME NEW p \in Params
        PROVE  /\ \A j, k \in DOMAIN m_stack[p] :
                    j <= k => m_stack[p][j].level <= m_stack[p][k].level
               /\ \A k \in DOMAIN m_stack[p] : m_stack[p][k].level <= Level
    BY <2>2 DEF Balanced, Ordered, Level
  <2>4. ASSUME NEW p \in Params
        PROVE  /\ \A l \in 1..Level :
                    Cardinality(AtIn(m_stack[p], l)) =
                      Cardinality(OwnedIn(objects, p, l)) + Cardinality(NotesIn(m_scopes[l], p))
               /\ Cardinality(AtIn(m_stack[p], 0)) - Cardinality(OwnedIn(objects, p, 0))
                    \in {0, 1}
    BY <2>2 DEF Balanced, Level
  <2>5. ASSUME NEW p \in Params
        PROVE  /\ \A l \in 1..Level :
                    Cardinality(At(p, l)) = Cardinality(Owned(p, l)) + Cardinality(Notes(p, l))
               /\ Cardinality(At(p, 0)) - Cardinality(Owned(p, 0)) \in {0, 1}
    BY <2>1, <2>4
  <2> QED
    BY <2>3, <2>5 DEF EveryBindingHasOnePopper
<1> QED
  BY Invariance, <1>1, PTL

-----------------------------------------------------------------------------
(* What a look at a parameter sees *)

BelowIn(s, l)  == {k \in DOMAIN s : s[k].level < l}
ValuesIn(s, l) ==
    [k \in 1..Cardinality(AtIn(s, l)) |-> s[Cardinality(BelowIn(s, l)) + k].value]

ViewIn(p, s, o, l) ==
    IF Cardinality(OwnedIn(o, p, l)) < Cardinality(AtIn(s, l)) THEN ValuesIn(s, l)
    ELSE <<Default(p)>> \o ValuesIn(s, l)

LEMMA FunctionIsSeq ==
    ASSUME NEW S, NEW n \in Nat, NEW f \in [1..n -> S]
    PROVE  f \in Seq(S) /\ Len(f) = n
<1>1. f \in Seq(S)
  BY SeqDef
<1>2. 1..Len(f) = 1..n /\ Len(f) \in Nat
  BY <1>1, LenProperties
<1>3. Len(f) = n
  <2>1. ASSUME NEW m \in Nat, 1..m = 1..n
        PROVE  m = n
    <3>1. Cardinality(1..m) = m /\ Cardinality(1..n) = n
      BY FS_Interval
    <3> QED
      BY <2>1, <3>1
  <2> QED
    BY <1>2, <2>1
<1> QED
  BY <1>1, <1>3

\* The bindings of a level come after those below it.
LEMMA LevelCounts ==
    ASSUME NEW s \in Seq(Pushed), NEW l \in Nat
    PROVE  /\ Cardinality(BelowIn(s, l)) \in Nat /\ Cardinality(AtIn(s, l)) \in Nat
           /\ Cardinality(BelowIn(s, l)) + Cardinality(AtIn(s, l)) <= Len(s)
           /\ Ordered(s, l) =>
                Cardinality(BelowIn(s, l)) + Cardinality(AtIn(s, l)) = Len(s)
<1> DEFINE B == BelowIn(s, l)
           A == AtIn(s, l)
<1>1. Len(s) \in Nat /\ DOMAIN s = 1..Len(s)
  BY LenProperties
<1>2. \A k \in 1..Len(s) : s[k].level \in Nat
  BY <1>1, StackFacts
<1>3. B \in SUBSET (1..Len(s)) /\ A \in SUBSET (1..Len(s)) /\ B \cap A = {}
  BY <1>1, <1>2 DEF BelowIn, AtIn
<1>4. Ordered(s, l) => B \cup A = 1..Len(s)
  BY <1>1, <1>2 DEF BelowIn, AtIn, Ordered
<1> HIDE DEF A, B
<1>5. IsFiniteSet(1..Len(s)) /\ Cardinality(1..Len(s)) = Len(s)
  BY <1>1, FS_Interval
<1>6. /\ IsFiniteSet(A) /\ IsFiniteSet(B)
      /\ Cardinality(A) \in Nat /\ Cardinality(B) \in Nat
  BY <1>1, <1>3, CountNext
<1>7. Cardinality(B \cup A) = Cardinality(B) + Cardinality(A)
  <2>1. Cardinality(B \cup A) = Cardinality(B) + Cardinality(A) - Cardinality(B \cap A)
    BY <1>6, FS_Union
  <2>2. Cardinality(B \cap A) = 0
    BY <1>3, FS_EmptySet
  <2> QED
    BY <1>6, <2>1, <2>2
<1>8. Cardinality(B \cup A) <= Len(s)
  <2>1. B \cup A \in SUBSET (1..Len(s))
    BY <1>3
  <2> QED
    BY <1>5, <2>1, FS_Subset
<1>9. Ordered(s, l) => Cardinality(B \cup A) = Len(s)
  BY <1>4, <1>5
<1> QED
  BY <1>6, <1>7, <1>8, <1>9 DEF A, B

LEMMA ValuesFacts ==
    ASSUME NEW s \in Seq(Pushed), NEW l \in Nat
    PROVE  /\ ValuesIn(s, l) \in Seq(Values)
           /\ Len(ValuesIn(s, l)) = Cardinality(AtIn(s, l))
           /\ \A k \in 1..Cardinality(AtIn(s, l)) :
                ValuesIn(s, l)[k] = s[Cardinality(BelowIn(s, l)) + k].value
<1> DEFINE n == Cardinality(AtIn(s, l))
           b == Cardinality(BelowIn(s, l))
<1>1. n \in Nat /\ b \in Nat /\ b + n <= Len(s) /\ Len(s) \in Nat /\ DOMAIN s = 1..Len(s)
  BY LevelCounts, LenProperties
<1> HIDE DEF n, b
<1>2. ASSUME NEW k \in 1..n
      PROVE  s[b + k].value \in Values
  <2>1. b + k \in 1..Len(s)
    BY <1>1
  <2> QED
    BY <1>1, <2>1, StackFacts
<1>3. [k \in 1..n |-> s[b + k].value] \in [1..n -> Values]
  BY <1>2
<1>4. ValuesIn(s, l) = [k \in 1..n |-> s[b + k].value]
  BY DEF ValuesIn, n, b
<1>5. ValuesIn(s, l) \in Seq(Values) /\ Len(ValuesIn(s, l)) = n
  BY <1>1, <1>3, <1>4, FunctionIsSeq
<1>6. \A k \in 1..n : ValuesIn(s, l)[k] = s[b + k].value
  BY <1>4
<1> QED
  BY <1>5, <1>6 DEF n, b

\* A binding pushed on top is seen on its level and on no other.
LEMMA ValuesPushed ==
    ASSUME NEW s \in Seq(Pushed), NEW e \in Pushed, Ordered(s, e.level)
    PROVE  /\ ValuesIn(Append(s, e), e.level) = Append(ValuesIn(s, e.level), e.value)
           /\ \A l \in Nat : l < e.level => /\ ValuesIn(Append(s, e), l) = ValuesIn(s, l)
                                            /\ AtIn(Append(s, e), l) = AtIn(s, l)
<1> DEFINE a == Append(s, e)
<1>1. /\ a \in Seq(Pushed) /\ Len(s) \in Nat
      /\ DOMAIN s = 1..Len(s) /\ DOMAIN a = 1..(Len(s) + 1)
      /\ \A k \in 1..Len(s) : a[k] = s[k]
      /\ a[Len(s) + 1] = e
  BY Appended
<1>2. e.level \in Nat /\ e.value \in Values
  BY DEF Pushed
<1>3. \A l \in Nat : Cardinality(AtIn(a, l)) =
                       Cardinality(AtIn(s, l)) + (IF e.level = l THEN 1 ELSE 0)
  BY AtPushed
<1> HIDE DEF a
<1>4. ASSUME NEW l \in Nat, l <= e.level
      PROVE  BelowIn(a, l) = BelowIn(s, l)
  BY <1>1, <1>2, <1>4 DEF BelowIn
<1>5. ValuesIn(a, e.level) = Append(ValuesIn(s, e.level), e.value)
  <2> DEFINE l == e.level
             n == Cardinality(AtIn(s, l))
             b == Cardinality(BelowIn(s, l))
  <2>1. n \in Nat /\ b \in Nat /\ b + n = Len(s)
    BY <1>2, LevelCounts
  <2>2. Cardinality(AtIn(a, l)) = n + 1 /\ Cardinality(BelowIn(a, l)) = b
    BY <1>2, <1>3, <1>4
  <2>3. /\ ValuesIn(s, l) \in Seq(Values) /\ Len(ValuesIn(s, l)) = n
        /\ \A k \in 1..n : ValuesIn(s, l)[k] = s[b + k].value
    BY <1>2, ValuesFacts
  <2>4. /\ ValuesIn(a, l) \in Seq(Values) /\ Len(ValuesIn(a, l)) = n + 1
        /\ \A k \in 1..(n + 1) : ValuesIn(a, l)[k] = a[b + k].value
    <3>1. a \in Seq(Pushed) /\ l \in Nat
      BY <1>1, <1>2
    <3> HIDE DEF l
    <3>2. /\ ValuesIn(a, l) \in Seq(Values)
          /\ Len(ValuesIn(a, l)) = Cardinality(AtIn(a, l))
          /\ \A k \in 1..Cardinality(AtIn(a, l)) :
               ValuesIn(a, l)[k] = a[Cardinality(BelowIn(a, l)) + k].value
      BY <3>1, ValuesFacts
    <3> HIDE DEF n, b
    <3> QED
      BY <2>2, <3>2
  <2> HIDE DEF n, b, l
  <2> DEFINE t == Append(ValuesIn(s, l), e.value)
  <2>5. /\ t \in Seq(Values) /\ Len(t) = n + 1 /\ t[n + 1] = e.value
        /\ \A k \in 1..n : t[k] = ValuesIn(s, l)[k]
    BY <1>2, <2>3, AppendProperties
  <2> HIDE DEF t
  <2>6. ASSUME NEW k \in 1..(n + 1)
        PROVE  ValuesIn(a, l)[k] = t[k]
    <3>1. CASE k = n + 1
      <4>1. b + k = Len(s) + 1
        BY <2>1, <3>1
      <4> QED
        BY <1>1, <2>4, <2>5, <3>1, <4>1
    <3>2. CASE k # n + 1
      <4>1. k \in 1..n /\ b + k \in 1..Len(s)
        BY <2>1, <3>2
      <4> QED
        BY <1>1, <2>3, <2>4, <2>5, <4>1
    <3> QED
      BY <3>1, <3>2
  <2>7. ValuesIn(a, l) = t
    BY <2>1, <2>4, <2>5, <2>6, SeqEqual
  <2> QED
    BY <2>7 DEF t, l
<1>6. ASSUME NEW l \in Nat, l < e.level
      PROVE  ValuesIn(a, l) = ValuesIn(s, l) /\ AtIn(a, l) = AtIn(s, l)
  <2> DEFINE n == Cardinality(AtIn(s, l))
             b == Cardinality(BelowIn(s, l))
  <2>1. n \in Nat /\ b \in Nat /\ b + n <= Len(s)
    BY LevelCounts
  <2>2. AtIn(a, l) = AtIn(s, l)
    BY <1>1, <1>2, <1>6 DEF AtIn
  <2>3. BelowIn(a, l) = BelowIn(s, l)
    BY <1>2, <1>4, <1>6
  <2> HIDE DEF n, b
  <2>4. ASSUME NEW k \in 1..n
        PROVE  a[b + k] = s[b + k]
    <3>1. b + k \in 1..Len(s)
      BY <1>1, <2>1
    <3> QED
      BY <1>1, <3>1
  <2>5. [k \in 1..n |-> a[b + k].value] = [k \in 1..n |-> s[b + k].value]
    BY <2>4
  <2> QED
    BY <2>2, <2>3, <2>5 DEF ValuesIn, n, b
<1> QED
  BY <1>5, <1>6 DEF a

LEMMA SingletonAppend ==
    ASSUME NEW S, NEW d \in S, NEW s \in Seq(S), NEW e \in S
    PROVE  /\ <<d>> \o s \in Seq(S) /\ Len(<<d>> \o s) = Len(s) + 1
           /\ <<d>> \o Append(s, e) = Append(<<d>> \o s, e)
           /\ <<d>> \o <<>> = <<d>>
<1>1. <<d>> \in Seq(S) /\ Len(<<d>>) = 1 /\ <<e>> \in Seq(S)
  <2>1. \A x \in S : <<x>> = Append(<<>>, x)
    OBVIOUS
  <2>2. \A x \in S : Append(<<>>, x) \in Seq(S) /\ Len(Append(<<>>, x)) = 1
    BY EmptySeq, AppendProperties
  <2> QED
    BY <2>1, <2>2
<1>2. <<d>> \o s \in Seq(S) /\ Len(<<d>> \o s) = 1 + Len(s) /\ Len(s) \in Nat
  BY <1>1, ConcatProperties, LenProperties
<1>3. Append(s, e) = s \o <<e>> /\ Append(<<d>> \o s, e) = (<<d>> \o s) \o <<e>>
  BY <1>2, AppendIsConcat
<1>4. (<<d>> \o s) \o <<e>> = <<d>> \o (s \o <<e>>)
  BY <1>1, ConcatAssociative
<1>5. <<d>> \o <<>> = <<d>>
  BY <1>1, ConcatEmptySeq
<1> QED
  BY <1>2, <1>3, <1>4, <1>5

LEMMA ViewFacts ==
    ASSUME NEW p \in Params, NEW s \in Seq(Pushed), NEW o \in Seq(Object), NEW l \in Nat
    PROVE  ViewIn(p, s, o, l) \in Seq(Values) /\ Len(ViewIn(p, s, o, l)) \in Nat \ {0}
<1>1. /\ ValuesIn(s, l) \in Seq(Values) /\ Len(ValuesIn(s, l)) = Cardinality(AtIn(s, l))
      /\ Cardinality(AtIn(s, l)) \in Nat
  BY ValuesFacts, LevelCounts
<1>2. Cardinality(OwnedIn(o, p, l)) \in Nat
  <2>1. Scope \in Object
    BY DEF Object
  <2> QED
    BY <2>1, OwnedMade
<1>3. Default(p) \in Values
  BY ImplicitAssumption
<1>4. CASE Cardinality(OwnedIn(o, p, l)) < Cardinality(AtIn(s, l))
  BY <1>1, <1>2, <1>4 DEF ViewIn
<1>5. CASE ~(Cardinality(OwnedIn(o, p, l)) < Cardinality(AtIn(s, l)))
  <2>1. /\ <<Default(p)>> \o ValuesIn(s, l) \in Seq(Values)
        /\ Len(<<Default(p)>> \o ValuesIn(s, l)) = Len(ValuesIn(s, l)) + 1
    BY <1>1, <1>3, SingletonAppend
  <2>2. ViewIn(p, s, o, l) = <<Default(p)>> \o ValuesIn(s, l)
    BY <1>5 DEF ViewIn
  <2> QED
    BY <1>1, <2>1, <2>2
<1> QED
  BY <1>4, <1>5

\* What is seen of a level below the last binding pushed on it.
Under(p, f, o, l) ==
    IF Cardinality(OwnedIn(o, p, l)) < Cardinality(AtIn(f, l)) + 1 THEN ValuesIn(f, l)
    ELSE <<Default(p)>> \o ValuesIn(f, l)

LEMMA ViewTop ==
    ASSUME NEW p \in Params, NEW f \in Seq(Pushed), NEW o, NEW e \in Pushed,
           Ordered(f, e.level)
    PROVE  /\ Under(p, f, o, e.level) \in Seq(Values)
           /\ ViewIn(p, Append(f, e), o, e.level) = Append(Under(p, f, o, e.level), e.value)
<1> DEFINE l == e.level
           v == ValuesIn(f, l)
           s == Append(f, e)
           owns == Cardinality(OwnedIn(o, p, l)) < Cardinality(AtIn(s, l))
<1>1. e.level \in Nat /\ e.value \in Values /\ Default(p) \in Values
  BY ImplicitAssumption DEF Pushed
<1>2. ValuesIn(s, l) = Append(v, e.value)
  BY ValuesPushed
<1>3. v \in Seq(Values)
  BY <1>1, ValuesFacts
<1>4. Cardinality(AtIn(s, l)) = Cardinality(AtIn(f, l)) + 1
  <2>1. /\ Cardinality(AtIn(f, l)) \in Nat
        /\ Cardinality(AtIn(s, l)) = Cardinality(AtIn(f, l)) + (IF e.level = l THEN 1 ELSE 0)
    BY <1>1, AtPushed
  <2> QED
    BY <2>1
<1>5. Under(p, f, o, l) = IF owns THEN v ELSE <<Default(p)>> \o v
  BY <1>4 DEF Under
<1>6. ViewIn(p, s, o, l) = IF owns THEN Append(v, e.value)
                            ELSE <<Default(p)>> \o Append(v, e.value)
  <2> HIDE DEF l, v, s
  <2> QED
    BY <1>2 DEF ViewIn
<1>7. /\ <<Default(p)>> \o v \in Seq(Values)
      /\ <<Default(p)>> \o Append(v, e.value) = Append(<<Default(p)>> \o v, e.value)
  <2> HIDE DEF v
  <2> QED
    BY <1>1, <1>3, SingletonAppend
<1> HIDE DEF owns, v, s, l
<1>8. /\ Under(p, f, o, l) \in Seq(Values)
      /\ ViewIn(p, s, o, l) = Append(Under(p, f, o, l), e.value)
  <2>1. CASE owns
    BY <1>3, <1>5, <1>6, <2>1
  <2>2. CASE ~owns
    BY <1>5, <1>6, <1>7, <2>2
  <2> QED
    BY <2>1, <2>2
<1> QED
  BY <1>8 DEF s, l

\* Below, it sees what it saw.
LEMMA ViewBelow ==
    ASSUME NEW p \in Params, NEW f \in Seq(Pushed), NEW o, NEW e \in Pushed,
           Ordered(f, e.level), NEW l \in Nat, l < e.level
    PROVE  ViewIn(p, Append(f, e), o, l) = ViewIn(p, f, o, l)
<1>1. ValuesIn(Append(f, e), l) = ValuesIn(f, l) /\ AtIn(Append(f, e), l) = AtIn(f, l)
  BY ValuesPushed
<1> QED
  BY <1>1 DEF ViewIn

\* What counts of the objects is how many own a binding.
LEMMA ViewObjects ==
    ASSUME NEW p, NEW s, NEW l, NEW o, NEW o1,
           Cardinality(OwnedIn(o1, p, l)) = Cardinality(OwnedIn(o, p, l))
    PROVE  ViewIn(p, s, o1, l) = ViewIn(p, s, o, l)
BY DEF ViewIn

LEMMA ViewBind ==
    ASSUME NEW p \in Params, NEW s \in Seq(Pushed), NEW o \in Seq(Object),
           NEW e \in Pushed, Ordered(s, e.level), Depth(o) = e.level
    PROVE  /\ ViewIn(p, Append(s, e), Append(o, Binding(p)), e.level)
                = Append(ViewIn(p, s, o, e.level), e.value)
           /\ \A l \in Nat : l < e.level =>
                ViewIn(p, Append(s, e), Append(o, Binding(p)), l) = ViewIn(p, s, o, l)
<1> DEFINE o1 == Append(o, Binding(p))
           a == Append(s, e)
           t == e.level
           v == ValuesIn(s, t)
<1>1. t \in Nat /\ e.value \in Values /\ Default(p) \in Values /\ Binding(p) \in Object
  BY ImplicitAssumption DEF Pushed, Object
<1>2. \A l \in Nat : /\ Cardinality(OwnedIn(o, p, l)) \in Nat
                     /\ Cardinality(OwnedIn(o1, p, l)) =
                          Cardinality(OwnedIn(o, p, l))
                            + (IF Binding(p) = Binding(p) /\ l = Depth(o) THEN 1 ELSE 0)
  BY <1>1, OwnedMade
<1>3. ASSUME NEW l \in Nat, l < t
      PROVE  ViewIn(p, a, o1, l) = ViewIn(p, s, o, l)
  <2>1. l # Depth(o)
    BY <1>1, <1>3
  <2>2. Cardinality(OwnedIn(o1, p, l)) = Cardinality(OwnedIn(o, p, l))
    <3>1. /\ Cardinality(OwnedIn(o, p, l)) \in Nat
          /\ Cardinality(OwnedIn(o1, p, l)) =
               Cardinality(OwnedIn(o, p, l))
                 + (IF Binding(p) = Binding(p) /\ l = Depth(o) THEN 1 ELSE 0)
      BY <1>2
    <3> HIDE DEF o1
    <3> QED
      BY <2>1, <3>1
  <2>3. ViewIn(p, a, o1, l) = ViewIn(p, a, o, l)
    BY <2>2, ViewObjects
  <2>4. ViewIn(p, a, o, l) = ViewIn(p, s, o, l)
    BY <1>3, ViewBelow
  <2> QED
    BY <2>3, <2>4
<1>4. ViewIn(p, a, o1, t) = Append(ViewIn(p, s, o, t), e.value)
  <2>1. Cardinality(OwnedIn(o, p, t)) \in Nat
        /\ Cardinality(OwnedIn(o1, p, t)) = Cardinality(OwnedIn(o, p, t)) + 1
    <3> HIDE DEF o1
    <3> QED
      BY <1>1, <1>2
  <2>2. Cardinality(AtIn(s, t)) \in Nat
        /\ Cardinality(AtIn(a, t)) = Cardinality(AtIn(s, t)) + 1
    <3>1. /\ Cardinality(AtIn(s, t)) \in Nat
          /\ Cardinality(AtIn(a, t)) =
               Cardinality(AtIn(s, t)) + (IF e.level = t THEN 1 ELSE 0)
      BY <1>1, AtPushed
    <3> HIDE DEF a
    <3> QED
      BY <3>1
  <2>3. ValuesIn(a, t) = Append(v, e.value) /\ v \in Seq(Values)
    BY <1>1, ValuesPushed, ValuesFacts
  <2>4. <<Default(p)>> \o Append(v, e.value) = Append(<<Default(p)>> \o v, e.value)
    <3> HIDE DEF v
    <3> QED
      BY <1>1, <2>3, SingletonAppend
  <2> DEFINE owns == Cardinality(OwnedIn(o, p, t)) < Cardinality(AtIn(s, t))
  <2>5. (Cardinality(OwnedIn(o1, p, t)) < Cardinality(AtIn(a, t))) <=> owns
    BY <2>1, <2>2
  <2>6. ViewIn(p, s, o, t) = IF owns THEN v ELSE <<Default(p)>> \o v
    BY DEF ViewIn
  <2>7. ViewIn(p, a, o1, t) = IF owns THEN Append(v, e.value)
                                ELSE <<Default(p)>> \o Append(v, e.value)
    <3> HIDE DEF a, o1, t, v
    <3> QED
      BY <2>3, <2>5 DEF ViewIn
  <2> HIDE DEF owns, v, a, o1, t
  <2>8. CASE owns
    BY <2>6, <2>7, <2>8
  <2>9. CASE ~owns
    BY <2>4, <2>6, <2>7, <2>9
  <2> QED
    BY <2>8, <2>9
<1> QED
  BY <1>3, <1>4

\* A level that nothing was pushed on shows the default, made or not.
LEMMA ViewFresh ==
    ASSUME NEW p \in Params, NEW s \in Seq(Pushed), NEW o, NEW l \in Nat,
           AtIn(s, l) = {}, OwnedIn(o, p, l) = {}
    PROVE  ViewIn(p, s, o, l) = <<Default(p)>>
<1>1. Cardinality(AtIn(s, l)) = 0 /\ Cardinality(OwnedIn(o, p, l)) = 0
  BY FS_EmptySet
<1>2. ValuesIn(s, l) \in Seq(Values) /\ Len(ValuesIn(s, l)) = 0
  BY <1>1, ValuesFacts
<1>3. ValuesIn(s, l) = <<>>
  BY <1>2, EmptySeq
<1>4. <<Default(p)>> \o <<>> = <<Default(p)>>
  <2>1. Default(p) \in Values /\ <<>> \in Seq(Values)
    BY ImplicitAssumption, EmptySeq
  <2> QED
    BY <2>1, SingletonAppend
<1> QED
  BY <1>1, <1>3, <1>4 DEF ViewIn

LEMMA ViewDefault ==
    ASSUME NEW p \in Params, NEW s \in Seq(Pushed), NEW o,
           NEW e \in Pushed, Ordered(s, e.level), e.value = Default(p),
           AtIn(s, e.level) = {}, OwnedIn(o, p, e.level) = {}
    PROVE  ViewIn(p, Append(s, e), o, e.level) = <<Default(p)>>
<1> DEFINE a == Append(s, e)
           l == e.level
<1>1. l \in Nat /\ e.value \in Values
  BY DEF Pushed
<1>2. Cardinality(OwnedIn(o, p, l)) = 0 /\ Cardinality(AtIn(s, l)) = 0
  BY FS_EmptySet
<1>3. Cardinality(AtIn(a, l)) = 1
  <2>1. Cardinality(AtIn(a, l)) = Cardinality(AtIn(s, l)) + (IF e.level = l THEN 1 ELSE 0)
    BY <1>1, AtPushed
  <2> QED
    BY <1>2, <2>1
<1>4. ValuesIn(s, l) = <<>>
  <2>1. ValuesIn(s, l) \in Seq(Values) /\ Len(ValuesIn(s, l)) = 0
    BY <1>1, <1>2, ValuesFacts
  <2> QED
    BY <2>1, EmptySeq
<1>5. ValuesIn(a, l) = Append(<<>>, Default(p))
  BY <1>4, ValuesPushed
<1>6. Append(<<>>, Default(p)) = <<Default(p)>>
  OBVIOUS
<1> HIDE DEF a, l
<1>7. ViewIn(p, a, o, l) = <<Default(p)>>
  BY <1>2, <1>3, <1>5, <1>6 DEF ViewIn
<1> QED
  BY <1>7 DEF a, l

-----------------------------------------------------------------------------
(* The stacks implement dynamic scoping *)

\* The scopes of DynamicScope that the stacks ms and the objects o stand for.
ScopesOf(ms, o, top) ==
    [l \in 1..(top + 1) |-> [p \in Params |-> ViewIn(p, ms[p], o, l - 1)]]

\* What DS puts for scopes.
Promised == [l \in 1..(Level + 1) |-> [p \in Params |-> Bindings(p, l - 1)]]

LEMMA PromisedScopes ==
    /\ Promised = ScopesOf(m_stack, objects, Level)
    /\ Promised' = ScopesOf(m_stack', objects', Level')
<1>1. \A p, l : Bindings(p, l) = ViewIn(p, m_stack[p], objects, l)
  BY DEF Bindings, ViewIn, ValuesIn, At, AtIn, Owned, OwnedIn, ScopesTo, BelowIn
<1>2. \A p, l : Bindings(p, l)' = ViewIn(p, m_stack'[p], objects', l)
  BY DEF Bindings, ViewIn, ValuesIn, At, AtIn, Owned, OwnedIn, ScopesTo, BelowIn
<1>3. Promised = ScopesOf(m_stack, objects, Level)
  BY <1>1 DEF Promised, ScopesOf
<1>4. Promised' = ScopesOf(m_stack', objects', Level')
  BY <1>2 DEF Promised, ScopesOf
<1> QED
  BY <1>3, <1>4

LEMMA ScopesFacts ==
    ASSUME NEW ms \in [Params -> Seq(Pushed)], NEW o \in Seq(Object), NEW top \in Nat
    PROVE  /\ ScopesOf(ms, o, top) \in Seq([Params -> Seq(Values)])
           /\ ScopesOf(ms, o, top) \in [1..(top + 1) -> [Params -> Seq(Values)]]
           /\ Len(ScopesOf(ms, o, top)) = top + 1
           /\ Last(ScopesOf(ms, o, top)) = ScopesOf(ms, o, top)[top + 1]
           /\ \A l \in 1..(top + 1), p \in Params :
                ScopesOf(ms, o, top)[l][p] = ViewIn(p, ms[p], o, l - 1)
           /\ \A p \in Params : Last(ScopesOf(ms, o, top))[p] = ViewIn(p, ms[p], o, top)
<1> DEFINE S == [Params -> Seq(Values)]
           a == ScopesOf(ms, o, top)
<1>1. ASSUME NEW l \in 1..(top + 1)
      PROVE  [p \in Params |-> ViewIn(p, ms[p], o, l - 1)] \in S
  <2>1. l - 1 \in Nat
    OBVIOUS
  <2>2. \A p \in Params : ViewIn(p, ms[p], o, l - 1) \in Seq(Values)
    BY <2>1, ViewFacts
  <2> QED
    BY <2>2
<1>2. a \in [1..(top + 1) -> S]
  <2> HIDE DEF S
  <2> QED
    BY <1>1 DEF ScopesOf
<1>3. a \in Seq(S) /\ Len(a) = top + 1
  <2> HIDE DEF S, a
  <2> QED
    BY <1>2, FunctionIsSeq
<1>4. \A l \in 1..(top + 1), p \in Params : a[l][p] = ViewIn(p, ms[p], o, l - 1)
  BY DEF ScopesOf
<1>5. Last(a) = a[top + 1]
  BY <1>3 DEF Last
<1> HIDE DEF a
<1>6. ASSUME NEW p \in Params
      PROVE  Last(a)[p] = ViewIn(p, ms[p], o, top)
  <2>1. top + 1 \in 1..(top + 1) /\ (top + 1) - 1 = top
    OBVIOUS
  <2>2. a[top + 1][p] = ViewIn(p, ms[p], o, (top + 1) - 1)
    BY <1>4, <2>1
  <2> QED
    BY <1>5, <2>1, <2>2
<1> QED
  BY <1>2, <1>3, <1>4, <1>5, <1>6 DEF a

\* What p is bound to in the innermost scope changes to b.
Rebound(ss, p, b) == [ss EXCEPT ![Len(ss)][p] = b]

\* Only what is seen of p in the innermost scope differs.
DiffersAt(ns, o1, ms, o, top, p) ==
    /\ ms \in [Params -> Seq(Pushed)] /\ ns \in [Params -> Seq(Pushed)]
    /\ o \in Seq(Object) /\ o1 \in Seq(Object) /\ top \in Nat /\ p \in Params
    /\ \A q \in Params, l \in 0..top :
         q # p \/ l # top => ViewIn(q, ns[q], o1, l) = ViewIn(q, ms[q], o, l)

\* The scopes differ by what p is bound to in the innermost.
LEMMA ScopesRebound ==
    ASSUME NEW ms, NEW ns, NEW o, NEW o1, NEW top, NEW p, DiffersAt(ns, o1, ms, o, top, p)
    PROVE  ScopesOf(ns, o1, top) =
             Rebound(ScopesOf(ms, o, top), p, ViewIn(p, ns[p], o1, top))
<1> DEFINE a == ScopesOf(ms, o, top)
           b == ScopesOf(ns, o1, top)
           v == ViewIn(p, ns[p], o1, top)
           n == top + 1
<1>1. /\ a \in [1..n -> [Params -> Seq(Values)]] /\ Len(a) = n
      /\ \A l \in 1..n, q \in Params : a[l][q] = ViewIn(q, ms[q], o, l - 1)
  BY ScopesFacts DEF DiffersAt
<1>2. /\ b \in [1..n -> [Params -> Seq(Values)]]
      /\ \A l \in 1..n, q \in Params : b[l][q] = ViewIn(q, ns[q], o1, l - 1)
  BY ScopesFacts DEF DiffersAt
<1>3. n \in 1..n /\ n - 1 = top /\ p \in Params
  BY DEF DiffersAt
<1>4. b[n][p] = v
  <2>1. b[n][p] = ViewIn(p, ns[p], o1, n - 1)
    BY <1>2, <1>3
  <2> QED
    BY <1>3, <2>1
<1>5. ASSUME NEW l \in 1..n, NEW q \in Params, q # p \/ l # n
      PROVE  b[l][q] = a[l][q]
  <2>1. l - 1 \in 0..top /\ (l # n => l - 1 # top)
    BY DEF DiffersAt
  <2>2. ViewIn(q, ns[q], o1, l - 1) = ViewIn(q, ms[q], o, l - 1)
    BY <1>5, <2>1 DEF DiffersAt
  <2> QED
    BY <1>1, <1>2, <2>2
<1> HIDE DEF a, b, v, n
<1>6. ASSUME NEW l \in 1..n
      PROVE  b[l] = IF l = n THEN [a[l] EXCEPT ![p] = v] ELSE a[l]
  <2>1. a[l] \in [Params -> Seq(Values)] /\ b[l] \in [Params -> Seq(Values)]
    BY <1>1, <1>2
  <2>2. CASE l # n
    BY <1>5, <2>1, <2>2
  <2>3. CASE l = n
    BY <1>3, <1>4, <1>5, <2>1, <2>3
  <2> QED
    BY <2>2, <2>3
<1>7. b = [a EXCEPT ![n] = [a[n] EXCEPT ![p] = v]]
  BY <1>1, <1>2, <1>3, <1>6
<1>8. b = [a EXCEPT ![Len(a)][p] = v]
  BY <1>1, <1>7
<1> QED
  BY <1>8 DEF a, b, v, Rebound

LEMMA SameScopes ==
    ASSUME NEW ms, NEW ns, NEW o, NEW o1, NEW top \in Nat,
           \A q \in Params, l \in 0..top : ViewIn(q, ns[q], o1, l) = ViewIn(q, ms[q], o, l)
    PROVE  ScopesOf(ns, o1, top) = ScopesOf(ms, o, top)
<1>1. \A l \in 1..(top + 1) : l - 1 \in 0..top
  OBVIOUS
<1>2. ASSUME NEW l \in 1..(top + 1)
      PROVE  [q \in Params |-> ViewIn(q, ns[q], o1, l - 1)]
               = [q \in Params |-> ViewIn(q, ms[q], o, l - 1)]
  BY <1>1
<1> QED
  BY <1>2 DEF ScopesOf

LEMMA StartsFresh == Init => DS!Init
<1> SUFFICES ASSUME Init PROVE DS!Init
  OBVIOUS
<1> DEFINE F == [p \in Params |-> <<Default(p)>>]
<1>1. /\ m_stack = [p \in Params |-> <<>>] /\ m_scopes = <<>> /\ objects = <<>>
      /\ seen \in Values
  BY DEF Init
<1>2. Level = 0
  BY <1>1, EmptySeq DEF Level
<1>3. ASSUME NEW p \in Params
      PROVE  ViewIn(p, m_stack[p], objects, 0) = <<Default(p)>>
  <2>1. AtIn(<<>>, 0) = {} /\ OwnedIn(<<>>, p, 0) = {} /\ <<>> \in Seq(Pushed)
    BY EmptySeq DEF AtIn, OwnedIn
  <2>2. ViewIn(p, <<>>, <<>>, 0) = <<Default(p)>>
    BY <2>1, ViewFresh
  <2> QED
    BY <1>1, <2>2
<1>4. ScopesOf(m_stack, objects, 0) = [l \in 1..1 |-> F]
  BY <1>3 DEF ScopesOf
<1>5. [l \in 1..1 |-> F] = <<F>>
  <2> HIDE DEF F
  <2> QED
    OBVIOUS
<1>6. Promised = <<F>>
  BY <1>2, <1>4, <1>5, PromisedScopes
<1> QED
  BY <1>1, <1>6 DEF DS!Init, DS!Fresh, Promised

LEMMA EnterImplements ==
    ASSUME IInv, EnterScope
    PROVE  DS!EnterScope
<1> DEFINE F == [p \in Params |-> <<Default(p)>>]
           o == Append(objects, Scope)
           a == ScopesOf(m_stack, objects, Level)
           b == ScopesOf(m_stack, o, Level + 1)
<1>1. /\ m_scopes' = Append(m_scopes, <<>>) /\ objects' = o
      /\ m_stack' = m_stack /\ seen' = seen
  BY DEF EnterScope
<1>2. Level \in Nat /\ Level + 1 \in Nat /\ Level = Len(m_scopes) /\ Depth(objects) = Level
  BY Invariants DEF Level
<1>3. Level' = Level + 1
  <2>1. <<>> \in Seq(Params)
    BY EmptySeq
  <2> QED
    BY <1>1, <2>1, Invariants, Appended DEF Level
<1>4. o \in Seq(Object)
  <2>1. Scope \in Object
    BY DEF Object
  <2> QED
    BY <2>1, Invariants, Appended
<1>5. ASSUME NEW p \in Params, NEW l \in Nat
      PROVE  ViewIn(p, m_stack[p], o, l) = ViewIn(p, m_stack[p], objects, l)
  <2>1. OwnedIn(o, p, l) = OwnedIn(objects, p, l)
    BY Invariants, OwnedUnderScope
  <2> QED
    BY <2>1, ViewObjects
<1>6. ASSUME NEW p \in Params
      PROVE  ViewIn(p, m_stack[p], o, Level + 1) = <<Default(p)>>
  <2>1. m_stack[p] \in Seq(Pushed) /\ Ordered(m_stack[p], Level)
    BY Invariants DEF Balanced, Level
  <2>2. AtIn(m_stack[p], Level + 1) = {}
    <3>1. \A k \in DOMAIN m_stack[p] : m_stack[p][k].level \in Nat
      BY <2>1, StackFacts
    <3> QED
      BY <1>2, <2>1, <3>1 DEF Ordered, AtIn
  <2>3. OwnedIn(objects, p, Level + 1) = {}
    BY SMTT(30), <1>2, Invariants, OwnedOpen
  <2>4. ViewIn(p, m_stack[p], objects, Level + 1) = <<Default(p)>>
    BY <1>2, <2>1, <2>2, <2>3, ViewFresh
  <2> QED
    BY <1>2, <1>5, <2>4
<1> HIDE DEF o
<1>7. /\ a \in Seq([Params -> Seq(Values)]) /\ Len(a) = Level + 1
      /\ \A l \in 1..(Level + 1), p \in Params : a[l][p] = ViewIn(p, m_stack[p], objects, l - 1)
  BY <1>2, Invariants, ScopesFacts
<1>8. /\ b \in Seq([Params -> Seq(Values)]) /\ Len(b) = (Level + 1) + 1
      /\ \A l \in 1..((Level + 1) + 1), p \in Params : b[l][p] = ViewIn(p, m_stack[p], o, l - 1)
  BY <1>2, <1>4, Invariants, ScopesFacts
<1>9. F \in [Params -> Seq(Values)]
  <2>1. \A p \in Params : <<Default(p)>> \in Seq(Values)
    BY ImplicitAssumption
  <2> QED
    BY <2>1
<1>10. b = Append(a, F)
  <2> HIDE DEF a, b, F
  <2> DEFINE t == Append(a, F)
             n == Level + 1
  <2>1. /\ t \in Seq([Params -> Seq(Values)]) /\ Len(t) = n + 1
        /\ \A l \in 1..n : t[l] = a[l]
        /\ t[n + 1] = F
    BY <1>7, <1>9, Appended
  <2> HIDE DEF t
  <2>2. /\ \A l \in 1..(n + 1) : b[l] \in [Params -> Seq(Values)]
        /\ \A l \in 1..n : a[l] \in [Params -> Seq(Values)]
    BY <1>7, <1>8, LenProperties
  <2>3. ASSUME NEW l \in 1..(n + 1)
        PROVE  b[l] = t[l]
    <3>1. CASE l = n + 1
      <4>1. l - 1 = Level + 1
        BY <1>2, <3>1
      <4>2. \A p \in Params : b[l][p] = F[p]
        BY <1>6, <1>8, <4>1 DEF F
      <4> QED
        BY <1>9, <2>1, <2>2, <3>1, <4>2
    <3>2. CASE l # n + 1
      <4>1. l \in 1..n /\ l - 1 \in Nat
        BY <1>2, <3>2
      <4>2. \A p \in Params : b[l][p] = a[l][p]
        BY <1>5, <1>7, <1>8, <4>1 DEF o
      <4>3. b[l] \in [Params -> Seq(Values)] /\ a[l] \in [Params -> Seq(Values)]
        BY <2>2, <4>1
      <4>4. b[l] = a[l]
        BY <4>2, <4>3
      <4> QED
        BY <2>1, <4>1, <4>4
    <3> QED
      BY <3>1, <3>2
  <2> QED
    BY <1>8, <2>1, <2>3, SeqEqual DEF t
<1>11. Promised' = Append(Promised, F)
  BY <1>1, <1>3, <1>10, PromisedScopes
<1> QED
  BY <1>1, <1>11 DEF DS!EnterScope, DS!Fresh, Promised

LEMMA BindImplements ==
    ASSUME IInv, NEW p \in Params, NEW v \in Values, Bind(p, v)
    PROVE  DS!Bind(p, v)
<1> DEFINE e == [value |-> v, level |-> Level]
           s == Append(m_stack[p], e)
           o == Append(objects, Binding(p))
           ms == [m_stack EXCEPT ![p] = s]
           a == ScopesOf(m_stack, objects, Level)
           b == ScopesOf(ms, o, Level)
<1>1. /\ m_stack' = ms /\ objects' = o /\ Level' = Level /\ seen' = seen
  BY DEF Bind, Push, Level
<1>2. /\ e \in Pushed /\ e.level = Level /\ e.value = v /\ Level \in Nat
      /\ Binding(p) \in Object
  BY Invariants DEF Pushed, Object
<1>3. m_stack[p] \in Seq(Pushed) /\ Ordered(m_stack[p], Level) /\ Depth(objects) = Level
  BY Invariants DEF Balanced, Level
<1> HIDE DEF e
<1>4. s \in Seq(Pushed) /\ o \in Seq(Object)
  BY <1>2, <1>3, Invariants, Appended
<1>5. /\ ViewIn(p, s, o, Level) = Append(ViewIn(p, m_stack[p], objects, Level), v)
      /\ \A l \in Nat : l < Level => ViewIn(p, s, o, l) = ViewIn(p, m_stack[p], objects, l)
  <2>1. /\ ViewIn(p, s, o, e.level) = Append(ViewIn(p, m_stack[p], objects, e.level), e.value)
        /\ \A l \in Nat : l < e.level =>
             ViewIn(p, s, o, l) = ViewIn(p, m_stack[p], objects, l)
    <3>1. /\ objects \in Seq(Object) /\ Depth(objects) = e.level
          /\ Ordered(m_stack[p], e.level)
      BY <1>2, <1>3, Invariants
    <3> QED
      BY <1>2, <1>3, <3>1, ViewBind
  <2> QED
    BY <1>2, <2>1
<1>6. ASSUME NEW q \in Params, q # p, NEW l \in Nat
      PROVE  ViewIn(q, m_stack[q], o, l) = ViewIn(q, m_stack[q], objects, l)
  <2>1. Binding(p) # Binding(q)
    BY <1>6, KindsDiffer
  <2>2. /\ Cardinality(OwnedIn(objects, q, l)) \in Nat
        /\ Cardinality(OwnedIn(o, q, l)) =
             Cardinality(OwnedIn(objects, q, l))
               + (IF Binding(p) = Binding(q) /\ l = Depth(objects) THEN 1 ELSE 0)
    BY ZenonT(40), <1>2, Invariants, OwnedMade
  <2> HIDE DEF o
  <2>3. Cardinality(OwnedIn(o, q, l)) = Cardinality(OwnedIn(objects, q, l))
    BY <2>1, <2>2
  <2> QED
    BY <2>3, ViewObjects
<1> HIDE DEF s, o
<1>7. /\ ms \in [Params -> Seq(Pushed)] /\ ms[p] = s
      /\ \A q \in Params : q # p => ms[q] = m_stack[q]
  BY <1>4, Invariants
<1> HIDE DEF ms
<1>8. ASSUME NEW q \in Params, NEW l \in 0..Level, q # p \/ l # Level
      PROVE  ViewIn(q, ms[q], o, l) = ViewIn(q, m_stack[q], objects, l)
  <2>1. l \in Nat /\ (l # Level => l < Level)
    BY <1>2
  <2>2. CASE q = p
    BY <1>5, <1>7, <1>8, <2>1, <2>2
  <2>3. CASE q # p
    BY <1>6, <1>7, <2>1, <2>3
  <2> QED
    BY <2>2, <2>3
<1>9. b = Rebound(a, p, ViewIn(p, ms[p], o, Level))
  <2>1. m_stack \in [Params -> Seq(Pushed)] /\ objects \in Seq(Object) /\ Level \in Nat
    BY <1>2, Invariants
  <2>2. DiffersAt(ms, o, m_stack, objects, Level, p)
    BY <1>4, <1>7, <1>8, <2>1 DEF DiffersAt
  <2> QED
    BY <2>2, ScopesRebound
<1>10. Last(a)[p] = ViewIn(p, m_stack[p], objects, Level)
  BY ZenonT(40), <1>2, Invariants, ScopesFacts
<1> HIDE DEF a, b
<1>11. b = Rebound(a, p, Append(Last(a)[p], v))
  BY <1>5, <1>7, <1>9, <1>10
<1>12. Promised = a /\ Promised' = b
  BY <1>1, PromisedScopes DEF a, b
<1>13. Promised' = Rebound(Promised, p, Append(Last(Promised)[p], v))
  BY <1>11, <1>12
<1> QED
  BY <1>1, <1>13 DEF DS!Bind, DS!Rebind, Rebound, DS!Last, Last, Promised

LEMMA UnbindImplements ==
    ASSUME IInv, NEW p \in Params, Unbind(p)
    PROVE  DS!Unbind(p)
<1> DEFINE f == Front(m_stack[p])
           e == Last(m_stack[p])
           o == Front(objects)
           ms == [m_stack EXCEPT ![p] = f]
           a == ScopesOf(m_stack, objects, Level)
           b == ScopesOf(ms, o, Level)
           x == ViewIn(p, f, o, Level)
<1>1. /\ objects # <<>> /\ Last(objects) = Binding(p)
      /\ m_stack' = ms /\ objects' = o /\ Level' = Level /\ seen' = seen
  BY DEF Unbind, Level
<1>2. o \in Seq(Object) /\ objects = Append(o, Binding(p)) /\ Binding(p) \in Object
  BY <1>1, Invariants, LastOfSeq DEF Object
<1> HIDE DEF o
<1>3. Level \in Nat /\ Level = Len(m_scopes) /\ Depth(objects) = Level
  BY Invariants DEF Level
<1>4. Depth(o) = Level
  <2>1. Depth(Append(o, Binding(p))) = Depth(o) + (IF Binding(p) = Scope THEN 1 ELSE 0)
        /\ Depth(o) \in Nat
    BY <1>2, DepthMade
  <2>2. Binding(p) # Scope
    BY KindsDiffer
  <2>3. Depth(Append(o, Binding(p))) = Depth(o)
    BY <2>1, <2>2
  <2> QED
    BY Zenon, <1>2, <1>3, <2>3
<1>5. m_stack[p] \in Seq(Pushed) /\ Balanced(p, m_stack[p], Append(o, Binding(p)), m_scopes)
  BY <1>2, Invariants
<1>6. m_stack[p] # <<>> /\ e.level = Level /\ Balanced(p, f, o, m_scopes)
  BY <1>2, <1>3, <1>4, <1>5, Invariants, BalancedUnbind
<1>7. f \in Seq(Pushed) /\ e \in Pushed /\ m_stack[p] = Append(f, e)
  BY <1>5, <1>6, LastOfSeq
<1> HIDE DEF f, e
<1>8. Ordered(f, e.level)
  BY <1>3, <1>6 DEF Balanced
<1>9. /\ ViewIn(p, m_stack[p], objects, Level) = Append(x, e.value)
      /\ \A l \in Nat : l < Level => ViewIn(p, m_stack[p], objects, l) = ViewIn(p, f, o, l)
  <2>1. /\ ViewIn(p, Append(f, e), Append(o, Binding(p)), e.level)
             = Append(ViewIn(p, f, o, e.level), e.value)
        /\ \A l \in Nat : l < e.level =>
             ViewIn(p, Append(f, e), Append(o, Binding(p)), l) = ViewIn(p, f, o, l)
    BY SMTT(30), <1>2, <1>4, <1>6, <1>7, <1>8, ViewBind
  <2> QED
    BY Zenon, <1>2, <1>6, <1>7, <2>1
<1>10. x \in Seq(Values) /\ Len(x) \in Nat \ {0} /\ e.value \in Values
  BY <1>2, <1>3, <1>7, ViewFacts DEF Pushed
<1>11. ASSUME NEW q \in Params, q # p, NEW l \in Nat
       PROVE  ViewIn(q, m_stack[q], o, l) = ViewIn(q, m_stack[q], objects, l)
  <2>1. Binding(p) # Binding(q)
    BY <1>11, KindsDiffer
  <2>2. /\ Cardinality(OwnedIn(o, q, l)) \in Nat
        /\ Cardinality(OwnedIn(Append(o, Binding(p)), q, l)) =
             Cardinality(OwnedIn(o, q, l))
               + (IF Binding(p) = Binding(q) /\ l = Depth(o) THEN 1 ELSE 0)
    BY <1>2, OwnedMade
  <2>3. Cardinality(OwnedIn(Append(o, Binding(p)), q, l)) = Cardinality(OwnedIn(o, q, l))
    BY <2>1, <2>2
  <2>4. Cardinality(OwnedIn(o, q, l)) = Cardinality(OwnedIn(objects, q, l))
    BY Zenon, <1>2, <2>3
  <2> QED
    BY <2>4, ViewObjects
<1> HIDE DEF x
<1>12. /\ ms \in [Params -> Seq(Pushed)] /\ ms[p] = f
       /\ \A q \in Params : q # p => ms[q] = m_stack[q]
  BY <1>7, Invariants
<1> HIDE DEF ms
<1>13. ASSUME NEW q \in Params, NEW l \in 0..Level, q # p \/ l # Level
       PROVE  ViewIn(q, ms[q], o, l) = ViewIn(q, m_stack[q], objects, l)
  <2>1. l \in Nat /\ (l # Level => l < Level)
    BY <1>3
  <2>2. CASE q = p
    BY <1>9, <1>12, <1>13, <2>1, <2>2
  <2>3. CASE q # p
    BY <1>11, <1>12, <2>1, <2>3
  <2> QED
    BY <2>2, <2>3
<1>14. b = Rebound(a, p, ViewIn(p, ms[p], o, Level))
  <2>1. m_stack \in [Params -> Seq(Pushed)] /\ objects \in Seq(Object) /\ Level \in Nat
    BY Invariants
  <2>2. DiffersAt(ms, o, m_stack, objects, Level, p)
    BY <1>2, <1>12, <1>13, <2>1 DEF DiffersAt
  <2> QED
    BY <2>2, ScopesRebound
<1>15. Last(a)[p] = ViewIn(p, m_stack[p], objects, Level)
  BY <1>3, Invariants, ScopesFacts
<1> HIDE DEF a, b
<1>16. Front(Last(a)[p]) = x /\ Len(Last(a)[p]) > 1
  <2>1. Front(Append(x, e.value)) = x /\ Len(Append(x, e.value)) = Len(x) + 1
    BY <1>10, Appended
  <2>2. Last(a)[p] = Append(x, e.value)
    BY <1>9, <1>15
  <2> QED
    BY <1>10, <2>1, <2>2
<1>17. b = Rebound(a, p, Front(Last(a)[p]))
  BY <1>12, <1>14, <1>16 DEF x
<1>18. Promised = a /\ Promised' = b
  BY <1>1, PromisedScopes DEF a, b
<1>19. /\ Promised' = Rebound(Promised, p, Front(Last(Promised)[p]))
       /\ Len(Last(Promised)[p]) > 1
  BY <1>16, <1>17, <1>18
<1> QED
  BY <1>1, <1>19 DEF DS!Unbind, DS!Rebind, Rebound, DS!Last, DS!Front, Last, Front, Promised

\* Making the default changes nothing that is seen.
LEMMA ResolvedView ==
    ASSUME IInv, NEW p \in Params
    PROVE  /\ ScopesOf(Resolved(p), objects, Level) = ScopesOf(m_stack, objects, Level)
           /\ Last(ScopesOf(m_stack, objects, Level))[p]
                = ViewIn(p, Resolved(p)[p], objects, Level)
<1> DEFINE r == Resolved(p)
           e == [value |-> Default(p), level |-> Level]
<1>1. Level \in Nat /\ m_stack \in [Params -> Seq(Pushed)] /\ objects \in Seq(Object)
  BY Invariants
<1>2. ASSUME NEW q \in Params, NEW l \in 0..Level
      PROVE  ViewIn(q, r[q], objects, l) = ViewIn(q, m_stack[q], objects, l)
  <2>1. CASE q # p
    BY <2>1, ResolvedFacts
  <2>2. CASE q = p /\ ~NeedsDefault(p)
    BY <2>2 DEF Resolved
  <2>3. CASE q = p /\ NeedsDefault(p)
    <3> DEFINE s == m_stack[p]
    <3>1. r[p] = Append(s, e)
      BY <1>1, <2>3 DEF Resolved, Push
    <3>2. s = <<>> \/ Last(s).level < Level
      BY <2>3 DEF NeedsDefault
    <3>3. /\ s \in Seq(Pushed) /\ Ordered(s, Level) /\ Depth(objects) = Len(m_scopes)
          /\ m_scopes \in Seq(Seq(Params)) /\ Balanced(p, s, objects, m_scopes)
          /\ Level = Len(m_scopes)
      BY Invariants DEF Balanced, Level
    <3>4. e \in Pushed /\ e.level = Level /\ e.value = Default(p)
      BY <1>1, ImplicitAssumption DEF Pushed
    <3> HIDE DEF e, s
    <3>5. AtIn(s, Level) = {} /\ OwnedIn(objects, p, Level) = {}
      BY <1>1, <3>2, <3>3, <3>4, BalancedDefault
    <3>6. l \in Nat /\ (l # Level => l < Level)
      BY <1>1
    <3>7. CASE l = Level
      <4>1. ViewIn(p, Append(s, e), objects, e.level) = <<Default(p)>>
        BY <3>3, <3>4, <3>5, ViewDefault
      <4>2. ViewIn(p, s, objects, Level) = <<Default(p)>>
        BY <1>1, <3>3, <3>5, ViewFresh
      <4> QED
        BY Zenon, <2>3, <3>1, <3>4, <3>7, <4>1, <4>2 DEF s
    <3>8. CASE l # Level
      <4>1. ViewIn(p, Append(s, e), objects, l) = ViewIn(p, s, objects, l)
        BY <3>3, <3>4, <3>6, <3>8, ViewBelow
      <4> QED
        BY Zenon, <2>3, <3>1, <4>1 DEF s
    <3> QED
      BY <3>7, <3>8
  <2> QED
    BY <2>1, <2>2, <2>3
<1>3. ScopesOf(r, objects, Level) = ScopesOf(m_stack, objects, Level)
  <2> HIDE DEF r
  <2> QED
    BY <1>1, <1>2, SameScopes
<1>4. Last(ScopesOf(m_stack, objects, Level))[p] = ViewIn(p, m_stack[p], objects, Level)
  BY <1>1, ScopesFacts
<1>5. ViewIn(p, r[p], objects, Level) = ViewIn(p, m_stack[p], objects, Level)
  BY <1>1, <1>2
<1> QED
  BY <1>3, <1>4, <1>5

LEMMA ReadImplements ==
    ASSUME IInv, NEW p \in Params, Read(p)
    PROVE  DS!Read(p)
<1> DEFINE s == Resolved(p)[p]
           f == Front(s)
           e == Last(s)
           a == ScopesOf(m_stack, objects, Level)
<1>1. /\ m_stack' = Resolved(p) /\ m_scopes' = Noted(p) /\ objects' = objects
      /\ seen' = e.value
  BY DEF Read
<1>2. Level' = Level
  BY <1>1, ResolvedFacts DEF Level
<1>3. /\ s \in Seq(Pushed) /\ s # <<>> /\ e \in Pushed /\ e.level = Level
      /\ Ordered(s, Level)
  <2>1. Balanced(p, s, objects, Noted(p)) /\ Len(Noted(p)) = Level
    BY ResolvedFacts
  <2>2. Ordered(s, Level)
    BY <2>1 DEF Balanced
  <2> QED
    BY <2>2, ResolvedFacts
<1> HIDE DEF s
<1>4. f \in Seq(Pushed) /\ s = Append(f, e)
  BY <1>3, LastOfSeq
<1> HIDE DEF e, f
<1>5. Ordered(f, e.level)
  BY <1>3, <1>4, OrderPop, Invariants
<1>6. PICK x \in Seq(Values) : ViewIn(p, s, objects, Level) = Append(x, e.value)
  <2>1. /\ Under(p, f, objects, e.level) \in Seq(Values)
        /\ ViewIn(p, Append(f, e), objects, e.level)
             = Append(Under(p, f, objects, e.level), e.value)
    BY <1>3, <1>4, <1>5, ViewTop
  <2>2. ViewIn(p, s, objects, Level) = Append(Under(p, f, objects, e.level), e.value)
    BY Zenon, <1>3, <1>4, <2>1
  <2> QED
    BY <2>1, <2>2
<1>7. Last(a)[p] = Append(x, e.value)
  BY <1>6, ResolvedView DEF s
<1>8. Last(Last(a)[p]) = e.value
  <2>1. e.value \in Values
    BY <1>3 DEF Pushed
  <2>2. Last(Append(x, e.value)) = e.value
    BY <2>1, Appended
  <2> QED
    BY Zenon, <1>7, <2>2
<1>9. Promised = a /\ Promised' = a
  BY <1>1, <1>2, ResolvedView, PromisedScopes
<1> HIDE DEF a
<1>10. seen' = Last(Last(Promised)[p]) /\ Promised' = Promised
  BY <1>1, <1>8, <1>9
<1> QED
  BY <1>10 DEF DS!Read, DS!Last, Last, Promised

LEMMA WriteImplements ==
    ASSUME IInv, NEW p \in Params, NEW v \in Values, Write(p, v)
    PROVE  DS!Write(p, v)
<1> DEFINE s == Resolved(p)[p]
           f == Front(s)
           e == Last(s)
           d == [value |-> v, level |-> Level]
           a == ScopesOf(m_stack, objects, Level)
<1>2. m_scopes' = Noted(p) /\ objects' = objects /\ seen' = seen
  BY DEF Write
<1>3. Level' = Level /\ Level \in Nat
  BY <1>2, ResolvedFacts, Invariants DEF Level
<1>4. /\ s \in Seq(Pushed) /\ s # <<>> /\ e \in Pushed /\ e.level = Level
      /\ Ordered(s, Level) /\ Resolved(p) \in [Params -> Seq(Pushed)]
  <2>1. Balanced(p, s, objects, Noted(p)) /\ Len(Noted(p)) = Level
    BY ResolvedFacts
  <2>2. Ordered(s, Level)
    BY <2>1 DEF Balanced
  <2> QED
    BY <2>2, ResolvedFacts
<1>5. /\ m_stack' \in [Params -> Seq(Pushed)]
      /\ \A q \in Params : q # p => m_stack'[q] = m_stack[q]
      /\ Len(m_stack'[p]) = Len(s)
      /\ \A k \in DOMAIN s : m_stack'[p][k] = IF k = Len(m_stack'[p]) THEN d ELSE s[k]
  BY Written
<1>6. \A q \in Params : q # p => m_stack'[q] = Resolved(p)[q]
  BY <1>5, ResolvedFacts
<1> HIDE DEF s
<1>7. /\ f \in Seq(Pushed) /\ s = Append(f, e) /\ Len(f) = Len(s) - 1
      /\ Len(s) \in Nat \ {0} /\ \A k \in 1..(Len(s) - 1) : f[k] = s[k]
  BY <1>4, LastOfSeq
<1>8. d \in Pushed /\ d.level = Level /\ d.value = v
  BY <1>3 DEF Pushed
<1> HIDE DEF e, f, d
<1>9. m_stack'[p] = Append(f, d)
  <2> DEFINE t == Append(f, d)
             n == Len(s)
  <2>1. /\ t \in Seq(Pushed) /\ Len(t) = Len(f) + 1
        /\ \A k \in 1..Len(f) : t[k] = f[k]
        /\ t[Len(f) + 1] = d
    BY <1>7, <1>8, Appended
  <2>2. m_stack'[p] \in Seq(Pushed) /\ DOMAIN s = 1..Len(s)
    BY <1>4, <1>5, LenProperties
  <2> HIDE DEF t
  <2>3. Len(t) = n /\ t[n] = d /\ \A k \in 1..(n - 1) : t[k] = s[k]
    BY <1>7, <2>1
  <2>4. \A k \in 1..n : m_stack'[p][k] = t[k]
    BY <1>5, <1>7, <2>2, <2>3
  <2> QED
    BY <1>5, <2>1, <2>2, <2>3, <2>4, SeqEqual DEF t
<1>10. Ordered(f, e.level)
  BY <1>3, <1>4, <1>7, OrderPop
<1>11. PICK x \in Seq(Values) :
         /\ ViewIn(p, s, objects, Level) = Append(x, e.value)
         /\ ViewIn(p, m_stack'[p], objects, Level) = Append(x, v)
  <2> DEFINE x == Under(p, f, objects, Level)
  <2>1. x \in Seq(Values) /\ ViewIn(p, Append(f, e), objects, Level) = Append(x, e.value)
    <3>1. /\ Under(p, f, objects, e.level) \in Seq(Values)
          /\ ViewIn(p, Append(f, e), objects, e.level)
               = Append(Under(p, f, objects, e.level), e.value)
      BY ZenonT(40), <1>4, <1>7, <1>10, ViewTop
    <3> QED
      BY Zenon, <1>4, <3>1
  <2>2. ViewIn(p, Append(f, d), objects, Level) = Append(x, v)
    <3>1. Ordered(f, d.level)
      BY Zenon, <1>4, <1>8, <1>10
    <3>2. ViewIn(p, Append(f, d), objects, d.level)
            = Append(Under(p, f, objects, d.level), d.value)
      BY <1>7, <1>8, <3>1, ViewTop
    <3> QED
      BY Zenon, <1>8, <3>2
  <2>3. /\ ViewIn(p, s, objects, Level) = Append(x, e.value)
        /\ ViewIn(p, m_stack'[p], objects, Level) = Append(x, v)
    BY Zenon, <1>7, <1>9, <2>1, <2>2
  <2> HIDE DEF x
  <2> QED
    BY <2>1, <2>3
<1>12. ASSUME NEW q \in Params, NEW l \in 0..Level, q # p \/ l # Level
       PROVE  ViewIn(q, m_stack'[q], objects, l) = ViewIn(q, Resolved(p)[q], objects, l)
  <2>1. CASE q # p
    BY <1>6, <2>1
  <2>2. CASE q = p
    <3>1. l \in Nat /\ l < Level
      BY <1>3, <1>12, <2>2
    <3>2. ViewIn(p, Append(f, e), objects, l) = ViewIn(p, f, objects, l)
      BY <1>4, <1>7, <1>10, <3>1, ViewBelow
    <3>3. ViewIn(p, Append(f, d), objects, l) = ViewIn(p, f, objects, l)
      BY <1>4, <1>7, <1>8, <1>10, <3>1, ViewBelow
    <3> QED
      BY Zenon, <1>7, <1>9, <2>2, <3>2, <3>3 DEF s
  <2> QED
    BY <2>1, <2>2
<1> DEFINE b == ScopesOf(m_stack', objects, Level)
           r == ScopesOf(Resolved(p), objects, Level)
<1>13. b = Rebound(r, p, ViewIn(p, m_stack'[p], objects, Level))
  <2>1. objects \in Seq(Object)
    BY Invariants
  <2>2. DiffersAt(m_stack', objects, Resolved(p), objects, Level, p)
    BY <1>3, <1>4, <1>5, <1>12, <2>1 DEF DiffersAt
  <2> QED
    BY <2>2, ScopesRebound
<1>14. r = a /\ Last(a)[p] = Append(x, e.value)
  BY <1>11, ResolvedView DEF s
<1> HIDE DEF a, b, r
<1>15. Append(Front(Last(a)[p]), v) = Append(x, v)
  <2>1. e.value \in Values
    BY <1>4 DEF Pushed
  <2>2. Front(Append(x, e.value)) = x
    BY <2>1, Appended
  <2> QED
    BY Zenon, <1>14, <2>2
<1>16. b = Rebound(a, p, Append(Front(Last(a)[p]), v))
  BY <1>11, <1>13, <1>14, <1>15
<1>17. Promised = a /\ Promised' = b
  BY <1>2, <1>3, PromisedScopes DEF a, b
<1>18. Promised' = Rebound(Promised, p, Append(Front(Last(Promised)[p]), v))
  BY <1>16, <1>17
<1> QED
  BY <1>2, <1>18 DEF DS!Write, DS!Rebind, Rebound, DS!Last, DS!Front, Last, Front, Promised

LEMMA LeaveImplements ==
    ASSUME IInv, LeaveScope
    PROVE  DS!LeaveScope
<1>1. PICK o \in Seq(Object), m \in Seq(Seq(Params)), n \in Seq(Params) :
        /\ objects = Append(o, Scope) /\ objects' = o
        /\ m_scopes = Append(m, n) /\ m_scopes' = m
        /\ Depth(o) = Len(m)
        /\ m_stack' = [p \in Params |-> Rest(m_stack[p], n, p)]
        /\ seen' = seen
  BY LeaveFacts
<1> DEFINE top == Len(m)
           ms == m_stack'
           a == ScopesOf(m_stack, objects, Level)
           b == ScopesOf(m_stack', o, Len(m))
<1>2. top \in Nat /\ Level = top + 1 /\ Level' = top
  <2>1. Len(Append(m, n)) = Len(m) + 1 /\ Len(m) \in Nat
    BY Appended
  <2> QED
    BY <1>1, <2>1 DEF Level
<1>3. ASSUME NEW p \in Params
      PROVE  /\ m_stack'[p] \in Seq(Pushed) /\ m_stack[p] \in Seq(Pushed)
             /\ \/ m_stack'[p] = m_stack[p]
                \/ /\ Last(m_stack[p]) \in Pushed /\ Last(m_stack[p]).level = Len(m) + 1
                   /\ Ordered(m_stack'[p], Last(m_stack[p]).level)
                   /\ m_stack[p] = Append(m_stack'[p], Last(m_stack[p]))
             /\ Cardinality(AtIn(m_stack[p], Len(m) + 1)) \in {0, 1}
             /\ Cardinality(OwnedIn(objects, p, Len(m) + 1)) = 0
  <2>1. Balanced(p, m_stack[p], Append(o, Scope), Append(m, n)) /\ m_stack[p] \in Seq(Pushed)
    BY <1>1, Invariants
  <2>2. m_stack'[p] = Rest(m_stack[p], n, p)
    BY <1>1
  <2> QED
    <3>1. /\ m_stack'[p] \in Seq(Pushed)
          /\ \/ m_stack'[p] = m_stack[p]
             \/ /\ Last(m_stack[p]) \in Pushed /\ Last(m_stack[p]).level = Len(m) + 1
                /\ Ordered(m_stack'[p], Last(m_stack[p]).level)
                /\ m_stack[p] = Append(m_stack'[p], Last(m_stack[p]))
          /\ Cardinality(AtIn(m_stack[p], Len(m) + 1)) \in {0, 1}
          /\ Cardinality(OwnedIn(Append(o, Scope), p, Len(m) + 1)) = 0
      BY <1>1, <2>1, <2>2, BalancedLeave
    <3> QED
      BY Zenon, <1>1, <2>1, <3>1
<1>4. m_stack' \in [Params -> Seq(Pushed)]
  BY <1>1, <1>3
<1>5. ASSUME NEW p \in Params, NEW l \in 0..top
      PROVE  ViewIn(p, m_stack'[p], o, l) = ViewIn(p, m_stack[p], objects, l)
  <2>1. l \in Nat /\ l < top + 1
    BY <1>2
  <2>2. ViewIn(p, m_stack[p], objects, l) = ViewIn(p, m_stack[p], o, l)
    <3>1. OwnedIn(Append(o, Scope), p, l) = OwnedIn(o, p, l)
      BY <2>1, OwnedUnderScope
    <3>2. Cardinality(OwnedIn(objects, p, l)) = Cardinality(OwnedIn(o, p, l))
      BY Zenon, <1>1, <3>1
    <3> QED
      BY <3>2, ViewObjects
  <2>3. ViewIn(p, m_stack[p], o, l) = ViewIn(p, m_stack'[p], o, l)
    <3>1. CASE m_stack'[p] = m_stack[p]
      BY Zenon, <3>1
    <3>2. CASE m_stack'[p] # m_stack[p]
      <4> DEFINE e == Last(m_stack[p])
      <4>1. /\ e \in Pushed /\ e.level = Len(m) + 1 /\ Ordered(m_stack'[p], e.level)
            /\ m_stack[p] = Append(m_stack'[p], e)
        BY <1>3, <3>2
      <4> HIDE DEF e
      <4>2. ViewIn(p, Append(m_stack'[p], e), o, l) = ViewIn(p, m_stack'[p], o, l)
        BY <1>3, <2>1, <4>1, ViewBelow
      <4> QED
        BY Zenon, <4>1, <4>2
    <3> QED
      BY <3>1, <3>2
  <2> QED
    BY <2>2, <2>3
<1>6. ASSUME NEW p \in Params
      PROVE  Len(ViewIn(p, m_stack[p], objects, Level)) = 1
  <2> DEFINE s == m_stack[p]
  <2>1. /\ s \in Seq(Pushed) /\ Level \in Nat
        /\ Cardinality(AtIn(s, Level)) \in {0, 1}
        /\ Cardinality(OwnedIn(objects, p, Level)) = 0
    BY <1>2, <1>3
  <2> HIDE DEF s
  <2>2. /\ ValuesIn(s, Level) \in Seq(Values)
        /\ Len(ValuesIn(s, Level)) = Cardinality(AtIn(s, Level))
    BY <2>1, ValuesFacts
  <2>3. CASE Cardinality(AtIn(s, Level)) = 1
    <3>1. ViewIn(p, s, objects, Level) = ValuesIn(s, Level)
      BY <2>1, <2>3 DEF ViewIn
    <3> QED
      BY <2>2, <2>3, <3>1 DEF s
  <2>4. CASE Cardinality(AtIn(s, Level)) = 0
    <3>1. ViewIn(p, s, objects, Level) = <<Default(p)>> \o ValuesIn(s, Level)
      BY <2>1, <2>4 DEF ViewIn
    <3>2. Len(<<Default(p)>> \o ValuesIn(s, Level)) = 0 + 1
      BY <2>2, <2>4, ImplicitAssumption, SingletonAppend
    <3> QED
      BY <3>1, <3>2 DEF s
  <2> QED
    BY <2>1, <2>3, <2>4
<1> HIDE DEF top
<1>7. /\ a \in Seq([Params -> Seq(Values)]) /\ Len(a) = Level + 1
      /\ \A p \in Params : Last(a)[p] = ViewIn(p, m_stack[p], objects, Level)
      /\ \A l \in 1..(Level + 1), p \in Params : a[l][p] = ViewIn(p, m_stack[p], objects, l - 1)
  BY Invariants, ScopesFacts
<1>8. /\ b \in Seq([Params -> Seq(Values)]) /\ Len(b) = top + 1
      /\ \A l \in 1..(top + 1), p \in Params : b[l][p] = ViewIn(p, m_stack'[p], o, l - 1)
  BY <1>1, <1>2, <1>4, ScopesFacts DEF top
<1> HIDE DEF a, b
<1>9. a # <<>> /\ Len(a) > 1
  BY <1>2, <1>7, EmptySeq
<1>10. /\ Front(a) \in Seq([Params -> Seq(Values)]) /\ Len(Front(a)) = top + 1
       /\ \A l \in 1..(top + 1) : Front(a)[l] = a[l]
  <2>1. /\ Front(a) \in Seq([Params -> Seq(Values)]) /\ Len(Front(a)) = Len(a) - 1
        /\ \A l \in 1..(Len(a) - 1) : Front(a)[l] = a[l]
    BY <1>7, <1>9, LastOfSeq
  <2>2. Len(a) - 1 = top + 1
    BY <1>2, <1>7
  <2> QED
    BY <2>1, <2>2
<1>11. b = Front(a)
  <2>1. ASSUME NEW l \in 1..(top + 1)
        PROVE  b[l] = Front(a)[l]
    <3>1. l \in 1..(Level + 1) /\ l - 1 \in 0..top
      BY <1>2
    <3>2. ASSUME NEW p \in Params
          PROVE  b[l][p] = a[l][p]
      <4>1. b[l][p] = ViewIn(p, m_stack'[p], o, l - 1)
        BY <1>8
      <4>2. a[l][p] = ViewIn(p, m_stack[p], objects, l - 1)
        BY <1>7, <3>1
      <4>3. ViewIn(p, m_stack'[p], o, l - 1) = ViewIn(p, m_stack[p], objects, l - 1)
        BY <1>5, <3>1
      <4> QED
        BY Zenon, <4>1, <4>2, <4>3
    <3>3. b[l] \in [Params -> Seq(Values)] /\ Front(a)[l] \in [Params -> Seq(Values)]
      BY <1>8, <1>10, LenProperties
    <3>4. Front(a)[l] = a[l]
      BY <1>10
    <3>5. \A p \in Params : b[l][p] = Front(a)[l][p]
      BY <3>2, <3>4
    <3> QED
      BY <3>3, <3>5
  <2> QED
    BY <1>8, <1>10, <2>1, SeqEqual
<1>12. Promised = a /\ Promised' = b
  BY <1>1, <1>2, PromisedScopes DEF a, b, top
<1>13. /\ Len(Promised) > 1 /\ \A p \in Params : Len(Last(Promised)[p]) = 1
       /\ Promised' = Front(Promised) /\ seen' = seen
  BY <1>1, <1>6, <1>7, <1>9, <1>11, <1>12
<1> QED
  BY <1>13 DEF DS!LeaveScope, DS!Last, DS!Front, Last, Front, Promised

\* The stacks and the scopes that are filled in only when somebody looks are
\* dynamic scoping as ImplicitParam.h promises it: a scope rebinds everything
\* at once, a binding hides the ones before it, and leaving restores them.
THEOREM ImplementsDynamicScope == Spec => IsDynamicScoping
<1>1. Init => DS!Init
  BY StartsFresh
<1>2. ASSUME IInv, [Next]_vars
      PROVE  [DS!Next]_(DS!dsVars)
  <2>1. ASSUME EnterScope
        PROVE  DS!Next
    BY <1>2, <2>1, EnterImplements DEF DS!Next
  <2>2. ASSUME LeaveScope
        PROVE  DS!Next
    BY <1>2, <2>2, LeaveImplements DEF DS!Next
  <2>3. ASSUME NEW p \in Params, Unbind(p)
        PROVE  DS!Next
    BY <1>2, <2>3, UnbindImplements DEF DS!Next
  <2>4. ASSUME NEW p \in Params, Read(p)
        PROVE  DS!Next
    BY <1>2, <2>4, ReadImplements DEF DS!Next
  <2>5. ASSUME NEW p \in Params, NEW v \in Values, Bind(p, v)
        PROVE  DS!Next
    BY <1>2, <2>5, BindImplements DEF DS!Next
  <2>6. ASSUME NEW p \in Params, NEW v \in Values, Write(p, v)
        PROVE  DS!Next
    BY <1>2, <2>6, WriteImplements DEF DS!Next
  <2>7. ASSUME UNCHANGED vars
        PROVE  UNCHANGED DS!dsVars
    <3>1. m_stack' = m_stack /\ objects' = objects /\ seen' = seen /\ Level' = Level
      BY <2>7 DEF vars, Level
    <3>2. Promised' = Promised
      BY <3>1, PromisedScopes
    <3> QED
      BY <3>1, <3>2 DEF DS!dsVars, Promised
  <2> QED
    BY <1>2, <2>1, <2>2, <2>3, <2>4, <2>5, <2>6, <2>7 DEF Next
<1> QED
  BY Invariance, <1>1, <1>2, PTL DEF Spec, IsDynamicScoping, DS!Spec

=============================================================================
