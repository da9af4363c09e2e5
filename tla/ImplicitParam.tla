--------------------------- MODULE ImplicitParam ---------------------------
(***************************************************************************)
(* Implicit parameters: ImplicitParam<Param> and ImplicitScope             *)
(* (src/include/rapidcheck/detail/ImplicitParam.hpp,                       *)
(* src/src/detail/ImplicitParam.cpp).                                      *)
(*                                                                         *)
(* Each parameter has one static stack of bindings, and there is one       *)
(* static stack of scopes.  A scope does not touch the bindings when it is *)
(* entered.  The first look at a parameter inside it pushes the default,   *)
(* marked with the scope level, and leaves a note in the scope to pop it.  *)
(* The objects live on the C++ call stack, so they die in the reverse of   *)
(* the order they were made, whether by a return or by an exception.       *)
(***************************************************************************)
EXTENDS Integers, Sequences, SequencesExt, FiniteSets

CONSTANTS
    Params,       \* the instantiations of ImplicitParam
    Values,       \* the values bound to them
    Default(_),   \* Param::defaultValue()
    MaxObjects    \* bound: ImplicitParam and ImplicitScope objects alive at once

ASSUME ImplicitAssumption ==
    /\ MaxObjects \in Nat
    /\ \A p \in Params : Default(p) \in Values

Scope      == [kind |-> "scope"]
Binding(p) == [kind |-> "binding", param |-> p]

VARIABLES
    m_stack,    \* parameter -> Seq of bindings [value, level]
    m_scopes,   \* Seq of scopes, each the Seq of parameters it must pop
    objects,    \* the C++ objects alive, in the order they were made
    seen        \* the answer the last look at a parameter got

vars == <<m_stack, m_scopes, objects, seen>>

Level == Len(m_scopes)

Push(p, v) == [m_stack EXCEPT ![p] = Append(@, [value |-> v, level |-> Level])]

-----------------------------------------------------------------------------
\* ImplicitScope::ImplicitScope()
EnterScope ==
    /\ Len(objects) < MaxObjects
    /\ m_scopes' = Append(m_scopes, <<>>)
    /\ objects' = Append(objects, Scope)
    /\ UNCHANGED <<m_stack, seen>>

\* ImplicitParam::ImplicitParam(value)
Bind(p, v) ==
    /\ Len(objects) < MaxObjects
    /\ m_stack' = Push(p, v)
    /\ objects' = Append(objects, Binding(p))
    /\ UNCHANGED <<m_scopes, seen>>

\* Mutant: a binding of an outer scope is taken for one of this scope.
NeedsDefault_OuterCounts(p) == m_stack[p] = <<>>

\* The condition under which value() makes a default binding first.
NeedsDefault(p) == m_stack[p] = <<>> \/ Last(m_stack[p]).level < Level

\* The bindings once value() has made sure there is one.
Resolved(p) == IF NeedsDefault(p) THEN Push(p, Default(p)) ELSE m_stack

\* Mutant: the scope is not told to pop the default.
Noted_Never(p) == m_scopes

\* The scopes then: the innermost one, if any, is told to pop the default.
Noted(p) == IF NeedsDefault(p) /\ m_scopes # <<>>
              THEN [m_scopes EXCEPT ![Level] = Append(@, p)]
              ELSE m_scopes

\* A caller reads through the reference that value() returns.
Read(p) ==
    /\ m_stack' = Resolved(p) /\ m_scopes' = Noted(p)
    /\ seen' = Last(Resolved(p)[p]).value
    /\ UNCHANGED objects

\* A caller writes through it.
Write(p, v) ==
    /\ m_stack' = [Resolved(p) EXCEPT ![p][Len(Resolved(p)[p])].value = v]
    /\ m_scopes' = Noted(p)
    /\ UNCHANGED <<objects, seen>>

\* ImplicitParam::~ImplicitParam()
Unbind(p) ==
    /\ objects # <<>> /\ Last(objects) = Binding(p)
    /\ m_stack' = [m_stack EXCEPT ![p] = Front(@)]
    /\ objects' = Front(objects)
    /\ UNCHANGED <<m_scopes, seen>>

\* ImplicitScope::~ImplicitScope() runs every note of the scope, then drops it.
LeaveScope ==
    /\ objects # <<>> /\ Last(objects) = Scope
    /\ m_stack' = [p \in Params |->
                     LET notes == Cardinality({k \in DOMAIN Last(m_scopes) :
                                                 Last(m_scopes)[k] = p})
                     IN SubSeq(m_stack[p], 1, Len(m_stack[p]) - notes)]
    /\ m_scopes' = Front(m_scopes)
    /\ objects' = Front(objects)
    /\ UNCHANGED seen

-----------------------------------------------------------------------------
Init ==
    /\ m_stack = [p \in Params |-> <<>>]
    /\ m_scopes = <<>>
    /\ objects = <<>>
    /\ seen \in Values

Next ==
    \/ EnterScope \/ LeaveScope
    \/ \E p \in Params : Unbind(p) \/ Read(p)
    \/ \E p \in Params, v \in Values : Bind(p, v) \/ Write(p, v)

Spec == Init /\ [][Next]_vars

-----------------------------------------------------------------------------
(* Invariants *)

\* The bindings that live objects pushed, by scope level.
Owned(p, l) ==
    {k \in DOMAIN objects :
       /\ objects[k] = Binding(p)
       /\ Cardinality({j \in 1..k : objects[j] = Scope}) = l}

At(p, l) == {k \in DOMAIN m_stack[p] : m_stack[p][k].level = l}

Notes(p, l) == {k \in DOMAIN m_scopes[l] : m_scopes[l][k] = p}

\* Every binding has exactly one party that will pop it: each stack is ordered
\* by level, and at each level it holds what the live objects of that level
\* pushed, below them at most one default, which is noted in the scope (or, with
\* no scope open, stays).  So no destructor pops an empty stack or a binding
\* that is not its own (popStackBinding, ~ImplicitParam, ~ImplicitScope).
EveryBindingHasOnePopper ==
    \A p \in Params :
      /\ \A j, k \in DOMAIN m_stack[p] :
           j <= k => m_stack[p][j].level <= m_stack[p][k].level
      /\ \A k \in DOMAIN m_stack[p] : m_stack[p][k].level <= Level
      /\ \A l \in 1..Level :
           Cardinality(At(p, l)) = Cardinality(Owned(p, l)) + Cardinality(Notes(p, l))
      /\ Cardinality(At(p, 0)) - Cardinality(Owned(p, 0)) \in {0, 1}

(* Refinement *)

\* What the promise of ImplicitParam.h makes of the stacks: the bindings of p at
\* level l, which lie together, on top of a default if none was pushed there.
Bindings(p, l) ==
    LET below  == Cardinality({k \in DOMAIN m_stack[p] : m_stack[p][k].level < l})
        pushed == Cardinality(At(p, l))
        values == [k \in 1..pushed |-> m_stack[p][below + k].value]
    IN IF Cardinality(Owned(p, l)) < pushed THEN values
       ELSE <<Default(p)>> \o values

DS == INSTANCE DynamicScope WITH
        scopes <- [l \in 1..(Level + 1) |-> [p \in Params |-> Bindings(p, l - 1)]]

\* The lazy stacks are dynamic scoping with eager defaults: what a look at a
\* parameter gives, and what a scope or a binding restores when it is left, is
\* what DynamicScope says (ImplicitParam.hpp:9-38, ImplicitParam.cpp:6-13).
IsDynamicScoping == DS!Spec
=============================================================================
