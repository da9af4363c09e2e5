----------------------------- MODULE SharedImpl -----------------------------
(***************************************************************************)
(* The intrusive reference count of Gen and Shrinkable (Gen.hpp,           *)
(* Shrinkable.hpp).  A handle points to an implementation on the heap,     *)
(* whose value may have captured another handle: a mapped generator, the   *)
(* shrinks of a shrinkable.  retain and release are atomic, one step each; *)
(* everything else of an operation touches handles that no other thread    *)
(* may touch meanwhile, which is what C++ asks of the program, and is      *)
(* folded into its first step.                                             *)
(***************************************************************************)
EXTENDS Integers, Sequences, FiniteSets

CONSTANTS
    Threads,
    Handles,    \* places for a Gen or a Shrinkable
    Impls,      \* places on the heap
    Null        \* nullptr: a handle that was moved from

ASSUME NullAssumption == Null \notin Impls

VARIABLES
    handle,     \* the handles that exist |-> m_impl
    alive,      \* the implementations that are allocated
    captured,   \* implementation |-> the m_impl of the handle it captured, or Null
    count,      \* m_count
    todo,       \* thread |-> the calls left of the operation it is in
    reads,      \* thread |-> the handles the operation reads
    writes      \* thread |-> the handles the operation changes

vars == <<handle, alive, captured, count, todo, reads, writes>>

\* impl->retain() and impl->release(), the latter only if (m_impl).
Retain(impl)  == <<<<"retain", impl>>>>
Release(impl) == IF impl = Null THEN <<>> ELSE <<<<"release", impl>>>>

With(h, impl) == [g \in DOMAIN handle \cup {h} |-> IF g = h THEN impl ELSE handle[g]]

-----------------------------------------------------------------------------
\* Thread t begins an operation that reads rs, changes ws and makes the calls cs.
Begin(t, rs, ws, cs) ==
    /\ todo[t] = <<>>
    /\ \A u \in Threads \ {t} :
         todo[u] # <<>> => /\ ws \cap (reads[u] \cup writes[u]) = {}
                           /\ rs \cap writes[u] = {}
    /\ todo'   = [todo EXCEPT ![t] = cs]
    /\ reads'  = [reads EXCEPT ![t] = rs]
    /\ writes' = [writes EXCEPT ![t] = ws]

\* makeShrinkable and Gen(Impl &&), of an implementation that captured nothing.
Make(t, h, impl) ==
    /\ h \notin DOMAIN handle /\ impl \notin alive
    /\ Begin(t, {}, {h}, <<>>)
    /\ handle' = With(h, impl) /\ alive' = alive \cup {impl}
    /\ captured' = [captured EXCEPT ![impl] = Null]
    /\ count' = [count EXCEPT ![impl] = 1]

\* The same, with a copy of src captured.
MakeFrom(t, h, impl, src) ==
    /\ h \notin DOMAIN handle /\ impl \notin alive
    /\ src \in DOMAIN handle /\ handle[src] # Null
    /\ Begin(t, {src}, {h}, Retain(handle[src]))
    /\ handle' = With(h, impl) /\ alive' = alive \cup {impl}
    /\ captured' = [captured EXCEPT ![impl] = handle[src]]
    /\ count' = [count EXCEPT ![impl] = 1]

\* The copy constructor; other is not a handle that was moved from.
CopyConstruct(t, h, other) ==
    /\ h \notin DOMAIN handle
    /\ other \in DOMAIN handle /\ handle[other] # Null
    /\ Begin(t, {other}, {h}, Retain(handle[other]))
    /\ handle' = With(h, handle[other])
    /\ UNCHANGED <<alive, captured, count>>

\* A call of generate or shrinks on other, which returns a copy of what its
\* implementation captured.
CopyCaptured(t, h, other) ==
    /\ h \notin DOMAIN handle
    /\ other \in DOMAIN handle /\ handle[other] # Null
    /\ captured[handle[other]] # Null
    /\ Begin(t, {other}, {h}, Retain(captured[handle[other]]))
    /\ handle' = With(h, captured[handle[other]])
    /\ UNCHANGED <<alive, captured, count>>

\* Mutant: what is assigned to lets go before it takes hold.
AssignCalls_ReleaseFirst(h, rhs) == Release(handle[h]) \o Retain(handle[rhs])

AssignCalls(h, rhs) == Retain(handle[rhs]) \o Release(handle[h])

\* The copy assignment, to itself too.
CopyAssign(t, h, rhs) ==
    /\ h \in DOMAIN handle
    /\ rhs \in DOMAIN handle /\ handle[rhs] # Null
    /\ Begin(t, {rhs}, {h}, AssignCalls(h, rhs))
    /\ handle' = [handle EXCEPT ![h] = handle[rhs]]
    /\ UNCHANGED <<alive, captured, count>>

\* m_impl is moved from one handle to the other: nulled last, so that a handle
\* moved to itself is null.
Moved(to, from) == [With(to, handle[from]) EXCEPT ![from] = Null]

MoveConstruct(t, h, other) ==
    /\ h \notin DOMAIN handle /\ other \in DOMAIN handle
    /\ Begin(t, {}, {h, other}, <<>>)
    /\ handle' = Moved(h, other)
    /\ UNCHANGED <<alive, captured, count>>

MoveAssign(t, h, rhs) ==
    /\ h \in DOMAIN handle /\ rhs \in DOMAIN handle
    /\ Begin(t, {}, {h, rhs}, Release(handle[h]))
    /\ handle' = Moved(h, rhs)
    /\ UNCHANGED <<alive, captured, count>>

Destroy(t, h) ==
    /\ h \in DOMAIN handle
    /\ Begin(t, {}, {h}, Release(handle[h]))
    /\ handle' = [g \in DOMAIN handle \ {h} |-> handle[g]]
    /\ UNCHANGED <<alive, captured, count>>

Calling(t, name, impl) == todo[t] # <<>> /\ Head(todo[t]) = <<name, impl>>

\* m_count.fetch_add(1)
DoRetain(t, impl) ==
    /\ Calling(t, "retain", impl)
    /\ count' = [count EXCEPT ![impl] = @ + 1]
    /\ todo' = [todo EXCEPT ![t] = Tail(@)]
    /\ UNCHANGED <<handle, alive, captured, reads, writes>>

\* Mutant: the last one forgets to delete.
IsLast_OffByOne(old) == old = 0

IsLast(old) == old = 1

\* m_count.fetch_sub(1), and whether this was the last.
DoRelease(t, impl) ==
    /\ Calling(t, "release", impl)
    /\ count' = [count EXCEPT ![impl] = @ - 1]
    /\ todo' = [todo EXCEPT ![t] =
                  (IF IsLast(count[impl]) THEN <<<<"delete", impl>>>> ELSE <<>>) \o Tail(@)]
    /\ UNCHANGED <<handle, alive, captured, reads, writes>>

\* delete this: the captured handle is destroyed with it.
DoDelete(t, impl) ==
    /\ Calling(t, "delete", impl)
    /\ alive' = alive \ {impl}
    /\ todo' = [todo EXCEPT ![t] = Release(captured[impl]) \o Tail(@)]
    /\ UNCHANGED <<handle, captured, count, reads, writes>>

Init ==
    /\ handle = [h \in {} |-> Null] /\ alive = {}
    /\ captured = [i \in Impls |-> Null]
    /\ count = [i \in Impls |-> 0]
    /\ todo = [t \in Threads |-> <<>>]
    /\ reads = [t \in Threads |-> {}] /\ writes = [t \in Threads |-> {}]

\* An operation on handle h begins.
Operate(t, h) ==
    \/ \E i \in Impls : Make(t, h, i) \/ \E s \in Handles : MakeFrom(t, h, i, s)
    \/ Destroy(t, h)
    \/ \E o \in Handles :
         \/ CopyConstruct(t, h, o) \/ CopyCaptured(t, h, o) \/ CopyAssign(t, h, o)
         \/ MoveConstruct(t, h, o) \/ MoveAssign(t, h, o)

\* One that is under way goes on.
Continue(t) == \E i \in Impls : DoRetain(t, i) \/ DoRelease(t, i) \/ DoDelete(t, i)

-----------------------------------------------------------------------------
(* Properties *)

\* No thread calls, deletes or can reach an implementation that was deleted, in any
\* order of the operations of several threads on handles that share it.
NoUseAfterFree ==
    /\ \A t \in Threads : \A k \in DOMAIN todo[t] : todo[t][k][2] \in alive
    /\ \A h \in DOMAIN handle : handle[h] \in alive \cup {Null}
    /\ \A i \in alive : captured[i] \in alive \cup {Null}

\* The handles to an implementation, and the implementations that captured one.
HandlesTo(impl) == {h \in DOMAIN handle : handle[h] = impl}
CapturedBy(impl) == {i \in alive : captured[i] = impl}

\* When no operation is under way, every implementation that is left has a handle:
\* nothing leaks, through captured handles either (release, the move operations).
NoLeak ==
    (\A t \in Threads : todo[t] = <<>>) =>
      \A i \in alive : HandlesTo(i) \cup CapturedBy(i) # {}
=============================================================================
