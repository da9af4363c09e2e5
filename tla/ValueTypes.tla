----------------------------- MODULE ValueTypes -----------------------------
(***************************************************************************)
(* Maybe and Variant (Maybe.hpp, detail/Variant.hpp), of handles: what     *)
(* Seq::next returns is a Maybe of a Shrinkable.  Their storage is raw     *)
(* memory, and a flag says what object is in it, if any; here it is a      *)
(* place for a handle of module SharedImpl.  A Variant is of a handle or   *)
(* of another type, whose copy constructor may throw.                      *)
(***************************************************************************)
EXTENDS SharedImpl

CONSTANTS
    Maybes, Variants    \* those of Handles that are storage

ASSUME StorageAssumption ==
    Maybes \subseteq Handles /\ Variants \subseteq Handles /\ Maybes \cap Variants = {}

\* m_initialized, m_typeIndex: the Maybes and Variants that exist |-> "handle", or
\* "other", which for a Maybe is nothing.
VARIABLE holds

allVars == <<vars, holds>>

Plain == Handles \ (Maybes \cup Variants)
Exists(x) == x \in DOMAIN handle \cup DOMAIN holds

Marked(b, what) == [x \in DOMAIN holds \cup {b} |-> IF x = b THEN what ELSE holds[x]]

\* An operation that no handle takes part in.
NoHandle(t, rs, ws) == Begin(t, rs, ws, <<>>) /\ UNCHANGED <<handle, alive, captured, count>>

-----------------------------------------------------------------------------
(* Maybe *)

\* init: the value is a copy of the one at s, or is moved from there.
init(t, m, s, moves) ==
    /\ IF moves THEN MoveConstruct(t, m, s) ELSE CopyConstruct(t, m, s)
    /\ holds' = Marked(m, "handle")

\* Mutant: the destructor runs, but the flag stays.
AfterReset_Set(m) == Marked(m, "handle")

AfterReset(m) == Marked(m, "other")

reset(t, m) ==
    IF holds[m] = "handle" THEN Destroy(t, m) /\ holds' = AfterReset(m)
    ELSE NoHandle(t, {}, {m}) /\ UNCHANGED holds

\* Maybe(); Maybe(Nothing)
MaybeNothing(t, m) ==
    /\ ~Exists(m)
    /\ NoHandle(t, {}, {m}) /\ holds' = Marked(m, "other")

\* From a value, or from another Maybe that has one.
MaybeConstruct(t, m, s, moves) == ~Exists(m) /\ s # m /\ init(t, m, s, moves)

\* From a value or a Maybe that has one: *this = *rhs.
MaybeAssign(t, m, s, moves) ==
    /\ m \in DOMAIN holds /\ s \in DOMAIN handle
    /\ IF holds[m] = "handle"
         THEN /\ IF moves THEN MoveAssign(t, m, s) ELSE CopyAssign(t, m, s)
              /\ UNCHANGED holds
         ELSE init(t, m, s, moves)

\* From Nothing, or from a Maybe that has no value.
MaybeReset(t, m) == m \in DOMAIN holds /\ reset(t, m)

-----------------------------------------------------------------------------
(* Variant *)

VariantConstruct(t, v, s, moves) ==
    /\ ~Exists(v) /\ s # v
    /\ IF moves THEN MoveConstruct(t, v, s) ELSE CopyConstruct(t, v, s)
    /\ holds' = Marked(v, "handle")

\* From a value of the other type, or a Variant that holds one.
VariantOther(t, v) ==
    /\ ~Exists(v)
    /\ NoHandle(t, {}, {v}) /\ holds' = Marked(v, "other")

\* From a handle or a Variant that holds one: assigned, or constructed after the
\* destructor of the other type.  A copy is made first, and moved here after it.
VariantAssign(t, v, s, moves) ==
    /\ v \in DOMAIN holds /\ s \in DOMAIN handle
    /\ IF holds[v] = "handle"
         THEN /\ IF moves THEN MoveAssign(t, v, s) ELSE CopyAssign(t, v, s)
              /\ UNCHANGED holds
         ELSE /\ IF moves THEN MoveConstruct(t, v, s) ELSE CopyConstruct(t, v, s)
              /\ holds' = Marked(v, "handle")

\* From the other type: the handle is destroyed.
VariantAssignOther(t, v) ==
    /\ v \in DOMAIN holds
    /\ IF holds[v] = "handle" THEN Destroy(t, v) ELSE NoHandle(t, {}, {v})
    /\ holds' = Marked(v, "other")

\* Mutant: the old value is destroyed before the copy is made that throws.
WhenCopyThrows_Destroyed(t, v) == Destroy(t, v)

\* The copy is made in tmp, before anything is changed.
WhenCopyThrows(t, v) == NoHandle(t, {}, {v})

\* Copy assignment from a Variant that holds the other type, whose copy throws.
VariantAssignThrows(t, v) ==
    /\ v \in DOMAIN holds /\ holds[v] = "handle"
    /\ WhenCopyThrows(t, v) /\ UNCHANGED holds

-----------------------------------------------------------------------------
\* The destructor of either.
DestroyStorage(t, b) ==
    /\ b \in DOMAIN holds
    /\ IF holds[b] = "handle" THEN Destroy(t, b) ELSE NoHandle(t, {}, {b})
    /\ holds' = [x \in DOMAIN holds \ {b} |-> holds[x]]

ValueInit == Init /\ holds = [x \in {} |-> "other"]

OperateMaybe(t, m) ==
    \/ MaybeNothing(t, m) \/ MaybeReset(t, m) \/ DestroyStorage(t, m)
    \/ \E s \in Plain \cup Maybes, moves \in BOOLEAN :
         MaybeConstruct(t, m, s, moves) \/ MaybeAssign(t, m, s, moves)

OperateVariant(t, v) ==
    \/ VariantOther(t, v) \/ VariantAssignOther(t, v) \/ VariantAssignThrows(t, v)
    \/ DestroyStorage(t, v)
    \/ \E s \in Plain \cup Variants, moves \in BOOLEAN :
         VariantConstruct(t, v, s, moves) \/ VariantAssign(t, v, s, moves)

ValueNext ==
    \E t \in Threads :
      \/ Continue(t) /\ UNCHANGED holds
      \/ \E h \in Plain : Operate(t, h) /\ UNCHANGED holds
      \/ \E m \in Maybes : OperateMaybe(t, m)
      \/ \E v \in Variants : OperateVariant(t, v)

ValueSpec == ValueInit /\ [][ValueNext]_allVars

-----------------------------------------------------------------------------
(* Properties *)

\* There is a handle in a Maybe or a Variant exactly if it says so, whatever was
\* assigned to it and even if a copy threw: none is destroyed twice, overwritten
\* alive or read from raw memory (Maybe.hpp, Variant.hpp).
SaysWhatItHolds ==
    \A b \in Maybes \cup Variants :
      b \in DOMAIN handle <=> (b \in DOMAIN holds /\ holds[b] = "handle")
=============================================================================
