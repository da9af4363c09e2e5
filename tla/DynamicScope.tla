---------------------------- MODULE DynamicScope ----------------------------
(***************************************************************************)
(* Dynamic scoping as src/include/rapidcheck/detail/ImplicitParam.h        *)
(* promises it: entering a scope rebinds every parameter to its default at *)
(* once, a binding hides the ones before it for as long as it lives, and   *)
(* leaving either restores what was there.                                 *)
(***************************************************************************)
EXTENDS Integers, Sequences, SequencesExt

CONSTANTS Params, Values, Default(_)

VARIABLES scopes,   \* the open scopes, outermost first: parameter -> its bindings
          seen      \* the answer the last look at a parameter got

dsVars == <<scopes, seen>>

Fresh == [p \in Params |-> <<Default(p)>>]

Init == scopes = <<Fresh>> /\ seen \in Values

EnterScope == scopes' = Append(scopes, Fresh) /\ UNCHANGED seen

Rebind(p, b) == scopes' = [scopes EXCEPT ![Len(scopes)][p] = b]

Bind(p, v) == Rebind(p, Append(Last(scopes)[p], v)) /\ UNCHANGED seen

Unbind(p) ==
    /\ Len(Last(scopes)[p]) > 1
    /\ Rebind(p, Front(Last(scopes)[p]))
    /\ UNCHANGED seen

\* value() returns a reference: reading through it, and writing through it.
Read(p) == seen' = Last(Last(scopes)[p]) /\ UNCHANGED scopes

Write(p, v) == Rebind(p, Append(Front(Last(scopes)[p]), v)) /\ UNCHANGED seen

LeaveScope ==
    /\ Len(scopes) > 1
    /\ \A p \in Params : Len(Last(scopes)[p]) = 1
    /\ scopes' = Front(scopes)
    /\ UNCHANGED seen

Next ==
    \/ EnterScope \/ LeaveScope
    \/ \E p \in Params : Unbind(p) \/ Read(p)
    \/ \E p \in Params, v \in Values : Bind(p, v) \/ Write(p, v)

Spec == Init /\ [][Next]_dsVars
=============================================================================
