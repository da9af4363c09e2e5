--------------------------- MODULE Configuration ---------------------------
(***************************************************************************)
(* From the text of RC_PARAMS to a configuration and back:                 *)
(* detail/Configuration.cpp.  Numbers have one digit.                      *)
(***************************************************************************)
EXTENDS Serialization, MapParser

Key(name) == <<name>>

IntParams  == {"max_success", "max_size", "max_discard_ratio"}
BoolParams == {"noshrink", "verbose_progress", "verbose_shrinking"}
Params     == IntParams \cup BoolParams \cup {"seed", "reproduce"}

Digits == <<"0", "1", "2", "3", "4", "5", "6", "7", "8", "9">>

\* A configuration, but for what it has to reproduce.
IsConfiguration(config) ==
    /\ config = [p \in Params |-> config[p]]
    /\ \A p \in IntParams \cup {"seed"} : config[p] \in 0..9
    /\ \A p \in BoolParams : config[p] \in BOOLEAN

Loaded(config)  == [type |-> "loaded", config |-> config]
Refused         == [type |-> "refused"]
UndefinedLoad   == [type |-> "undefined"]

-----------------------------------------------------------------------------
(* Values: what operator>> reads of a text, which need not be all of it *)

NumberRead(text) ==
    LET t == skipSpace(text)
        n == CHOOSE n \in 0..9 : Digits[n + 1] = Head(t)
    IN IF t # <<>> /\ \E i \in DOMAIN Digits : Digits[i] = Head(t)
         THEN Read(n, Tail(t)) ELSE ParseFailed

BoolRead(text) ==
    LET n == NumberRead(text)
    IN IF n.status = "read" /\ n.value \in {0, 1} THEN Read(n.value = 1, n.rest) ELSE ParseFailed

fromString(name, text) ==
    CASE name \in IntParams \cup {"seed"} -> NumberRead(text)
      [] name \in BoolParams              -> BoolRead(text)
      [] name = "reproduce"               -> stringToReproduceMap(text)

-----------------------------------------------------------------------------
\* What the map has for a parameter, or its default.
loadParam(map, name, dest) ==
    IF Key(name) \in DOMAIN map THEN fromString(name, map[Key(name)]) ELSE Read(dest, <<>>)

\* reproduce comes last, so another parameter that fails to load is seen first.
FromParams(param) ==
    LET statuses == {param[p].status : p \in Params}
    IN IF "failed" \in statuses THEN Refused
       ELSE IF "undefined" \in statuses THEN UndefinedLoad
       ELSE Loaded([p \in Params |-> param[p].value])

\* Other entries of the map are ignored.
configFromMap(map, defaults) ==
    FromParams([p \in Params |-> loadParam(map, p, defaults[p])])

\* A text that is no map is refused too: loadConfiguration prints and exits.
configFromString(text, defaults) ==
    LET map == parseMap(text)
    IN IF map.ok THEN configFromMap(map.value, defaults) ELSE Refused

toText(name, value) ==
    CASE name \in IntParams \cup {"seed"} -> <<Digits[value + 1]>>
      [] name \in BoolParams              -> <<IF value THEN "1" ELSE "0">>
      [] name = "reproduce"               -> reproduceMapToString(value)

mapFromConfig(config) ==
    [k \in {Key(p) : p \in Params} |-> toText(k[1], config[k[1]])]

\* Mutant: the entries of lhs whose key rhs does not have are lost.
mapDifference_OnlyCommon(lhs, rhs) ==
    LET keys == {k \in DOMAIN lhs \cap DOMAIN rhs : lhs[k] # rhs[k]}
    IN [k \in keys |-> lhs[k]]

mapDifference(lhs, rhs) ==
    LET keys == {k \in DOMAIN lhs : k \notin DOMAIN rhs \/ lhs[k] # rhs[k]}
    IN [k \in keys |-> lhs[k]]

\* The seed is not among the defaults, so it is always there.
ConfigToMinimalString(config, defaults) ==
    LET all == mapFromConfig(defaults)
        withoutSeed == [k \in DOMAIN all \ {Key("seed")} |-> all[k]]
    IN mapToString(mapDifference(mapFromConfig(config), withoutSeed), FALSE)
=============================================================================
