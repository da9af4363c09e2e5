--------------------------- MODULE MCTestSession ---------------------------
(***************************************************************************)
(* Test sessions with the texts of the code, in bytes of 4 bits and        *)
(* characters of 3 bits.                                                   *)
(***************************************************************************)
EXTENDS TestSession

MCDefaults ==
    [p \in Params |->
       CASE p \in IntParams  -> 3
         [] p \in BoolParams -> FALSE
         [] p = "seed"       -> 0
         [] p = "reproduce"  -> NoEntries]

MCReproduces ==
    {[random |-> [key |-> <<0, 255>>, bits |-> 255, bitsi |-> 8], size |-> 0,
      shrinkPath |-> <<200, 7>>],
     [random |-> [key |-> <<18, 1>>, bits |-> 0, bitsi |-> 0], size |-> 100,
      shrinkPath |-> <<>>]}

\* Ids are strings of bytes.
MCDescriptions == {NoId, <<5>>, <<0, 15>>}
MCTestName == <<<<1, 2>>, <<1, 3>>, <<1, 2, 3>>>>

MCFirstParams ==
    {Unset,
     <<"noshrink", "=", "1">>,
     <<" ", "seed", "=", "'", "7", "'", " ", "max_success", "=", "5", " ", "verbose_progress">>
       \o <<" ", "=", " ", "\"", "1", "\"">>,
     <<"noshrink", "=", "2">>, <<"seed", "=", "'", "1">>}

MCNoText  == {Unset}
MCNoExtra == {NoEntries}

Characters == {"x", Space, Quote, DoubleQuote, Backslash, Equals}

\* Texts in which characters that must be escaped come first, last or alone.
Texts == {<<c>> : c \in Characters}
           \cup {<<b, c>> : b \in {Backslash, Quote}, c \in {"x", Quote, DoubleQuote, Backslash}}

MCExtras ==
    {NoEntries, Key("noshrink") :> <<"1">>}
      \cup {<<"x">> :> text : text \in Texts \cup {<<>>}} \cup {text :> <<"x">> : text \in Texts}
=============================================================================
