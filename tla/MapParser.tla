----------------------------- MODULE MapParser -----------------------------
(***************************************************************************)
(* The text of RC_PARAMS: detail/MapParser.cpp.                            *)
(*                                                                         *)
(* A text is a sequence of characters.  A keyword or a number is a single  *)
(* character here: nothing in a text splits one.                           *)
(***************************************************************************)
EXTENDS Texts

Space       == " "
Quote       == "'"
DoubleQuote == "\""
Backslash   == "\\"
Equals      == "="

isQuote(c) == c \in {Quote, DoubleQuote}

-----------------------------------------------------------------------------
(* Parsing: a value and the rest of the text, or that the text is invalid *)

Parsed(value, rest) == [ok |-> TRUE, value |-> value, rest |-> rest]
UnexpectedQuoteEnd  == [ok |-> FALSE]

\* Up to the first character of stops, or to the end.
takeUntil(text, stops) ==
    LET first == Min({i \in DOMAIN text : text[i] \in stops} \cup {Len(text) + 1})
    IN Parsed(SubSeq(text, 1, first - 1), From(text, first - 1))

skipSpace(text) ==
    From(text, Min({i \in DOMAIN text : text[i] # Space} \cup {Len(text) + 1}) - 1)

\* i |-> the value after i characters, where escape tells that a backslash came last.
Unescaped(text) ==
    LET state[i \in 0..Len(text)] ==
          IF i = 0 THEN [value |-> <<>>, escape |-> FALSE]
          ELSE LET before == state[i - 1]
               IN IF ~before.escape /\ text[i] = Backslash THEN [before EXCEPT !.escape = TRUE]
                  ELSE [value |-> Append(before.value, text[i]), escape |-> FALSE]
    IN state

\* What follows the opening quote, up to the first quote that is not escaped.
Quoted(text, quote) ==
    LET ends == {i \in DOMAIN text : text[i] = quote /\ ~Unescaped(text)[i - 1].escape}
    IN IF ends = {} THEN UnexpectedQuoteEnd
       ELSE Parsed(Unescaped(text)[Min(ends) - 1].value, From(text, Min(ends)))

parseString(text, stops) ==
    IF text # <<>> /\ isQuote(Head(text)) THEN Quoted(Tail(text), Head(text))
    ELSE takeUntil(text, stops)

\* What follows an equals sign, or an empty value.
parseValue(rest) ==
    IF rest # <<>> /\ Head(rest) = Equals THEN parseString(skipSpace(Tail(rest)), {Space})
    ELSE Parsed(<<>>, rest)

\* Its value is the pair, if there is one.
parsePair(text) ==
    LET key   == parseString(skipSpace(text), {Space, Equals})
        value == parseValue(skipSpace(key.rest))
    IN IF ~key.ok THEN key
       ELSE IF key.value = <<>> THEN Parsed(<<>>, text)
       ELSE IF ~value.ok THEN value ELSE Parsed(<<key.value, value.value>>, value.rest)

\* The last one with a key counts.
WithPair(map, pair) ==
    [k \in DOMAIN map \cup {pair[1]} |-> IF k = pair[1] THEN pair[2] ELSE map[k]]

AfterPair(map, pair) ==
    IF ~pair.ok THEN pair
    ELSE IF pair.value = <<>> THEN Parsed(map, <<>>)
    ELSE Parsed(WithPair(map, pair.value), pair.rest)

NextPairs(before) ==
    IF ~before.ok THEN before ELSE AfterPair(before.value, parsePair(before.rest))

\* i |-> the map after i pairs, up to the first that has no key.
Pairs(text) ==
    LET state[i \in 0..(Len(text) + 1)] ==
          IF i = 0 THEN Parsed([k \in {} |-> <<>>], text) ELSE NextPairs(state[i - 1])
    IN state

\* No text has more pairs than characters.
parseMap(text) == Pairs(text)[Len(text) + 1]

-----------------------------------------------------------------------------
(* Printing *)

\* Mutant: a backslash is left as it is.
Escapes_QuoteOnly(quoteChar) == {quoteChar}

Escapes(quoteChar) == {quoteChar, Backslash}

quoteString(str, quoteChar) ==
    <<quoteChar>>
      \o Joined([i \in DOMAIN str |->
           IF str[i] \in Escapes(quoteChar) THEN <<Backslash, str[i]>> ELSE <<str[i]>>])
      \o <<quoteChar>>

hasSpecialChar(str) ==
    \E i \in DOMAIN str : isQuote(str[i]) \/ str[i] \in {Space, Equals, Backslash}

maybeQuoteString(str, doubleQuote) ==
    IF str = <<>> THEN <<DoubleQuote, DoubleQuote>>
    ELSE IF hasSpecialChar(str)
      THEN quoteString(str, IF doubleQuote THEN DoubleQuote ELSE Quote)
    ELSE str

pairToString(key, value, doubleQuote) ==
    maybeQuoteString(key, doubleQuote)
      \o (IF value = <<>> THEN <<>> ELSE <<Equals>> \o maybeQuoteString(value, doubleQuote))

\* One after the other, in any fixed order.
mapToString(map, doubleQuote) ==
    LET keys == SetToSeq(DOMAIN map)
    IN Joined([i \in DOMAIN keys |->
         (IF i = 1 THEN <<>> ELSE <<Space>>) \o pairToString(keys[i], map[keys[i]], doubleQuote)])
=============================================================================
