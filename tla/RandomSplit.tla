---------------------------- MODULE RandomSplit ----------------------------
(***************************************************************************)
(* The splittable generator rc::Random (src/src/Random.cpp) under an ideal *)
(* hash: mash() never maps different (key, bits, counter) to one block.    *)
(* The 430 lines of the cipher are that one assumption; what is checked is *)
(* the discipline around it, which has to keep the inputs of mash() apart. *)
(*                                                                         *)
(* A key is the seed, or the block mash() made of an older key; it is      *)
(* written as the sequence of inputs hashed into the seed so far.  m_bits  *)
(* is the set of the positions whose bit is 1.                             *)
(***************************************************************************)
EXTENDS Integers, Sequences, FiniteSets

CONSTANTS
    kBits,         \* the digits of Bits, 64 in the code
    kCounterMax,   \* the largest Counter, 2^64 - 1 in the code
    MaxBits,       \* bound: bits appended to one generator
    MaxLive,       \* bound: generators
    MaxDraws       \* bound: different numbers drawn, from all generators together

ASSUME RandomAssumption ==
    /\ kBits \in Nat \ {0} /\ kCounterMax \in Nat
    /\ kCounterMax % 4 = 3     \* whole blocks of four numbers
    /\ MaxBits \in Nat /\ MaxLive \in Nat /\ MaxDraws \in Nat

Bits  == SUBSET (0..(kBits - 1))
Input == [bits : Bits, counter : 0..kCounterMax]
Block == [key : Seq(Input), bits : Bits, counter : 0..kCounterMax]

Random ==
    [m_key : Seq(Input), m_block : Block, m_bits : Bits,
     m_counter : 0..kCounterMax, m_bitsi : 0..kBits]

Number == [block : Block, word : 0..3, at : 0..kCounterMax, bitsi : 0..kBits]

VARIABLES
    live,    \* the generators in use
    drawn    \* the numbers returned by next(), with the state they came from

vars == <<live, drawn>>

-----------------------------------------------------------------------------
\* mash(output): a fresh block for every input.
Mash(r) == [key |-> r.m_key, bits |-> r.m_bits, counter |-> r.m_counter]

\* mash(m_key) when there is no room for another bit.
Rekey(r) ==
    [r EXCEPT !.m_key = Append(@, [bits |-> r.m_bits, counter |-> r.m_counter]),
              !.m_bitsi = 0, !.m_bits = {}]

\* Random::append(x), the bool written as 0 or 1
AppendBit(r, x) ==
    LET s == IF r.m_bitsi = kBits THEN Rekey(r) ELSE r
    IN [s EXCEPT !.m_bits = IF x = 1 THEN @ \cup {s.m_bitsi} ELSE @,
                 !.m_bitsi = @ + 1]

\* Mutant: the counter is cleared first.
Wrap_ClearsFirst(r) == AppendBit([r EXCEPT !.m_counter = 0], 1)

\* What next() does when the counter is exhausted.
Wrap(r) == [AppendBit(r, 1) EXCEPT !.m_counter = 0]

\* The m_block that next() takes its number from.
CurrentBlock(r) == IF r.m_counter % 4 = 0 THEN Mash(r) ELSE r.m_block

Room(r) == Len(r.m_key) * kBits + r.m_bitsi < MaxBits

-----------------------------------------------------------------------------
\* Mutant: the right generator is a copy of the left one.
Split_Same(g) ==
    LET r == live[g]
    IN /\ r.m_counter = 0 /\ Room(r) /\ Len(live) < MaxLive
       /\ live' = Append([live EXCEPT ![g] = AppendBit(r, 0)], AppendBit(r, 0))
       /\ UNCHANGED drawn

\* Random::split(); its assertion is the caller's duty not to split a generator
\* that numbers were drawn from (Random.h:45).
Split(g) ==
    LET r == live[g]
    IN /\ r.m_counter = 0 /\ Room(r) /\ Len(live) < MaxLive
       /\ live' = Append([live EXCEPT ![g] = AppendBit(r, 0)], AppendBit(r, 1))
       /\ UNCHANGED drawn

\* The number next() returns, and where it came from.
Draw(r) == [block |-> CurrentBlock(r), word |-> r.m_counter % 4,
            at |-> r.m_counter, bitsi |-> r.m_bitsi]

\* Random::next()
DrawNumber(g) ==
    LET r == [live[g] EXCEPT !.m_block = CurrentBlock(live[g])]
    IN /\ Cardinality(drawn) < MaxDraws
       /\ drawn' = drawn \cup {Draw(live[g])}
       /\ \/ /\ r.m_counter = kCounterMax /\ Room(r)
             /\ live' = [live EXCEPT ![g] = Wrap(r)]
          \/ /\ r.m_counter # kCounterMax
             /\ live' = [live EXCEPT ![g] = [r EXCEPT !.m_counter = @ + 1]]

\* Random(seed): value-initialised but for the key.
Seeded == [m_key |-> <<>>, m_block |-> [key |-> <<>>, bits |-> {}, counter |-> 0],
           m_bits |-> {}, m_counter |-> 0, m_bitsi |-> 0]

Init == live = <<Seeded>> /\ drawn = {}

Next == \E g \in DOMAIN live : Split(g) \/ DrawNumber(g)

Spec == Init /\ [][Next]_vars

-----------------------------------------------------------------------------
(* Invariants *)

TypeOK ==
    /\ live \in Seq(Random)
    /\ drawn \subseteq Number

\* No number is ever returned twice, by one generator or by two: the next number
\* of each is a word of a block that no number so far was (Random::split and
\* Random::next, used as Random.h:41-46 says).
NumbersNeverRepeat ==
    \A g \in DOMAIN live : \A d \in drawn :
      <<d.block, d.word>> # <<Draw(live[g]).block, Draw(live[g]).word>>

\* No block that numbers were returned from is the key of a generator: numbers
\* a property has seen do not determine the ones it will see (append; next).
KeysNeverDrawn ==
    \A d \in drawn, g \in DOMAIN live :
      \A k \in DOMAIN live[g].m_key :
        d.block # [key |-> SubSeq(live[g].m_key, 1, k - 1),
                          bits |-> live[g].m_key[k].bits,
                          counter |-> live[g].m_key[k].counter]

(* The inductive invariant *)

\* The bits appended under the k-th key of a generator, and how many: a key
\* already replaced took all the bits it has room for.
Word(key, bits, bitsi, k) ==
    IF k <= Len(key) THEN [bits |-> key[k].bits, bitsi |-> kBits]
    ELSE [bits |-> bits, bitsi |-> bitsi]

\* Some bit that both have was 0 for one and 1 for the other.
Diverge(key1, bits1, bitsi1, key2, bits2, bitsi2) ==
    \E k \in 1..(Len(key1) + 1) :
      /\ k <= Len(key2) + 1
      /\ LET w1 == Word(key1, bits1, bitsi1, k)
             w2 == Word(key2, bits2, bitsi2, k)
         IN \E j \in 0..(kBits - 1) :
              j < w1.bitsi /\ j < w2.bitsi /\ ~(j \in w1.bits <=> j \in w2.bits)

Apart(r, s) == Diverge(r.m_key, r.m_bits, r.m_bitsi, s.m_key, s.m_bits, s.m_bitsi)

\* Live generators are leaves of the tree of splits.
LiveApart == \A g, h \in DOMAIN live : g # h => Apart(live[g], live[h])

\* The generator r will not come by the state the number d was drawn from: it is
\* elsewhere in the tree, or further on in the same stream.
Beyond(d, r) ==
    \/ Diverge(d.block.key, d.block.bits, d.bitsi, r.m_key, r.m_bits, r.m_bitsi)
    \/ /\ r.m_key = d.block.key /\ r.m_bits = d.block.bits
       /\ r.m_bitsi = d.bitsi /\ d.at < r.m_counter
    \/ /\ Len(r.m_key) = Len(d.block.key)
       /\ d.bitsi \in r.m_bits /\ d.bitsi \notin d.block.bits
    \/ /\ Len(r.m_key) > Len(d.block.key)
       /\ r.m_key[Len(d.block.key) + 1] #
            [bits |-> d.block.bits, counter |-> d.block.counter]

DrawnBeyond == \A d \in drawn, g \in DOMAIN live : Beyond(d, live[g])

\* Bits not appended yet are 0, and a block in use is the one of this state.
WellFormed(r) ==
    /\ \A j \in r.m_bits : j < r.m_bitsi
    /\ r.m_counter % 4 # 0 =>
         r.m_block = [key |-> r.m_key, bits |-> r.m_bits,
                      counter |-> r.m_counter - (r.m_counter % 4)]

Sound(d) ==
    /\ \A b \in d.block.bits : b < d.bitsi
    /\ d.block.counter % 4 = 0 /\ d.block.counter + d.word = d.at

Consistent ==
    /\ \A g \in DOMAIN live : WellFormed(live[g])
    /\ \A d \in drawn : Sound(d)

IInv == TypeOK /\ LiveApart /\ DrawnBeyond /\ Consistent
=============================================================================
