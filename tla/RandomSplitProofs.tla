------------------------- MODULE RandomSplitProofs -------------------------
(***************************************************************************)
(* Theorems about RandomSplit, for every number of bits in a word, every   *)
(* size of the counter and every tree of splits.                           *)
(***************************************************************************)
EXTENDS RandomSplit, SequenceTheorems, TLAPS

-----------------------------------------------------------------------------
(* append *)

\* s is r after append(x), to a word with room or to a full one.
Appended(r, x, s) ==
    /\ s \in Random
    /\ \A j \in s.m_bits : j < s.m_bitsi
    /\ s.m_counter = r.m_counter /\ s.m_block = r.m_block
    /\ r.m_bitsi # kBits =>
         /\ s.m_key = r.m_key /\ s.m_bitsi = r.m_bitsi + 1
         /\ s.m_bits = IF x = 1 THEN r.m_bits \cup {r.m_bitsi} ELSE r.m_bits
    /\ r.m_bitsi = kBits =>
         /\ s.m_key = Append(r.m_key, [bits |-> r.m_bits, counter |-> r.m_counter])
         /\ s.m_bitsi = 1
         /\ s.m_bits = IF x = 1 THEN {0} ELSE {}

\* append() yields Appended.
LEMMA Appending ==
    ASSUME NEW r \in Random, WellFormed(r), NEW x \in {0, 1},
           NEW s, s = AppendBit(r, x)
    PROVE  Appended(r, x, s)
<1> DEFINE i == [bits |-> r.m_bits, counter |-> r.m_counter]
<1>1. /\ r.m_key \in Seq(Input) /\ r.m_block \in Block /\ r.m_bits \in Bits
      /\ r.m_counter \in 0..kCounterMax /\ r.m_bitsi \in 0..kBits
  BY DEF Random
<1>2. kBits \in Nat \ {0} /\ kCounterMax \in Nat
  BY RandomAssumption
<1>3. Append(r.m_key, i) \in Seq(Input)
  BY <1>1, AppendProperties DEF Input
<1>4. CASE r.m_bitsi # kBits
  <2>1. s = [m_key |-> r.m_key, m_block |-> r.m_block,
             m_bits |-> IF x = 1 THEN r.m_bits \cup {r.m_bitsi} ELSE r.m_bits,
             m_counter |-> r.m_counter, m_bitsi |-> r.m_bitsi + 1]
    BY <1>4 DEF AppendBit, Random
  <2>2. r.m_bitsi \in 0..(kBits - 1) /\ r.m_bitsi + 1 \in 0..kBits
    BY <1>1, <1>2, <1>4
  <2>3. (IF x = 1 THEN r.m_bits \cup {r.m_bitsi} ELSE r.m_bits) \in Bits
    BY <1>1, <2>2 DEF Bits
  <2>4. s \in Random
    BY <1>1, <2>1, <2>2, <2>3 DEF Random
  <2>5. \A j \in s.m_bits : j < s.m_bitsi
    BY <1>1, <1>2, <2>1, <2>2 DEF WellFormed, Bits
  <2> QED  BY <1>4, <2>1, <2>4, <2>5 DEF Appended
<1>5. CASE r.m_bitsi = kBits
  <2>1. s = [m_key |-> Append(r.m_key, i), m_block |-> r.m_block,
             m_bits |-> IF x = 1 THEN {0} ELSE {},
             m_counter |-> r.m_counter, m_bitsi |-> 1]
    <3>1. 0 + 1 = 1 /\ {} \cup {0} = {0}
      OBVIOUS
    <3> QED  BY <1>5, <3>1 DEF AppendBit, Rekey, Random
  <2>2. (IF x = 1 THEN {0} ELSE {}) \in Bits /\ 1 \in 0..kBits
    BY <1>2 DEF Bits
  <2>3. s \in Random
    BY <1>1, <1>3, <2>1, <2>2 DEF Random
  <2> QED  BY <1>5, <2>1, <2>3 DEF Appended
<1> QED  BY <1>4, <1>5

\* What was appended is never lost: a generator that differs from a word of bits
\* differs from it after one bit more.
LEMMA DivergeStable ==
    ASSUME NEW r \in Random, WellFormed(r), NEW x \in {0, 1},
           NEW s, s = AppendBit(r, x),
           NEW key \in Seq(Input), NEW bits, NEW bitsi \in 0..kBits,
           Diverge(key, bits, bitsi, r.m_key, r.m_bits, r.m_bitsi)
    PROVE  Diverge(key, bits, bitsi, s.m_key, s.m_bits, s.m_bitsi)
<1> DEFINE v(k) == Word(key, bits, bitsi, k)
           w(k) == Word(r.m_key, r.m_bits, r.m_bitsi, k)
           u(k) == Word(s.m_key, s.m_bits, s.m_bitsi, k)
           Differ(a, b) == \E j \in 0..(kBits - 1) :
              j < a.bitsi /\ j < b.bitsi /\ ~(j \in a.bits <=> j \in b.bits)
<1>1. PICK k \in 1..(Len(key) + 1) : k <= Len(r.m_key) + 1 /\ Differ(v(k), w(k))
  BY DEF Diverge
<1>0. Appended(r, x, s)
  BY Appending
<1>2. /\ r.m_key \in Seq(Input) /\ s.m_key \in Seq(Input)
      /\ r.m_bitsi \in 0..kBits /\ Len(r.m_key) \in Nat /\ Len(key) \in Nat
  <2>1. r.m_key \in Seq(Input) /\ s.m_key \in Seq(Input) /\ r.m_bitsi \in 0..kBits
    BY <1>0 DEF Random, Appended
  <2> QED  BY <2>1, LenProperties
<1>3. kBits \in Nat \ {0}
  BY RandomAssumption
<1>4. /\ k <= Len(s.m_key) + 1
      /\ \A j \in 0..(kBits - 1) : j < w(k).bitsi =>
           j < u(k).bitsi /\ (j \in w(k).bits <=> j \in u(k).bits)
  <2>1. CASE r.m_bitsi # kBits
    <3>1. /\ s.m_key = r.m_key /\ s.m_bitsi = r.m_bitsi + 1
          /\ s.m_bits = IF x = 1 THEN r.m_bits \cup {r.m_bitsi} ELSE r.m_bits
      BY <1>0, <2>1 DEF Appended
    <3>2. CASE k <= Len(r.m_key)
      BY <1>1, <1>2, <3>1, <3>2 DEF Word
    <3>3. CASE ~(k <= Len(r.m_key))
      <4>1. /\ w(k) = [bits |-> r.m_bits, bitsi |-> r.m_bitsi]
            /\ u(k) = [bits |-> s.m_bits, bitsi |-> s.m_bitsi]
        BY <3>1, <3>3 DEF Word
      <4> QED  BY <1>1, <1>2, <1>3, <3>1, <4>1
    <3> QED  BY <3>2, <3>3
  <2>2. CASE r.m_bitsi = kBits
    <3> DEFINE i == [bits |-> r.m_bits, counter |-> r.m_counter]
    <3>1. s.m_key = Append(r.m_key, i)
      BY <1>0, <2>2 DEF Appended
    <3>2. i \in Input
      BY DEF Random, Input
    <3>3. /\ Len(s.m_key) = Len(r.m_key) + 1
          /\ \A l \in 1..Len(r.m_key) : s.m_key[l] = r.m_key[l]
          /\ s.m_key[Len(r.m_key) + 1] = i
      BY <1>2, <3>1, <3>2, AppendProperties
    <3>4. CASE k <= Len(r.m_key)
      BY SMTT(30), <1>1, <1>2, <3>3, <3>4 DEF Word
    <3>5. CASE ~(k <= Len(r.m_key))
      <4>1. k = Len(r.m_key) + 1
        BY <1>1, <1>2, <3>5
      <4>2. /\ w(k) = [bits |-> r.m_bits, bitsi |-> r.m_bitsi]
            /\ u(k) = [bits |-> r.m_bits, bitsi |-> kBits]
        BY <1>2, <3>3, <3>5, <4>1 DEF Word
      <4> QED  BY <1>2, <2>2, <3>3, <4>1, <4>2
    <3> QED  BY <3>4, <3>5
  <2> QED  BY <2>1, <2>2
<1>5. Differ(v(k), u(k))
  <2>1. PICK j \in 0..(kBits - 1) : /\ j < v(k).bitsi /\ j < w(k).bitsi
                                    /\ ~(j \in v(k).bits <=> j \in w(k).bits)
    BY <1>1
  <2> QED  BY <1>4, <2>1
<1> QED  BY <1>1, <1>4, <1>5 DEF Diverge

\* Of two words that differ, either may come first.
LEMMA DivergeSymmetric ==
    ASSUME NEW key1 \in Seq(Input), NEW bits1, NEW bitsi1,
           NEW key2 \in Seq(Input), NEW bits2, NEW bitsi2,
           Diverge(key1, bits1, bitsi1, key2, bits2, bitsi2)
    PROVE  Diverge(key2, bits2, bitsi2, key1, bits1, bitsi1)
<1> DEFINE v(k) == Word(key1, bits1, bitsi1, k)
           w(k) == Word(key2, bits2, bitsi2, k)
           Differ(a, b) == \E j \in 0..(kBits - 1) :
              j < a.bitsi /\ j < b.bitsi /\ ~(j \in a.bits <=> j \in b.bits)
<1>1. PICK k \in 1..(Len(key1) + 1) : k <= Len(key2) + 1 /\ Differ(v(k), w(k))
  BY DEF Diverge
<1>2. k \in 1..(Len(key2) + 1) /\ k <= Len(key1) + 1
  BY <1>1, LenProperties
<1>3. Differ(w(k), v(k))
  BY <1>1
<1> QED  BY <1>2, <1>3 DEF Diverge

\* The two halves of a split differ in the bit appended last.
LEMMA HalvesApart ==
    ASSUME NEW r \in Random, WellFormed(r),
           NEW s, s = AppendBit(r, 0),
           NEW t, t = AppendBit(r, 1)
    PROVE  Apart(s, t)
<1>1. Appended(r, 0, s) /\ Appended(r, 1, t)
  BY Appending
<1>2. s.m_key \in Seq(Input) /\ r.m_bitsi \in 0..kBits /\ kBits \in Nat \ {0}
  BY <1>1, RandomAssumption DEF Appended, Random
<1>3. /\ s.m_key = t.m_key /\ s.m_bitsi = t.m_bitsi
      /\ \E j \in 0..(kBits - 1) :
            j < s.m_bitsi /\ j \in t.m_bits /\ j \notin s.m_bits
  <2>1. CASE r.m_bitsi # kBits
    <3>1. /\ s.m_key = r.m_key /\ s.m_bitsi = r.m_bitsi + 1 /\ s.m_bits = r.m_bits
          /\ t.m_key = r.m_key /\ t.m_bitsi = r.m_bitsi + 1
          /\ t.m_bits = r.m_bits \cup {r.m_bitsi}
      BY <1>1, <2>1 DEF Appended
    <3>2. r.m_bitsi \notin r.m_bits /\ r.m_bitsi \in 0..(kBits - 1)
      BY <1>2, <2>1 DEF WellFormed
    <3>3. r.m_bitsi < r.m_bitsi + 1
      BY <1>2
    <3> QED  BY <3>1, <3>2, <3>3
  <2>2. CASE r.m_bitsi = kBits
    <3>1. /\ s.m_key = t.m_key /\ s.m_bitsi = 1 /\ t.m_bitsi = 1
          /\ s.m_bits = {} /\ t.m_bits = {0}
      BY SMTT(30), <1>1, <2>2 DEF Appended
    <3>2. 0 \in 0..(kBits - 1) /\ 0 < 1
      BY <1>2
    <3> QED  BY <3>1, <3>2
  <2> QED  BY <2>1, <2>2
<1>4. PICK n \in Nat : n = Len(s.m_key)
  BY <1>2, LenProperties
<1>5. PICK k \in Nat : k = n + 1
  BY <1>4
<1>7. k \in 1..(n + 1) /\ k <= n + 1 /\ ~(k <= n)
  BY <1>4, <1>5
<1>6. /\ ~(k <= Len(s.m_key)) /\ ~(k <= Len(t.m_key))
      /\ \E j \in 0..(kBits - 1) :
           j < s.m_bitsi /\ j < t.m_bitsi /\ ~(j \in s.m_bits <=> j \in t.m_bits)
  BY <1>3, <1>4, <1>7
<1>8. \E j \in 0..(kBits - 1) :
         /\ j < Word(s.m_key, s.m_bits, s.m_bitsi, k).bitsi
         /\ j < Word(t.m_key, t.m_bits, t.m_bitsi, k).bitsi
         /\ ~(j \in Word(s.m_key, s.m_bits, s.m_bitsi, k).bits <=>
                j \in Word(t.m_key, t.m_bits, t.m_bitsi, k).bits)
  BY <1>6 DEF Word
<1>9. k \in 1..(Len(s.m_key) + 1) /\ k <= Len(t.m_key) + 1
  BY <1>3, <1>4, <1>7
<1> QED  BY <1>8, <1>9 DEF Apart, Diverge

-----------------------------------------------------------------------------
(* Numbers a generator has passed *)

\* One more bit takes a generator past every number it was beyond, when its
\* counter is 0 (split) or exhausted (next, which appends a 1).
LEMMA BeyondStable ==
    ASSUME NEW r \in Random, WellFormed(r), NEW x \in {0, 1},
           NEW s, s = AppendBit(r, x),
           r.m_counter = 0 \/ (r.m_counter = kCounterMax /\ x = 1),
           NEW d \in Number, Sound(d), Beyond(d, r),
           NEW t \in Random, t.m_key = s.m_key, t.m_bits = s.m_bits,
           t.m_bitsi = s.m_bitsi
    PROVE  Beyond(d, t)
<1> DEFINE i == [bits |-> r.m_bits, counter |-> r.m_counter]
           n == Len(d.block.key)
<1>1. Appended(r, x, s)
  BY Appending
<1>2. /\ r.m_key \in Seq(Input) /\ r.m_bits \in Bits /\ r.m_counter \in 0..kCounterMax
      /\ r.m_bitsi \in 0..kBits /\ i \in Input
  BY DEF Random, Input
<1>3. /\ d.block.key \in Seq(Input) /\ d.block.counter \in 0..kCounterMax
      /\ d.at \in 0..kCounterMax /\ d.bitsi \in 0..kBits /\ d.block.bits \in Bits
  BY DEF Number, Block
<1>4. n \in Nat /\ Len(r.m_key) \in Nat
  BY <1>2, <1>3, LenProperties
<1>5. kBits \in Nat \ {0} /\ kCounterMax \in Nat /\ kCounterMax % 4 = 3
  BY RandomAssumption
<1>6. r.m_bitsi = kBits => /\ Len(s.m_key) = Len(r.m_key) + 1
                           /\ \A l \in 1..Len(r.m_key) : s.m_key[l] = r.m_key[l]
                           /\ s.m_key[Len(r.m_key) + 1] = i
  <2> SUFFICES ASSUME r.m_bitsi = kBits
               PROVE  /\ Len(s.m_key) = Len(r.m_key) + 1
                      /\ \A l \in 1..Len(r.m_key) : s.m_key[l] = r.m_key[l]
                      /\ s.m_key[Len(r.m_key) + 1] = i
    OBVIOUS
  <2>1. s.m_key = Append(r.m_key, i)
    BY <1>1 DEF Appended
  <2> HIDE DEF i
  <2> QED  BY <1>2, <2>1, AppendProperties
<1>7. CASE Diverge(d.block.key, d.block.bits, d.bitsi, r.m_key, r.m_bits, r.m_bitsi)
  <2>1. PICK key \in Seq(Input) : key = d.block.key
    BY <1>3
  <2>2. PICK bits : bits = d.block.bits
    OBVIOUS
  <2>3. PICK bitsi \in 0..kBits : bitsi = d.bitsi
    BY <1>3
  <2>4. Diverge(key, bits, bitsi, r.m_key, r.m_bits, r.m_bitsi)
    BY <1>7, <2>1, <2>2, <2>3
  <2>5. Diverge(key, bits, bitsi, s.m_key, s.m_bits, s.m_bitsi)
    BY <2>4, DivergeStable
  <2>6. Diverge(d.block.key, d.block.bits, d.bitsi, s.m_key, s.m_bits, s.m_bitsi)
    BY <2>1, <2>2, <2>3, <2>5
  <2> QED  BY <2>6 DEF Beyond
<1>8. CASE /\ r.m_key = d.block.key /\ r.m_bits = d.block.bits
           /\ r.m_bitsi = d.bitsi /\ d.at < r.m_counter
  <2>1. r.m_counter = kCounterMax /\ x = 1
    BY <1>2, <1>3, <1>8
  <2>2. CASE r.m_bitsi # kBits
    <3>1. s.m_key = r.m_key /\ s.m_bits = r.m_bits \cup {r.m_bitsi}
      BY <1>1, <2>1, <2>2 DEF Appended
    <3>2. d.bitsi \notin d.block.bits
      BY <1>3 DEF Sound
    <3> QED  BY <1>8, <3>1, <3>2 DEF Beyond
  <2>3. CASE r.m_bitsi = kBits
    <3>1. i.counter # d.block.counter
      BY <1>5, <2>1 DEF Sound
    <3>2. Len(s.m_key) > n /\ s.m_key[n + 1] = i
      BY <1>4, <1>6, <1>8, <2>3
    <3> QED  BY <3>1, <3>2 DEF Beyond
  <2> QED  BY <2>2, <2>3
<1>9. CASE Len(r.m_key) = n /\ d.bitsi \in r.m_bits /\ d.bitsi \notin d.block.bits
  <2>1. CASE r.m_bitsi # kBits
    <3>1. s.m_key = r.m_key /\ d.bitsi \in s.m_bits
      BY <1>1, <1>9, <2>1 DEF Appended
    <3> QED  BY <1>9, <3>1 DEF Beyond
  <2>2. CASE r.m_bitsi = kBits
    <3>1. i.bits # d.block.bits
      BY <1>9
    <3>2. Len(s.m_key) > n /\ s.m_key[n + 1] = i
      BY <1>4, <1>6, <1>9, <2>2
    <3> QED  BY <3>1, <3>2 DEF Beyond
  <2> QED  BY <2>1, <2>2
<1>10. CASE /\ Len(r.m_key) > n
            /\ r.m_key[n + 1] # [bits |-> d.block.bits, counter |-> d.block.counter]
  <2>1. Len(s.m_key) > n /\ s.m_key[n + 1] = r.m_key[n + 1]
    <3>1. CASE r.m_bitsi # kBits
      BY <1>1, <1>10, <3>1 DEF Appended
    <3>2. CASE r.m_bitsi = kBits
      <4>1. n + 1 \in 1..Len(r.m_key)
        BY <1>4, <1>10
      <4> QED  BY SMTT(30), <1>4, <1>6, <1>10, <3>2, <4>1
    <3> QED  BY <3>1, <3>2
  <2> QED  BY <1>10, <2>1 DEF Beyond
<1> QED  BY <1>7, <1>8, <1>9, <1>10 DEF Beyond

\* The counter rounded down is the start of a block of four numbers.
LEMMA WholeBlocks ==
    \A n \in Nat : n % 4 \in 0..3 /\ n % 4 <= n /\ (n - (n % 4)) % 4 = 0
OBVIOUS

\* The number next() takes from a well-formed generator: a word of the block of
\* this very state.
LEMMA Drawing ==
    ASSUME NEW r \in Random, WellFormed(r)
    PROVE  /\ Draw(r) \in Number /\ Sound(Draw(r))
           /\ Draw(r).block = [key |-> r.m_key, bits |-> r.m_bits,
                               counter |-> r.m_counter - (r.m_counter % 4)]
           /\ Draw(r).word = r.m_counter % 4
           /\ Draw(r).at = r.m_counter /\ Draw(r).bitsi = r.m_bitsi
<1> DEFINE c == r.m_counter - (r.m_counter % 4)
           b == [key |-> r.m_key, bits |-> r.m_bits, counter |-> c]
<1>1. /\ r.m_key \in Seq(Input) /\ r.m_bits \in Bits
      /\ r.m_counter \in 0..kCounterMax /\ r.m_bitsi \in 0..kBits
  BY DEF Random
<1>2. /\ c \in 0..kCounterMax /\ c % 4 = 0 /\ r.m_counter % 4 \in 0..3
      /\ c + (r.m_counter % 4) = r.m_counter
      /\ r.m_counter % 4 = 0 => c = r.m_counter
  <2>1. kCounterMax \in Nat
    BY RandomAssumption
  <2>2. r.m_counter \in Nat /\ r.m_counter <= kCounterMax
    BY <1>1, <2>1
  <2>3. /\ r.m_counter % 4 \in 0..3 /\ r.m_counter % 4 <= r.m_counter
        /\ (r.m_counter - (r.m_counter % 4)) % 4 = 0
    BY <2>2, WholeBlocks
  <2> QED  BY <2>1, <2>2, <2>3
<1>3. CurrentBlock(r) = b
  <2>1. CASE r.m_counter % 4 = 0
    <3>1. c = r.m_counter
      BY <1>2, <2>1
    <3> HIDE DEF c
    <3> QED  BY <2>1, <3>1 DEF CurrentBlock, Mash
  <2>2. CASE r.m_counter % 4 # 0
    BY <2>2 DEF CurrentBlock, WellFormed
  <2> QED  BY <2>1, <2>2
<1>4. b \in Block
  BY <1>1, <1>2 DEF Block
<1>5. Draw(r) = [block |-> b, word |-> r.m_counter % 4, at |-> r.m_counter,
                 bitsi |-> r.m_bitsi]
  BY <1>3 DEF Draw
<1>6. b.bits = r.m_bits /\ b.counter = c
  OBVIOUS
<1> HIDE DEF b, c
<1>7. Draw(r) \in Number
  BY <1>1, <1>2, <1>4, <1>5 DEF Number
<1>8. Sound(Draw(r))
  BY <1>2, <1>5, <1>6 DEF Sound, WellFormed
<1> QED  BY <1>5, <1>7, <1>8 DEF b, c

\* No key and bits differ from themselves, however many bits count.
LEMMA DivergeIrreflexive ==
    ASSUME NEW key \in Seq(Input), NEW bits, NEW bitsi1, NEW bitsi2
    PROVE  ~Diverge(key, bits, bitsi1, key, bits, bitsi2)
<1>1. \A k \in 1..(Len(key) + 1) :
         Word(key, bits, bitsi1, k).bits = Word(key, bits, bitsi2, k).bits
  BY DEF Word
<1> QED  BY <1>1 DEF Diverge

\* A generator does not draw a number that it is beyond.
LEMMA BeyondIsNew ==
    ASSUME NEW r \in Random, WellFormed(r), NEW d \in Number, Sound(d), Beyond(d, r)
    PROVE  <<d.block, d.word>> # <<Draw(r).block, Draw(r).word>>
<1> SUFFICES ASSUME d.block = Draw(r).block, d.word = Draw(r).word
             PROVE  FALSE
  OBVIOUS
<1>1. /\ d.block.key = r.m_key /\ d.block.bits = r.m_bits
      /\ d.block.counter = Draw(r).block.counter
  <2>1. PICK b : b = d.block
    OBVIOUS
  <2>2. b = [key |-> r.m_key, bits |-> r.m_bits,
             counter |-> r.m_counter - (r.m_counter % 4)]
    BY <2>1, Drawing
  <2>3. b.key = r.m_key /\ b.bits = r.m_bits
    BY <2>2
  <2> QED  BY <2>1, <2>3
<1>2. d.at = r.m_counter
  <2>1. /\ d.block.counter + d.word = d.at
        /\ Draw(r).block.counter + Draw(r).word = Draw(r).at
        /\ Draw(r).at = r.m_counter
    BY Drawing DEF Sound
  <2> QED  BY <1>1, <2>1
<1>3. /\ d.block.key \in Seq(Input) /\ r.m_counter \in 0..kCounterMax
      /\ kCounterMax \in Nat
  BY RandomAssumption DEF Number, Block, Random
<1>4. ~Diverge(d.block.key, d.block.bits, d.bitsi, r.m_key, r.m_bits, r.m_bitsi)
  BY <1>1, <1>3, DivergeIrreflexive
<1>5. ~(d.at < r.m_counter)
  BY <1>2, <1>3
<1>6. Len(r.m_key) = Len(d.block.key) /\ Len(r.m_key) \in Nat
  BY <1>1, <1>3, LenProperties
<1>7. ~(Len(r.m_key) > Len(d.block.key))
  BY <1>6
<1> QED  BY <1>1, <1>4, <1>5, <1>7 DEF Beyond

\* The block of a number is no key on the path of a generator that is beyond it.
LEMMA BeyondIsNoKey ==
    ASSUME NEW r \in Random, WellFormed(r), NEW d \in Number, Sound(d), Beyond(d, r),
           NEW k \in DOMAIN r.m_key,
           d.block = [key |-> SubSeq(r.m_key, 1, k - 1), bits |-> r.m_key[k].bits,
                      counter |-> r.m_key[k].counter]
    PROVE  FALSE
<1> DEFINE n == Len(d.block.key)
<1>1. /\ d.block.key = SubSeq(r.m_key, 1, k - 1)
      /\ d.block.bits = r.m_key[k].bits /\ d.block.counter = r.m_key[k].counter
  <2>1. PICK b : b = d.block
    OBVIOUS
  <2>2. b = [key |-> SubSeq(r.m_key, 1, k - 1), bits |-> r.m_key[k].bits,
             counter |-> r.m_key[k].counter]
    BY <2>1
  <2>3. /\ b.key = SubSeq(r.m_key, 1, k - 1)
        /\ b.bits = r.m_key[k].bits /\ b.counter = r.m_key[k].counter
    BY <2>2
  <2> QED  BY <2>1, <2>3
<1>2. r.m_key \in Seq(Input) /\ d.block.key \in Seq(Input)
  BY DEF Random, Number, Block
<1>3. k \in 1..Len(r.m_key) /\ Len(r.m_key) \in Nat /\ k - 1 \in 0..Len(r.m_key)
  BY <1>2, LenProperties
<1>4. /\ n = k - 1
      /\ \A l \in 1..(k - 1) : d.block.key[l] = r.m_key[l]
  BY <1>1, <1>2, <1>3, SubSeqProperties
<1>5. n + 1 = k /\ Len(r.m_key) > n
  BY <1>3, <1>4
<1>6. r.m_key[k] = [bits |-> d.block.bits, counter |-> d.block.counter]
  <2>1. r.m_key[k] \in Input
    BY <1>2, <1>3, ElementOfSeq
  <2> QED  BY <1>1, <2>1 DEF Input
<1>7. ~Diverge(d.block.key, d.block.bits, d.bitsi, r.m_key, r.m_bits, r.m_bitsi)
  <2>1. \A l \in 1..(n + 1) :
           Word(d.block.key, d.block.bits, d.bitsi, l).bits =
           Word(r.m_key, r.m_bits, r.m_bitsi, l).bits
    <3> SUFFICES ASSUME NEW l \in 1..(n + 1)
                 PROVE  Word(d.block.key, d.block.bits, d.bitsi, l).bits =
                        Word(r.m_key, r.m_bits, r.m_bitsi, l).bits
      OBVIOUS
    <3>1. l <= Len(r.m_key)
      BY <1>3, <1>4
    <3>2. CASE l <= n
      BY <1>3, <1>4, <3>1, <3>2 DEF Word
    <3>3. CASE ~(l <= n)
      <4>1. l = k
        BY <1>3, <1>4, <3>3
      <4> QED  BY <1>1, <3>1, <3>3, <4>1 DEF Word
    <3> QED  BY <3>2, <3>3
  <2> QED  BY <2>1 DEF Diverge
<1>8. Len(r.m_key) # n
  BY <1>3, <1>5
<1>9. r.m_key # d.block.key
  BY <1>8
<1> QED  BY <1>5, <1>6, <1>7, <1>8, <1>9 DEF Beyond

-----------------------------------------------------------------------------
(* next *)

\* A counter that is no multiple of four is in the block of the one before.
LEMMA SameBlock ==
    \A n \in Nat : (n + 1) % 4 # 0 => n + 1 - ((n + 1) % 4) = n - (n % 4)
OBVIOUS

\* What holds of the generator t that next() makes of r.
Advanced(r, t) ==
    /\ t \in Random /\ WellFormed(t)
    /\ \A h \in Random : Apart(h, r) => Apart(h, t)
    /\ \A d \in Number : Sound(d) /\ Beyond(d, r) => Beyond(d, t)
    /\ Beyond(Draw(r), t)

\* next() yields Advanced, whether the counter is exhausted or not.
LEMMA Advancing ==
    ASSUME NEW r \in Random, WellFormed(r),
           NEW u, u = [r EXCEPT !.m_block = CurrentBlock(r)]
    PROVE  /\ r.m_counter = kCounterMax => Advanced(r, Wrap(u))
           /\ r.m_counter # kCounterMax => Advanced(r, [u EXCEPT !.m_counter = @ + 1])
<1>1. /\ r.m_key \in Seq(Input) /\ r.m_bits \in Bits /\ r.m_block \in Block
      /\ r.m_counter \in 0..kCounterMax /\ r.m_bitsi \in 0..kBits
  BY DEF Random
<1>2. kCounterMax \in Nat /\ kCounterMax % 4 = 3
  BY RandomAssumption
<1>3. PICK b \in Block : /\ b = CurrentBlock(r)
                         /\ b = [key |-> r.m_key, bits |-> r.m_bits,
                                 counter |-> r.m_counter - (r.m_counter % 4)]
  BY Drawing DEF Draw, Number
<1>4. u = [m_key |-> r.m_key, m_block |-> b, m_bits |-> r.m_bits,
           m_counter |-> r.m_counter, m_bitsi |-> r.m_bitsi]
  BY <1>3 DEF Random
<1>5. u \in Random
  BY <1>1, <1>3, <1>4 DEF Random
<1>6. WellFormed(u)
  BY <1>3, <1>4 DEF WellFormed
<1>7. PICK n \in Number : /\ n = Draw(r) /\ Sound(n)
                          /\ n.block.key = r.m_key /\ n.block.bits = r.m_bits
                          /\ n.bitsi = r.m_bitsi /\ n.at = r.m_counter
  <2>1. PICK n \in Number : n = Draw(r)
    BY Drawing
  <2>2. n.block = b /\ Sound(n) /\ n.at = r.m_counter /\ n.bitsi = r.m_bitsi
    BY <1>3, <2>1, Drawing
  <2> QED  BY <1>3, <2>1, <2>2
<1>8. ASSUME r.m_counter = kCounterMax
      PROVE  Advanced(r, Wrap(u))
  <2>1. PICK s : s = AppendBit(u, 1)
    OBVIOUS
  <2>2. Appended(u, 1, s)
    BY <1>5, <1>6, <2>1, Appending
  <2>3. PICK t : t = Wrap(u)
    OBVIOUS
  <2>4. t = [m_key |-> s.m_key, m_block |-> s.m_block, m_bits |-> s.m_bits,
             m_counter |-> 0, m_bitsi |-> s.m_bitsi]
    BY <2>1, <2>2, <2>3 DEF Wrap, Appended, Random
  <2>5. t \in Random
    BY <1>2, <2>2, <2>4 DEF Appended, Random
  <2>6. WellFormed(t)
    <3>1. 0 % 4 = 0
      OBVIOUS
    <3> QED  BY <2>2, <2>4, <3>1 DEF Appended, WellFormed
  <2>7. ASSUME NEW h \in Random, Apart(h, r)
        PROVE  Apart(h, t)
    <3>1. h.m_key \in Seq(Input) /\ h.m_bitsi \in 0..kBits
      BY DEF Random
    <3>2. Diverge(h.m_key, h.m_bits, h.m_bitsi, u.m_key, u.m_bits, u.m_bitsi)
      BY <1>4, <2>7 DEF Apart
    <3>3. Diverge(h.m_key, h.m_bits, h.m_bitsi, s.m_key, s.m_bits, s.m_bitsi)
      BY <1>5, <1>6, <2>1, <3>1, <3>2, DivergeStable
    <3> QED  BY <2>4, <3>3 DEF Apart
  <2>8. ASSUME NEW d \in Number, Sound(d), Beyond(d, u)
        PROVE  Beyond(d, t)
    <3>1. u.m_counter = kCounterMax
      BY <1>4, <1>8
    <3>2. t.m_key = s.m_key /\ t.m_bits = s.m_bits /\ t.m_bitsi = s.m_bitsi
      BY <2>4
    <3> QED  BY <1>5, <1>6, <2>1, <2>5, <2>8, <3>1, <3>2, BeyondStable
  <2>9. ASSUME NEW d \in Number, Sound(d), Beyond(d, r)
        PROVE  Beyond(d, t)
    <3>1. Beyond(d, u)
      BY <1>4, <2>9 DEF Beyond
    <3> QED  BY <2>8, <2>9, <3>1
  <2>10. Beyond(n, t)
    <3>1. CASE r.m_bitsi # kBits
      <4>1. t.m_key = r.m_key /\ t.m_bits = r.m_bits \cup {r.m_bitsi}
        BY <1>4, <2>2, <2>4, <3>1 DEF Appended
      <4>2. r.m_bitsi \notin r.m_bits
        BY <1>1 DEF WellFormed
      <4> QED  BY <1>7, <4>1, <4>2 DEF Beyond
    <3>2. CASE r.m_bitsi = kBits
      <4> DEFINE i == [bits |-> r.m_bits, counter |-> r.m_counter]
      <4>1. t.m_key = Append(r.m_key, i) /\ i \in Input
        BY <1>1, <1>4, <2>2, <2>4, <3>2 DEF Appended, Input
      <4>2. i.counter # n.block.counter
        BY <1>2, <1>7, <1>8 DEF Sound
      <4>3. i # [bits |-> n.block.bits, counter |-> n.block.counter]
        BY <4>2
      <4> HIDE DEF i
      <4>4. Len(t.m_key) = Len(r.m_key) + 1 /\ t.m_key[Len(r.m_key) + 1] = i
        BY <1>1, <4>1, AppendProperties
      <4>5. Len(r.m_key) \in Nat
        BY <1>1, LenProperties
      <4>6. Len(t.m_key) > Len(n.block.key) /\ t.m_key[Len(n.block.key) + 1] = i
        BY <1>7, <4>4, <4>5
      <4> QED  BY <4>3, <4>6 DEF Beyond
    <3> QED  BY <3>1, <3>2
  <2> QED  BY <1>7, <2>3, <2>5, <2>6, <2>7, <2>9, <2>10 DEF Advanced
<1>9. ASSUME r.m_counter # kCounterMax
      PROVE  Advanced(r, [u EXCEPT !.m_counter = @ + 1])
  <2>1. PICK t : t = [u EXCEPT !.m_counter = @ + 1]
    OBVIOUS
  <2>2. t = [m_key |-> r.m_key, m_block |-> b, m_bits |-> r.m_bits,
             m_counter |-> r.m_counter + 1, m_bitsi |-> r.m_bitsi]
    BY <1>4, <2>1
  <2>3. r.m_counter \in Nat /\ r.m_counter + 1 \in 0..kCounterMax
    BY <1>1, <1>2, <1>9
  <2>4. t \in Random
    BY <1>1, <2>2, <2>3 DEF Random
  <2>5. WellFormed(t)
    <3>1. PICK c \in Nat : /\ c = r.m_counter + 1
                           /\ c % 4 # 0 => c - (c % 4) = r.m_counter - (r.m_counter % 4)
      BY <2>3, SameBlock
    <3>2. t.m_counter % 4 # 0 =>
             t.m_block = [key |-> t.m_key, bits |-> t.m_bits,
                          counter |-> t.m_counter - (t.m_counter % 4)]
      <4>1. t = [m_key |-> r.m_key, m_block |-> b, m_bits |-> r.m_bits,
                 m_counter |-> c, m_bitsi |-> r.m_bitsi]
        BY <2>2, <3>1
      <4>2. c % 4 # 0 => b = [key |-> r.m_key, bits |-> r.m_bits, counter |-> c - (c % 4)]
        BY <1>3, <3>1
      <4> QED  BY <4>1, <4>2
    <3>3. \A j \in t.m_bits : j < t.m_bitsi
      BY <2>2 DEF WellFormed
    <3> QED  BY <3>2, <3>3 DEF WellFormed
  <2>6. ASSUME NEW h \in Random, Apart(h, r)
        PROVE  Apart(h, t)
    BY <2>2, <2>6 DEF Apart
  <2>7. ASSUME NEW d \in Number, Sound(d), Beyond(d, r)
        PROVE  Beyond(d, t)
    <3>1. d.at < r.m_counter => d.at < r.m_counter + 1
      BY <2>3 DEF Number
    <3> QED  BY <2>2, <2>7, <3>1 DEF Beyond
  <2>8. Beyond(n, t)
    <3>1. r.m_counter < r.m_counter + 1
      BY <2>3
    <3> QED  BY <1>7, <2>2, <3>1 DEF Beyond
  <2> QED  BY <1>7, <2>1, <2>4, <2>5, <2>6, <2>7, <2>8 DEF Advanced
<1> QED  BY <1>8, <1>9

-----------------------------------------------------------------------------
(* The inductive invariant *)

\* A single seeded generator satisfies the invariant.
LEMMA InitIInv == Init => IInv
<1> SUFFICES ASSUME Init
             PROVE  IInv
  OBVIOUS
<1>1. kBits \in Nat \ {0} /\ kCounterMax \in Nat
  BY RandomAssumption
<1>2. <<>> \in Seq(Input) /\ {} \in Bits /\ 0 \in 0..kCounterMax /\ 0 \in 0..kBits
  BY <1>1, EmptySeq DEF Bits
<1>3. Seeded \in Random
  BY <1>2 DEF Seeded, Random, Block
<1>4. live = <<Seeded>> /\ drawn = {}
  BY DEF Init
<1>5. live \in Seq(Random) /\ DOMAIN live = {1} /\ live[1] = Seeded
  <2>1. 1..1 = {1}
    OBVIOUS
  <2> QED  BY <1>3, <1>4, <2>1
<1>6. WellFormed(Seeded)
  BY DEF WellFormed, Seeded
<1>7. TypeOK
  BY <1>4, <1>5 DEF TypeOK
<1>8. LiveApart
  BY <1>5 DEF LiveApart
<1>9. DrawnBeyond
  BY <1>4 DEF DrawnBeyond
<1>10. Consistent
  BY <1>4, <1>5, <1>6 DEF Consistent
<1> QED  BY <1>7, <1>8, <1>9, <1>10 DEF IInv

\* split() keeps the invariant: the halves differ in their last bit.
LEMMA SplitStep ==
    ASSUME IInv, NEW g \in DOMAIN live, Split(g)
    PROVE  IInv'
<1> DEFINE r == live[g]
           n == Len(live)
<1>1. PICK s : s = AppendBit(r, 0)
  OBVIOUS
<1>2. PICK t : t = AppendBit(r, 1)
  OBVIOUS
<1>3. /\ live \in Seq(Random) /\ DOMAIN live = 1..n /\ n \in Nat /\ g \in 1..n
      /\ \A h \in 1..n : live[h] \in Random /\ WellFormed(live[h])
      /\ \A d \in drawn : d \in Number /\ Sound(d)
  <2>1. live \in Seq(Random)
    BY DEF IInv, TypeOK
  <2> QED  BY <2>1, LenProperties, ElementOfSeq DEF IInv, TypeOK, Consistent
<1>4. r \in Random /\ WellFormed(r)
  BY <1>3
<1>5. r.m_counter = 0 /\ live' = Append([live EXCEPT ![g] = s], t) /\ drawn' = drawn
  BY <1>1, <1>2 DEF Split
<1>6. Appended(r, 0, s) /\ Appended(r, 1, t)
  BY <1>1, <1>2, <1>4, Appending
<1>7. /\ s \in Random /\ WellFormed(s) /\ t \in Random /\ WellFormed(t)
  <2>1. 0 % 4 = 0
    OBVIOUS
  <2> QED  BY <1>5, <1>6, <2>1 DEF Appended, WellFormed
<1>8. PICK m \in Seq(Random) : /\ m = [live EXCEPT ![g] = s] /\ Len(m) = n
                               /\ m[g] = s
                               /\ \A h \in 1..n : h # g => m[h] = live[h]
  <2>1. PICK m : m = [live EXCEPT ![g] = s]
    OBVIOUS
  <2>2. m \in Seq(Random)
    BY <1>3, <1>7, <2>1
  <2>3. DOMAIN m = DOMAIN live /\ m[g] = s /\ \A h \in 1..n : h # g => m[h] = live[h]
    BY <1>3, <2>1
  <2>4. Len(m) = n
    <3> HIDE DEF n
    <3> QED  BY <1>3, <2>2, <2>3, LenProperties
  <2> QED  BY <2>1, <2>2, <2>3, <2>4
<1>9. /\ live' \in Seq(Random) /\ DOMAIN live' = 1..(n + 1)
      /\ \A h \in 1..n : live'[h] = m[h]
      /\ live'[n + 1] = t
  BY <1>3, <1>5, <1>7, <1>8, AppendProperties
<1>10. /\ live'[g] = s /\ live'[n + 1] = t
       /\ \A h \in DOMAIN live' : h = g \/ h = n + 1 \/ (h \in 1..n /\ h # g /\ live'[h] = live[h])
  BY <1>3, <1>8, <1>9
<1> HIDE DEF r, n
<1>11. TypeOK'
  BY <1>3, <1>5, <1>9 DEF TypeOK, IInv
<1>12. Consistent'
  BY <1>3, <1>5, <1>7, <1>10 DEF Consistent
<1>13. LiveApart'
  <2>1. \A h \in 1..n : h # g => /\ Apart(live[h], s) /\ Apart(live[h], t)
                                /\ Apart(s, live[h]) /\ Apart(t, live[h])
    <3> SUFFICES ASSUME NEW h \in 1..n, h # g
                 PROVE  /\ Apart(live[h], s) /\ Apart(live[h], t)
                        /\ Apart(s, live[h]) /\ Apart(t, live[h])
      OBVIOUS
    <3>1. PICK q \in Random : q = live[h]
      BY <1>3
    <3>2. Diverge(q.m_key, q.m_bits, q.m_bitsi, r.m_key, r.m_bits, r.m_bitsi)
      BY <1>3, <3>1 DEF IInv, LiveApart, Apart, r
    <3>3. /\ q.m_key \in Seq(Input) /\ q.m_bitsi \in 0..kBits
          /\ s.m_key \in Seq(Input) /\ t.m_key \in Seq(Input)
      BY <1>7 DEF Random
    <3>4. Diverge(q.m_key, q.m_bits, q.m_bitsi, s.m_key, s.m_bits, s.m_bitsi)
      BY <1>1, <1>4, <3>2, <3>3, DivergeStable
    <3>5. Diverge(q.m_key, q.m_bits, q.m_bitsi, t.m_key, t.m_bits, t.m_bitsi)
      BY <1>2, <1>4, <3>2, <3>3, DivergeStable
    <3>6. Diverge(s.m_key, s.m_bits, s.m_bitsi, q.m_key, q.m_bits, q.m_bitsi)
      BY <3>3, <3>4, DivergeSymmetric
    <3>7. Diverge(t.m_key, t.m_bits, t.m_bitsi, q.m_key, q.m_bits, q.m_bitsi)
      BY <3>3, <3>5, DivergeSymmetric
    <3> QED  BY <3>1, <3>4, <3>5, <3>6, <3>7 DEF Apart
  <2>2. Apart(s, t)
    BY <1>1, <1>2, <1>4, HalvesApart
  <2>3. Apart(t, s)
    <3>1. s.m_key \in Seq(Input) /\ t.m_key \in Seq(Input)
      BY <1>7 DEF Random
    <3> QED  BY <2>2, <3>1, DivergeSymmetric DEF Apart
  <2>4. \A h, k \in 1..n : h # k => Apart(live[h], live[k])
    BY <1>3 DEF IInv, LiveApart
  <2>5. g # n + 1
    BY <1>3
  <2> QED  BY <1>10, <2>1, <2>2, <2>3, <2>4, <2>5 DEF LiveApart
<1>14. DrawnBeyond'
  <2>1. \A d \in drawn : Beyond(d, s) /\ Beyond(d, t)
    <3> SUFFICES ASSUME NEW d \in drawn
                 PROVE  Beyond(d, s) /\ Beyond(d, t)
      OBVIOUS
    <3>1. Beyond(d, r)
      BY <1>3 DEF IInv, DrawnBeyond, r
    <3>2. d \in Number /\ Sound(d)
      BY <1>3
    <3>3. Beyond(d, s)
      BY <1>1, <1>4, <1>5, <1>7, <3>1, <3>2, BeyondStable DEF r
    <3>4. Beyond(d, t)
      BY <1>2, <1>4, <1>5, <1>7, <3>1, <3>2, BeyondStable DEF r
    <3> QED  BY <3>3, <3>4
  <2>2. \A d \in drawn, h \in 1..n : Beyond(d, live[h])
    BY <1>3 DEF IInv, DrawnBeyond
  <2> QED  BY <1>5, <1>10, <2>1, <2>2 DEF DrawnBeyond
<1> QED  BY <1>11, <1>12, <1>13, <1>14 DEF IInv

\* next() keeps the invariant: the generator moves past the number it returns.
LEMMA DrawStep ==
    ASSUME IInv, NEW g \in DOMAIN live, DrawNumber(g)
    PROVE  IInv'
<1> DEFINE r == live[g]
           n == Len(live)
<1>1. /\ live \in Seq(Random) /\ DOMAIN live = 1..n /\ n \in Nat /\ g \in 1..n
      /\ \A h \in 1..n : live[h] \in Random /\ WellFormed(live[h])
      /\ \A d \in drawn : d \in Number /\ Sound(d)
  <2>1. live \in Seq(Random)
    BY DEF IInv, TypeOK
  <2> QED  BY <2>1, LenProperties, ElementOfSeq DEF IInv, TypeOK, Consistent
<1>2. r \in Random /\ WellFormed(r)
  BY <1>1
<1>3. PICK u : u = [r EXCEPT !.m_block = CurrentBlock(r)]
  OBVIOUS
<1>4. /\ drawn' = drawn \cup {Draw(r)}
      /\ \/ r.m_counter = kCounterMax /\ live' = [live EXCEPT ![g] = Wrap(u)]
         \/ r.m_counter # kCounterMax /\ live' = [live EXCEPT ![g] = [u EXCEPT !.m_counter = @ + 1]]
  <2>1. u.m_counter = r.m_counter
    BY <1>2, <1>3 DEF Random
  <2> QED  BY <1>3, <2>1 DEF DrawNumber
<1>5. PICK t : live' = [live EXCEPT ![g] = t] /\ Advanced(r, t)
  BY <1>2, <1>3, <1>4, Advancing
<1>6. Draw(r) \in Number /\ Sound(Draw(r))
  BY <1>2, Drawing
<1>7. /\ live' \in Seq(Random) /\ DOMAIN live' = 1..n /\ live'[g] = t
      /\ \A h \in 1..n : h # g => live'[h] = live[h]
  BY <1>1, <1>5 DEF Advanced
<1> HIDE DEF r, n
<1>8. TypeOK'
  BY <1>1, <1>4, <1>6, <1>7 DEF TypeOK
<1>9. Consistent'
  BY <1>1, <1>4, <1>5, <1>6, <1>7 DEF Consistent, Advanced
<1>10. LiveApart'
  <2>1. \A h, k \in 1..n : h # k => Apart(live[h], live[k])
    BY <1>1 DEF IInv, LiveApart
  <2>2. \A h \in 1..n : h # g => Apart(live[h], t) /\ Apart(t, live[h])
    <3> SUFFICES ASSUME NEW h \in 1..n, h # g
                 PROVE  Apart(live[h], t) /\ Apart(t, live[h])
      OBVIOUS
    <3>1. PICK q \in Random : q = live[h]
      BY <1>1
    <3>2. Apart(q, t)
      BY <1>1, <1>5, <2>1, <3>1 DEF Advanced, r
    <3>3. q.m_key \in Seq(Input) /\ t.m_key \in Seq(Input)
      BY <1>5 DEF Random, Advanced
    <3>4. Apart(t, q)
      BY <3>2, <3>3, DivergeSymmetric DEF Apart
    <3> QED  BY <3>1, <3>2, <3>4
  <2> QED  BY <1>7, <2>1, <2>2 DEF LiveApart
<1>11. DrawnBeyond'
  <2>1. \A d \in drawn, h \in 1..n : Beyond(d, live[h])
    BY <1>1 DEF IInv, DrawnBeyond
  <2>2. \A d \in drawn : Beyond(d, t)
    BY <1>1, <1>5, <2>1 DEF Advanced, r
  <2>3. Beyond(Draw(r), t)
    BY <1>5 DEF Advanced
  <2>4. \A h \in 1..n : h # g => Beyond(Draw(r), live[h])
    <3> SUFFICES ASSUME NEW h \in 1..n, h # g
                 PROVE  Beyond(Draw(r), live[h])
      OBVIOUS
    <3>1. PICK q \in Random : q = live[h]
      BY <1>1
    <3>2. Diverge(r.m_key, r.m_bits, r.m_bitsi, q.m_key, q.m_bits, q.m_bitsi)
      BY <1>1, <3>1 DEF IInv, LiveApart, Apart, r
    <3>3. /\ Draw(r).block.key = r.m_key /\ Draw(r).block.bits = r.m_bits
          /\ Draw(r).bitsi = r.m_bitsi
      <4>1. PICK b : /\ b = Draw(r).block
                     /\ b = [key |-> r.m_key, bits |-> r.m_bits,
                             counter |-> r.m_counter - (r.m_counter % 4)]
        BY <1>2, Drawing
      <4>2. b.key = r.m_key /\ b.bits = r.m_bits
        BY <4>1
      <4> QED  BY <1>2, <4>1, <4>2, Drawing
    <3> QED  BY <3>1, <3>2, <3>3 DEF Beyond
  <2> QED  BY <1>4, <1>7, <2>1, <2>2, <2>3, <2>4 DEF DrawnBeyond
<1> QED  BY <1>8, <1>9, <1>10, <1>11 DEF IInv

\* split() and next() keep live generators apart from each other and beyond every
\* number drawn.
THEOREM Invariance == Spec => []IInv
<1>1. Init => IInv
  BY InitIInv
<1>2. IInv /\ [Next]_vars => IInv'
  <2> SUFFICES ASSUME IInv, [Next]_vars
               PROVE  IInv'
    OBVIOUS
  <2>1. ASSUME NEW g \in DOMAIN live, Split(g)
        PROVE  IInv'
    BY <2>1, SplitStep
  <2>2. ASSUME NEW g \in DOMAIN live, DrawNumber(g)
        PROVE  IInv'
    BY <2>2, DrawStep
  <2>3. CASE UNCHANGED vars
    BY <2>3 DEF vars, IInv, TypeOK, LiveApart, DrawnBeyond, Consistent
  <2> QED  BY <2>1, <2>2, <2>3 DEF Next
<1> QED  BY <1>1, <1>2, PTL DEF Spec

\* Random keeps its types: the bits never outgrow their word.
THEOREM TypeCorrect == Spec => []TypeOK
<1>1. IInv => TypeOK
  BY DEF IInv
<1> QED  BY <1>1, Invariance, PTL

\* split and next never return a number twice, whatever the width of the bits and
\* of the counter.
THEOREM NoRepeats == Spec => []NumbersNeverRepeat
<1>1. IInv => NumbersNeverRepeat
  <2> SUFFICES ASSUME IInv, NEW g \in DOMAIN live, NEW d \in drawn
               PROVE  <<d.block, d.word>> # <<Draw(live[g]).block, Draw(live[g]).word>>
    BY DEF NumbersNeverRepeat
  <2>1. PICK r \in Random : r = live[g] /\ WellFormed(r) /\ Beyond(d, r)
    BY ElementOfSeq DEF IInv, TypeOK, Consistent, DrawnBeyond
  <2>2. d \in Number /\ Sound(d)
    BY DEF IInv, TypeOK, Consistent
  <2> QED  BY <2>1, <2>2, BeyondIsNew
<1> QED  BY <1>1, Invariance, PTL

\* append and next never make a block that was handed out the key of a generator.
THEOREM NoKeyLeaks == Spec => []KeysNeverDrawn
<1>1. IInv => KeysNeverDrawn
  <2> SUFFICES ASSUME IInv, NEW d \in drawn, NEW g \in DOMAIN live,
                      NEW k \in DOMAIN live[g].m_key,
                      d.block = [key |-> SubSeq(live[g].m_key, 1, k - 1),
                                 bits |-> live[g].m_key[k].bits,
                                 counter |-> live[g].m_key[k].counter]
               PROVE  FALSE
    BY DEF KeysNeverDrawn
  <2>1. PICK r \in Random : r = live[g] /\ WellFormed(r) /\ Beyond(d, r)
    BY ElementOfSeq DEF IInv, TypeOK, Consistent, DrawnBeyond
  <2>2. d \in Number /\ Sound(d)
    BY DEF IInv, TypeOK, Consistent
  <2> QED  BY <2>1, <2>2, BeyondIsNoKey
<1> QED  BY <1>1, Invariance, PTL

=============================================================================
