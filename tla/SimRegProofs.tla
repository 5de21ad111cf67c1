---------------------------- MODULE SimRegProofs ----------------------------
(* Theorems about the operators of SimReg, for words, digits and registers of *)
(* every size and for every value of their bits, the unused ones included.    *)
(* The loops of the code are recursive functions here.  A recursion has at    *)
(* most one function (SameRecursion), so that the vectors a loop should go    *)
(* through are the ones it goes through if each follows from the last by a    *)
(* step of it; both rest on Induction, which well-foundedness of the numbers  *)
(* gives for a set of them.                                                   *)
EXTENDS SimReg, TLAPS, WellFoundedInduction

-----------------------------------------------------------------------------
(* Numbers and recursion *)

\* A set of numbers that has 0, and with each number the next, has them all.
LEMMA Induction ==
    ASSUME NEW G, 0 \in G, \A n \in Nat : n \in G => n + 1 \in G
    PROVE  Nat \subseteq G
<1> DEFINE R == OpToRel(<, Nat)
           T == Nat \ G
<1>1. IsWellFoundedOn(R, Nat)
  BY NatLessThanWellFounded
<1>2. \A y, z \in Nat : y < z => <<y, z>> \in R
  BY DEF OpToRel
<1> HIDE DEF R
<1>3. ASSUME T # {} PROVE FALSE
  <2>1. PICK z \in T : \A y \in T : ~(<<y, z>> \in R)
    BY <1>1, <1>3, WFMin
  <2>2. z # 0 /\ z - 1 \in Nat /\ z - 1 < z /\ z \in Nat
    OBVIOUS
  <2>3. z - 1 \in G
    BY <1>2, <2>1, <2>2
  <2> QED
    BY <2>1, <2>2, <2>3
<1> QED
  BY <1>3

\* Functions on 0 .. n with the same first value and of which the next value
\* follows alike from the last are the same.
LEMMA SameRecursion ==
    ASSUME NEW n \in Nat, NEW f, NEW g, f[0] = g[0],
           \A k \in 1 .. n : f[k - 1] = g[k - 1] => f[k] = g[k]
    PROVE  \A k \in 0 .. n : f[k] = g[k]
<1> DEFINE G == {k \in Nat : k <= n => f[k] = g[k]}
<1>1. 0 \in G
  OBVIOUS
<1>2. ASSUME NEW k \in Nat, k \in G PROVE k + 1 \in G
  <2>1. CASE k + 1 <= n
    <3>1. k + 1 \in 1 .. n /\ (k + 1) - 1 = k /\ f[k] = g[k]
      BY <1>2, <2>1
    <3> QED
      BY <3>1
  <2>2. CASE ~(k + 1 <= n)
    BY <2>2
  <2> QED
    BY <2>1, <2>2
<1> HIDE DEF G
<1>3. Nat \subseteq G
  BY <1>1, <1>2, Induction
<1> QED
  BY <1>3 DEF G

\* step[k] is the k-th step of a recursion, from a value in S to one in S, and g
\* the values of the recursion from c.
StepsIn(step, n, S) == \A k \in 1 .. n : \A v \in S : step[k][v] \in S

Recurs(g, c, n, step) == g[0] = c /\ \A k \in 1 .. n : g[k] = step[k][g[k - 1]]

\* A recursion along 0 .. n that stays in a set has values.
LEMMA Recursion ==
    ASSUME NEW S, NEW c, c \in S, NEW n, n \in Nat, NEW step, StepsIn(step, n, S)
    PROVE  \E g \in [0 .. n -> S] : Recurs(g, c, n, step)
<1> DEFINE Good(m) == \E g \in [0 .. m -> S] : g[0] = c /\ \A i \in 1 .. m : g[i] = step[i][g[i - 1]]
           G == {m \in Nat : m <= n => Good(m)}
<1>1. 0 \in G
  <2> DEFINE g == [i \in 0 .. 0 |-> c]
  <2>1. g \in [0 .. 0 -> S] /\ g[0] = c /\ \A i \in 1 .. 0 : g[i] = step[i][g[i - 1]]
    OBVIOUS
  <2> QED
    BY <2>1
<1>2. ASSUME NEW m \in Nat, m \in G PROVE m + 1 \in G
  <2>1. CASE m + 1 <= n
    <3>1. PICK g \in [0 .. m -> S] : g[0] = c /\ \A i \in 1 .. m : g[i] = step[i][g[i - 1]]
      BY <1>2, <2>1
    <3> DEFINE h == [i \in 0 .. m + 1 |-> IF i = m + 1 THEN step[m + 1][g[m]] ELSE g[i]]
    <3>2. step[m + 1][g[m]] \in S
      BY <3>1, <2>1 DEF StepsIn
    <3>3. h \in [0 .. m + 1 -> S] /\ h[0] = c
      BY <3>1, <3>2
    <3>4. ASSUME NEW i \in 1 .. m + 1 PROVE h[i] = step[i][h[i - 1]]
      <4>1. CASE i = m + 1
        BY <4>1
      <4>2. CASE i # m + 1
        <5>1. i \in 1 .. m /\ i - 1 \in 0 .. m
          BY <4>2
        <5> QED
          BY <5>1, <3>1
      <4> QED
        BY <4>1, <4>2
    <3> HIDE DEF h
    <3>5. Good(m + 1)
      BY <3>3, <3>4
    <3> QED
      BY <3>5
  <2>2. CASE ~(m + 1 <= n)
    BY <2>2
  <2> QED
    BY <2>1, <2>2
<1> HIDE DEF G
<1>3. n \in G
  BY <1>1, <1>2, Induction
<1> QED
  BY <1>3 DEF G, Recurs

\* A number is a multiple of another and a remainder.
LEMMA DivMod ==
    ASSUME NEW a \in Nat, NEW b \in Nat \ {0}
    PROVE  /\ a \div b \in Nat /\ a % b \in 0 .. b - 1
           /\ a = (a \div b) * b + (a % b)
  OBVIOUS

\* The multiple and the remainder are the quotient and %.
LEMMA DivIs ==
    ASSUME NEW b \in Nat \ {0}, NEW k \in Nat, NEW m \in 0 .. b - 1
    PROVE  (k * b + m) \div b = k /\ (k * b + m) % b = m
<1> DEFINE a == k * b + m
           d == a \div b
           e == a % b
<1>1. a \in Nat /\ k * b \in Nat
  OBVIOUS
<1>2. d \in Nat /\ e \in 0 .. b - 1 /\ a = d * b + e
  <2> HIDE DEF a
  <2> QED
    BY <1>1, DivMod
<1>3. d * b + e = k * b + m
  BY <1>2
<1> HIDE DEF d, e, a
<1>4. ASSUME d + 1 <= k PROVE FALSE
  <2>1. (d + 1) * b <= k * b
    BY <1>2, <1>4
  <2>2. (d + 1) * b = d * b + b /\ d * b \in Nat
    BY <1>2
  <2> QED
    BY <1>1, <1>2, <1>3, <2>1, <2>2
<1>5. ASSUME k + 1 <= d PROVE FALSE
  <2>1. (k + 1) * b <= d * b
    BY <1>2, <1>5
  <2>2. (k + 1) * b = k * b + b /\ d * b \in Nat
    BY <1>2
  <2> QED
    BY <1>1, <1>2, <1>3, <2>1, <2>2
<1>6. d = k
  BY <1>2, <1>4, <1>5
<1>7. e = m
  BY <1>1, <1>2, <1>3, <1>6
<1> QED
  BY <1>6, <1>7 DEF d, e, a

\* A number below n times h has a quotient below n.
LEMMA BelowProduct ==
    ASSUME NEW n \in Nat, NEW a \in Nat, NEW b \in Nat, NEW h \in Nat, a * h + b < n * h
    PROVE  a < n
<1>1. ASSUME n <= a PROVE FALSE
  <2>1. PICK m \in Nat : a = n + m
    <3>1. a - n \in Nat /\ a = n + (a - n)
      BY <1>1
    <3> QED
      BY <3>1
  <2>2. a * h = n * h + m * h /\ m * h \in Nat /\ n * h \in Nat
    BY <2>1
  <2> QED
    BY <2>2
<1> QED
  BY <1>1

-----------------------------------------------------------------------------
(* Words *)

\* A position of a register and the word it is in.
LEMMA WordOf ==
    ASSUME NEW i \in Nat
    PROVE  /\ i \div W \in Nat
           /\ (i \div W) * W <= i /\ i <= (i \div W) * W + W - 1
  BY SimRegAssumption

\* The words of a register hold its bits, and the whole word of each of them.
LEMMA WordsHoldBits ==
    ASSUME NEW w \in Nat \ {0}
    PROVE  /\ WidthWords(w) \in Nat /\ w <= WidthWords(w) * W
           /\ \A i \in Positions(w) :
                 (i \div W) * W .. (i \div W) * W + W - 1 \subseteq Positions(w)
<1>1. WidthWords(w) \in Nat /\ w <= WidthWords(w) * W
  <2>1. w - 1 \in Nat
    OBVIOUS
  <2>2. (w - 1) \div W \in Nat /\ w - 1 <= ((w - 1) \div W) * W + W - 1
    BY <2>1, WordOf
  <2>3. WidthWords(w) * W = ((w - 1) \div W) * W + W
    BY <2>2, SimRegAssumption DEF WidthWords
  <2> QED
    BY <2>2, <2>3, SimRegAssumption DEF WidthWords
<1>2. ASSUME NEW i \in Positions(w), NEW j \in (i \div W) * W .. (i \div W) * W + W - 1
      PROVE  j \in Positions(w)
  <2> DEFINE n == WidthWords(w)
  <2> DEFINE k == i \div W
  <2>1. n \in Nat /\ W \in Nat \ {0} /\ i \in 0 .. n * W - 1
    BY <1>1, SimRegAssumption DEF Positions
  <2>2. k \in Nat /\ k * W <= i
    BY <2>1, WordOf
  <2> HIDE DEF n, k
  <2>3. k + 1 <= n
    <3>1. ASSUME n <= k PROVE FALSE
      <4>1. n * W <= k * W
        BY <2>1, <2>2, <3>1
      <4> QED
        BY <2>1, <2>2, <4>1
    <3> QED
      BY <2>1, <2>2, <3>1
  <2>4. (k + 1) * W <= n * W
    BY <2>1, <2>2, <2>3
  <2>5. k * W \in Nat /\ (k + 1) * W = k * W + W /\ n * W \in Nat
    BY <2>1, <2>2
  <2>6. j \in k * W .. k * W + W - 1
    BY DEF k
  <2>7. j \in 0 .. n * W - 1
    BY <2>1, <2>4, <2>5, <2>6
  <2> QED
    BY <2>7 DEF n, Positions
<1> QED
  BY <1>1, <1>2

\* A position below that of word n is in a word below n.
LEMMA WordBounds ==
    ASSUME NEW i \in Nat, NEW n \in Nat, i < n * W
    PROVE  i \div W < n
<1> DEFINE k == i \div W
<1>1. k \in Nat /\ k * W <= i /\ W \in Nat \ {0}
  BY WordOf, SimRegAssumption
<1> HIDE DEF k
<1>2. ASSUME n <= k PROVE FALSE
  <2>1. n * W <= k * W
    BY <1>1, <1>2
  <2>2. n * W \in Nat /\ k * W \in Nat
    BY <1>1
  <2> QED
    BY <1>1, <2>1, <2>2
<1>3. k < n
  BY <1>1, <1>2
<1> QED
  BY <1>3 DEF k

\* The next position is not in a word below.
LEMMA NextWord ==
    ASSUME NEW i \in Nat
    PROVE  i \div W <= (i + 1) \div W
<1> DEFINE k == i \div W
           m == (i + 1) \div W
<1>1. k \in Nat /\ k * W <= i /\ W \in Nat \ {0}
  BY WordOf, SimRegAssumption
<1>2. m \in Nat /\ i + 1 <= m * W + W - 1
  BY WordOf
<1> HIDE DEF k, m
<1>3. ASSUME m + 1 <= k PROVE FALSE
  <2>1. (m + 1) * W <= k * W
    BY <1>1, <1>2, <1>3
  <2>2. (m + 1) * W = m * W + W /\ m * W \in Nat /\ k * W \in Nat
    BY <1>1, <1>2
  <2> QED
    BY <1>1, <1>2, <2>1, <2>2
<1>4. k <= m
  BY <1>1, <1>2, <1>3
<1> QED
  BY <1>4 DEF k, m

\* The positions of a register are an interval from 0 that has its bits and its low
\* word, and each is in one of its words.
LEMMA PositionsOf ==
    ASSUME NEW w \in Nat \ {0}
    PROVE  /\ WidthWords(w) \in Nat
           /\ Positions(w) \subseteq Nat /\ 0 .. w - 1 \subseteq Positions(w)
           /\ \A i \in Nat, j \in Positions(w) : i <= j => i \in Positions(w)
           /\ \A i \in Positions(w) : i \div W \in Nat /\ i \div W < WidthWords(w)
           /\ 0 .. W - 1 \subseteq Positions(w)
<1>1. WidthWords(w) \in Nat /\ w <= WidthWords(w) * W /\ WidthWords(w) * W \in Nat
  BY WordsHoldBits, SimRegAssumption
<1>2. /\ Positions(w) \subseteq Nat /\ 0 .. w - 1 \subseteq Positions(w)
      /\ \A i \in Nat, j \in Positions(w) : i <= j => i \in Positions(w)
  BY <1>1 DEF Positions
<1>3. ASSUME NEW i \in Positions(w) PROVE i \div W \in Nat /\ i \div W < WidthWords(w)
  <2>1. i \in Nat /\ i < WidthWords(w) * W
    BY <1>1 DEF Positions
  <2> QED
    BY <1>1, <2>1, WordOf, WordBounds
<1>4. 0 .. W - 1 \subseteq Positions(w)
  <2>1. WidthWords(w) # 0 /\ W \in Nat
    BY <1>1, SimRegAssumption
  <2>2. W <= WidthWords(w) * W
    <3>1. 1 * W <= WidthWords(w) * W
      BY <1>1, <2>1
    <3> QED
      BY <3>1, <2>1
  <2> QED
    BY <1>1, <2>1, <2>2 DEF Positions
<1> QED
  BY <1>1, <1>2, <1>3, <1>4

\* A register of one word has no word above the low one.
LEMMA OneWord == ASSUME NEW w \in Nat \ {0}, w <= W PROVE WidthWords(w) = 1
<1>1. w - 1 \in 0 .. W - 1
  BY SimRegAssumption
<1>2. (w - 1) \div W = 0
  BY <1>1, SimRegAssumption
<1> QED
  BY <1>2 DEF WidthWords

\* A wider one has.
LEMMA SeveralWords == ASSUME NEW w \in Nat \ {0}, w > W PROVE WidthWords(w) > 1
<1>1. WidthWords(w) \in Nat /\ w <= WidthWords(w) * W
  BY WordsHoldBits
<1>2. WidthWords(w) # 0 /\ WidthWords(w) # 1
  BY <1>1, SimRegAssumption
<1> QED
  BY <1>1, <1>2

-----------------------------------------------------------------------------
(* Registers *)

\* A width, and a bit in each position of its words.
IsReg(r) == /\ r = [width |-> r.width, vec |-> r.vec]
            /\ r.width \in Nat \ {0}
            /\ r.vec \in [Positions(r.width) -> Four]

\* A register is one whether or not its copy of a signal is stale, and it has the
\* bits of its value.
LEMMA SyncedReg ==
    ASSUME TypeOK, NEW d \in Names
    PROVE  /\ IsReg(Synced(d)) /\ Synced(d).width = reg[d].width
           /\ Value(d) = [i \in 0 .. reg[d].width - 1 |-> Synced(d).vec[i]]
<1>1. PICK w \in Widths : reg[d] \in [width : {w}, vec : [Positions(w) -> Four]]
  BY DEF TypeOK, Regs
<1>2. w \in Nat \ {0} /\ reg[d].width = w /\ reg[d].vec \in [Positions(w) -> Four]
  BY <1>1, SimRegAssumption
<1>3. d = connected => sim \in [Positions(w) -> Four]
  BY <1>2, SimRegAssumption DEF TypeOK
<1>4. CASE d = connected
  <2>1. Synced(d) = [width |-> w, vec |-> sim]
    BY <1>1, <1>4 DEF Synced
  <2> QED
    BY <1>2, <1>3, <1>4, <2>1 DEF IsReg, Value
<1>5. CASE d # connected
  <2>1. Synced(d) = reg[d] /\ reg[d] = [width |-> w, vec |-> reg[d].vec]
    BY <1>1, <1>5 DEF Synced
  <2> QED
    BY <1>2, <1>5, <2>1 DEF IsReg, Value
<1> QED
  BY <1>4, <1>5

\* The registers of the program are those of its widths.
LEMMA RegsAre ==
    ASSUME NEW r
    PROVE  r \in Regs <=> IsReg(r) /\ r.width \in Widths
<1>1. ASSUME r \in Regs PROVE IsReg(r) /\ r.width \in Widths
  <2>1. PICK w \in Widths : r \in [width : {w}, vec : [Positions(w) -> Four]]
    BY <1>1 DEF Regs
  <2>2. w \in Nat \ {0} /\ r.width = w /\ r.vec \in [Positions(w) -> Four]
        /\ r = [width |-> r.width, vec |-> r.vec]
    BY <2>1, SimRegAssumption
  <2> QED
    BY <2>1, <2>2 DEF IsReg
<1>2. ASSUME IsReg(r), r.width \in Widths PROVE r \in Regs
  <2>1. r = [width |-> r.width, vec |-> r.vec] /\ r.vec \in [Positions(r.width) -> Four]
    BY <1>2 DEF IsReg
  <2>2. r \in [width : {r.width}, vec : [Positions(r.width) -> Four]]
    BY <2>1
  <2> QED
    BY <1>2, <2>2 DEF Regs
<1> QED
  BY <1>1, <1>2

\* What the program has are registers, and sampling a signal leaves them ones.
LEMMA RegIs ==
    ASSUME TypeOK, NEW d \in Names
    PROVE  /\ IsReg(reg[d]) /\ reg[d].width \in Widths /\ reg[d].width \in Nat \ {0}
           /\ IsReg(Synced(d)) /\ Synced(d).width = reg[d].width
<1>1. reg[d] \in Regs
  BY DEF TypeOK
<1> QED
  BY <1>1, RegsAre, SyncedReg, SimRegAssumption

\* The visible bits of a register are among its positions, and so is the word of
\* each of them, which contains it.
LEMMA VisibleBit ==
    ASSUME NEW r, IsReg(r), NEW i \in 0 .. r.width - 1
    PROVE  /\ i \in DOMAIN r.vec /\ r.vec[i] \in Four
           /\ i \in (i \div W) * W .. (i \div W) * W + W - 1
           /\ (i \div W) * W .. (i \div W) * W + W - 1 \subseteq DOMAIN r.vec
<1>1. r.width \in Nat \ {0} /\ r.vec \in [Positions(r.width) -> Four] /\ i \in Nat
  BY DEF IsReg
<1>2. i \in Positions(r.width)
  BY <1>1, WordsHoldBits, SimRegAssumption DEF Positions
<1>3. i \div W \in Nat /\ (i \div W) * W <= i /\ i <= (i \div W) * W + W - 1
  BY <1>1, WordOf
<1>4. (i \div W) * W .. (i \div W) * W + W - 1 \subseteq Positions(r.width)
  BY <1>1, <1>2, WordsHoldBits
<1>5. (i \div W) * W \in Nat
  BY <1>3, SimRegAssumption
<1> QED
  BY <1>1, <1>2, <1>3, <1>4, <1>5, SimRegAssumption

\* A word with no unknown bit has none at i, and a register with none has no
\* such word.
LEMMA UnknownWord ==
    ASSUME NEW r, IsReg(r), NEW i \in 0 .. r.width - 1
    PROVE  /\ ~WordUnknown(r.vec, i) => ~Bval(r.vec[i])
           /\ AllKnown(r) => ~WordUnknown(r.vec, i)
  BY VisibleBit DEF WordUnknown, AllKnown

\* The bits a register stands for, and all its bits if the unused ones are clear.
LEMMA ValueBits ==
    ASSUME TypeOK, NEW d \in Names
    PROVE  /\ reg[d].width \in Nat \ {0} /\ DOMAIN Value(d) = 0 .. reg[d].width - 1
           /\ Synced(d).vec \in [Positions(reg[d].width) -> Four]
           /\ 0 .. reg[d].width - 1 \subseteq Positions(reg[d].width)
           /\ 0 .. W - 1 \subseteq Positions(reg[d].width)
           /\ \A i \in 0 .. reg[d].width - 1 : Value(d)[i] = Synced(d).vec[i]
           /\ Clean(Synced(d)) => \A i \in Positions(reg[d].width) :
                                     i \notin 0 .. reg[d].width - 1 => Synced(d).vec[i] = "0"
<1> DEFINE w == reg[d].width
<1>1. /\ w \in Nat \ {0} /\ Synced(d).width = w /\ Synced(d).vec \in [Positions(w) -> Four]
      /\ Value(d) = [i \in 0 .. w - 1 |-> Synced(d).vec[i]]
  BY SyncedReg DEF IsReg
<1>2. WidthWords(w) \in Nat /\ w <= WidthWords(w) * W
  BY <1>1, WordsHoldBits
<1>3. /\ 0 .. w - 1 \subseteq Positions(w)
      /\ Positions(w) \subseteq Nat
  BY <1>1, <1>2, SimRegAssumption DEF Positions
<1>4. 0 .. W - 1 \subseteq Positions(w)
  <2>1. 0 \in Positions(w)
    BY <1>1, <1>3
  <2>2. 0 \div W = 0 /\ 0 * W = 0
    BY SimRegAssumption
  <2>3. (0 \div W) * W .. (0 \div W) * W + W - 1 \subseteq Positions(w)
    BY <1>1, <2>1, WordsHoldBits
  <2> QED
    BY <2>2, <2>3, SimRegAssumption
<1>5. Clean(Synced(d)) => \A i \in Positions(w) : i \notin 0 .. w - 1 => Synced(d).vec[i] = "0"
  BY <1>1, <1>3 DEF Clean
<1> QED
  BY <1>1, <1>3, <1>4, <1>5

\* An aval and a bval make a bit.
LEMMA BitType ==
    ASSUME NEW a, NEW b
    PROVE  Bit(a, b) \in Four /\ "0" \in Four /\ "1" \in Four
  BY DEF Bit, Four

\* Registers of one width with the same bits are the same.
LEMMA SameReg ==
    ASSUME NEW r, IsReg(r), NEW s, IsReg(s), r.width = s.width,
           \A i \in Positions(r.width) : r.vec[i] = s.vec[i]
    PROVE  r = s
<1>1. r.vec \in [Positions(r.width) -> Four] /\ s.vec \in [Positions(r.width) -> Four]
  BY DEF IsReg
<1>2. r.vec = s.vec
  BY <1>1
<1> QED
  BY <1>2 DEF IsReg

\* A register is known if the bits in its positions are.
LEMMA AllKnownOf ==
    ASSUME NEW r, IsReg(r)
    PROVE  AllKnown(r) <=> \A i \in Positions(r.width) : ~Bval(r.vec[i])
  BY DEF AllKnown, IsReg

\* A register that is given another vector of bits is a register.
LEMMA WithVec ==
    ASSUME NEW r, IsReg(r), NEW v \in [Positions(r.width) -> Four]
    PROVE  LET q == [r EXCEPT !.vec = v]
           IN  IsReg(q) /\ q.width = r.width /\ q.vec = v
<1>1. [r EXCEPT !.vec = v] = [width |-> r.width, vec |-> v] /\ r.width \in Nat \ {0}
  BY DEF IsReg
<1> QED
  BY <1>1 DEF IsReg

\* clearUnusedBits keeps the bits below the width and clears those above.
LEMMA ClearedBits ==
    ASSUME NEW r, IsReg(r)
    PROVE  /\ IsReg(Cleared(r)) /\ Cleared(r).width = r.width
           /\ \A i \in Positions(r.width) : Cleared(r).vec[i] = IF i < r.width THEN r.vec[i] ELSE "0"
           /\ Clean(Cleared(r))
<1> DEFINE v == [i \in Positions(r.width) |-> IF i < r.width THEN r.vec[i] ELSE "0"]
<1>1. r.width \in Nat \ {0} /\ r.vec \in [Positions(r.width) -> Four] /\ "0" \in Four
  BY BitType DEF IsReg
<1>2. v \in [Positions(r.width) -> Four]
  BY <1>1
<1>3. Cleared(r) = [r EXCEPT !.vec = v]
  BY <1>1 DEF Cleared, IsReg
<1>4. \A i \in Positions(r.width) : v[i] = IF i < r.width THEN r.vec[i] ELSE "0"
  OBVIOUS
<1>5. DOMAIN v = Positions(r.width) /\ Positions(r.width) \subseteq Nat
  BY <1>1, PositionsOf
<1> HIDE DEF v
<1>6. IsReg(Cleared(r)) /\ Cleared(r).width = r.width /\ Cleared(r).vec = v
  BY <1>2, <1>3, WithVec
<1>7. Clean(Cleared(r))
  <2>1. ASSUME NEW i \in Positions(r.width), i >= r.width PROVE v[i] = "0"
    <3>1. ~(i < r.width)
      BY <1>1, <1>5, <2>1
    <3> QED
      BY <1>4, <3>1
  <2> QED
    BY <1>5, <1>6, <2>1 DEF Clean
<1> QED
  BY <1>4, <1>6, <1>7

\* The register that is given the vector v, and its unused bits cleared.
LEMMA ClearedVec ==
    ASSUME NEW r, IsReg(r), NEW v \in [Positions(r.width) -> Four]
    PROVE  LET q == Cleared([r EXCEPT !.vec = v])
           IN  /\ IsReg(q) /\ q.width = r.width /\ Clean(q)
               /\ \A i \in Positions(r.width) : q.vec[i] = IF i < r.width THEN v[i] ELSE "0"
<1> DEFINE c == [r EXCEPT !.vec = v]
<1>1. IsReg(c) /\ c.width = r.width /\ c.vec = v
  BY WithVec
<1> HIDE DEF c
<1>2. /\ IsReg(Cleared(c)) /\ Cleared(c).width = r.width /\ Clean(Cleared(c))
      /\ \A i \in Positions(r.width) : Cleared(c).vec[i] = IF i < r.width THEN v[i] ELSE "0"
  BY <1>1, ClearedBits
<1> QED
  BY <1>2 DEF c

\* A register is known if its visible bits are and the unused ones are clear.
LEMMA CleanKnown ==
    ASSUME NEW r, IsReg(r), Clean(r), \A i \in 0 .. r.width - 1 : ~Bval(r.vec[i])
    PROVE  AllKnown(r)
<1>1. r.width \in Nat \ {0} /\ DOMAIN r.vec = Positions(r.width) /\ Positions(r.width) \subseteq Nat
  BY PositionsOf DEF IsReg
<1>2. ASSUME NEW i \in Positions(r.width) PROVE ~Bval(r.vec[i])
  <2>1. CASE i < r.width
    <3>1. i \in 0 .. r.width - 1
      BY <1>1, <2>1
    <3> QED
      BY <3>1
  <2>2. CASE ~(i < r.width)
    <3>1. i >= r.width
      BY <1>1, <2>2
    <3>2. r.vec[i] = "0"
      BY <1>1, <3>1 DEF Clean
    <3> QED
      BY <3>2 DEF Bval
  <2> QED
    BY <2>1, <2>2
<1> QED
  BY <1>1, <1>2 DEF AllKnown

\* The positions of a register of one word are that word, and so it has an unknown
\* bit exactly if its low word has.
LEMMA OneWordReg ==
    ASSUME NEW r, IsReg(r), r.width <= W
    PROVE  /\ W \in Nat \ {0} /\ DOMAIN r.vec = 0 .. W - 1 /\ Positions(r.width) = 0 .. W - 1
           /\ 0 .. r.width - 1 \subseteq 0 .. W - 1 /\ r.width \in Nat \ {0} /\ r.width <= W
           /\ WordUnknown(r.vec, 0) <=> ~AllKnown(r)
<1>1. W \in Nat \ {0} /\ Positions(r.width) = 0 .. W - 1 /\ r.width \in Nat \ {0}
  BY OneWord, SimRegAssumption DEF IsReg, Positions
<1>2. DOMAIN r.vec = 0 .. W - 1
  BY <1>1 DEF IsReg
<1>3. (0 \div W) * W .. (0 \div W) * W + W - 1 = 0 .. W - 1
  <2>1. 0 \div W = 0 /\ 0 * W = 0
    BY <1>1
  <2> QED
    BY <1>1, <2>1
<1>4. WordUnknown(r.vec, 0) <=> ~AllKnown(r)
  BY <1>2, <1>3 DEF WordUnknown, AllKnown
<1> QED
  BY <1>1, <1>2, <1>4

\* operator=(FrSimReg) truncates the other register, or pads it with zeros.
LEMMA AssignedBits ==
    ASSUME NEW r, IsReg(r), NEW s, IsReg(s)
    PROVE  LET q == Assigned(r, s)
           IN  /\ IsReg(q) /\ q.width = r.width /\ Clean(q)
               /\ \A i \in 0 .. r.width - 1 :
                     q.vec[i] = IF i \in Positions(s.width) THEN s.vec[i] ELSE "0"
<1> DEFINE v == [i \in Positions(r.width) |-> IF i \in Positions(s.width) THEN s.vec[i] ELSE "0"]
<1>1. /\ r.width \in Nat \ {0} /\ r.vec \in [Positions(r.width) -> Four]
      /\ s.width \in Nat \ {0} /\ s.vec \in [Positions(s.width) -> Four] /\ "0" \in Four
  BY BitType DEF IsReg
<1>2. v \in [Positions(r.width) -> Four]
  BY <1>1
<1>3. \A i \in 0 .. r.width - 1 : i < r.width /\ i \in Positions(r.width)
  BY <1>1, PositionsOf
<1>4. \A i \in Positions(r.width) : v[i] = IF i \in Positions(s.width) THEN s.vec[i] ELSE "0"
  OBVIOUS
<1>5. Assigned(r, s) = Cleared([r EXCEPT !.vec = v])
  BY <1>1 DEF Assigned, IsReg
<1> HIDE DEF v
<1> QED
  BY <1>2, <1>3, <1>4, <1>5, ClearedVec

\* The ints are vectors of bits.
LEMMA IntTypes == One \in [0 .. W - 1 -> Four] /\ Zero \in [0 .. W - 1 -> Four]
                  /\ \A n \in Ints : n \in [0 .. W - 1 -> Four]
  BY BitType DEF One, Zero, Ints

\* operator=(int) gives the low word the bits of the int.
LEMMA FromIntBits ==
    ASSUME NEW w \in Nat \ {0}, NEW n \in [0 .. W - 1 -> Four]
    PROVE  LET q == FromInt(w, n)
           IN  /\ IsReg(q) /\ q.width = w
               /\ \A i \in Positions(w) : q.vec[i] = IF i < W THEN n[i] ELSE "0"
<1> DEFINE v == [i \in Positions(w) |-> IF i < W THEN n[i] ELSE "0"]
<1>1. v \in [Positions(w) -> Four]
  <2>1. Positions(w) \subseteq Nat /\ "0" \in Four /\ W \in Nat
    BY PositionsOf, BitType, SimRegAssumption
  <2>2. \A i \in Positions(w) : i < W => i \in 0 .. W - 1
    BY <2>1
  <2> QED
    BY <2>1, <2>2
<1>2. FromInt(w, n) = [width |-> w, vec |-> v]
  BY DEF FromInt
<1>3. \A i \in Positions(w) : v[i] = IF i < W THEN n[i] ELSE "0"
  OBVIOUS
<1> HIDE DEF v
<1> QED
  BY <1>1, <1>2, <1>3 DEF IsReg

\* Whatever s is, the bitwise operators and the sum leave a register.
LEMMA BitwiseReg ==
    ASSUME NEW r, IsReg(r), NEW s
    PROVE  /\ IsReg(LogicalNot(r)) /\ LogicalNot(r).width = r.width
           /\ IsReg(Or(r, s)) /\ Or(r, s).width = r.width
           /\ IsReg(And(r, s)) /\ And(r, s).width = r.width
           /\ IsReg(Xor(r, s)) /\ Xor(r, s).width = r.width
           /\ IsReg(Add(r, s)) /\ Add(r, s).width = r.width
<1> DEFINE D == Positions(r.width)
           o == [i \in D |-> LET b == Bval(r.vec[i]) \/ Bval(s.vec[i])
                             IN  Bit(Aval(r.vec[i]) \/ Aval(s.vec[i]) \/ b, b)]
           a == [i \in D |-> IF WordUnknown(r.vec, i) \/ WordUnknown(s.vec, i) THEN Bit(FALSE, TRUE)
                             ELSE Bit(Aval(r.vec[i]) /\ Aval(s.vec[i]), FALSE)]
           x == [i \in D |-> IF WordUnknown(r.vec, i) \/ WordUnknown(s.vec, i) THEN Bit(FALSE, TRUE)
                             ELSE Bit(Aval(r.vec[i]) # Aval(s.vec[i]), FALSE)]
           n == [i \in D |-> Bit(~Aval(r.vec[i]) \/ Bval(r.vec[i]), Bval(r.vec[i]))]
           u == [i \in D |-> Bit(TRUE, TRUE)]
           p == [i \in D |-> WordBit(Num(r.vec, W) + Num(s.vec, W), i)]
<1>1. DOMAIN r.vec = D
  BY DEF IsReg
<1>2. o \in [D -> Four] /\ a \in [D -> Four] /\ x \in [D -> Four] /\ n \in [D -> Four] /\ u \in [D -> Four]
  BY BitType
<1>3. p \in [D -> Four]
  BY BitType DEF WordBit
<1>4. Or(r, s) = [r EXCEPT !.vec = o] /\ And(r, s) = [r EXCEPT !.vec = a] /\ Xor(r, s) = [r EXCEPT !.vec = x]
  BY <1>1 DEF Or, And, Xor, IsReg
<1>5. LogicalNot(r) = Cleared([r EXCEPT !.vec = n])
  BY <1>1 DEF LogicalNot, IsReg
<1>6. Add(r, s) = IF WordUnknown(r.vec, 0) \/ WordUnknown(s.vec, 0) THEN [r EXCEPT !.vec = u]
                  ELSE [r EXCEPT !.vec = p]
  BY <1>1 DEF Add, IsReg
<1> HIDE DEF o, a, x, n, u, p
<1>7. IsReg(LogicalNot(r)) /\ LogicalNot(r).width = r.width
  BY <1>2, <1>5, ClearedVec
<1>8. IsReg(Or(r, s)) /\ Or(r, s).width = r.width
  BY <1>2, <1>4, WithVec
<1>9. IsReg(And(r, s)) /\ And(r, s).width = r.width
  BY <1>2, <1>4, WithVec
<1>10. IsReg(Xor(r, s)) /\ Xor(r, s).width = r.width
  BY <1>2, <1>4, WithVec
<1>11. IsReg(Add(r, s)) /\ Add(r, s).width = r.width
  BY <1>2, <1>3, <1>6, WithVec
<1> QED
  BY <1>7, <1>8, <1>9, <1>10, <1>11

-----------------------------------------------------------------------------
(* The bitwise operators *)

\* Each bit of ~r is what the table says.
LEMMA NotBit ==
    ASSUME NEW r, IsReg(r), NEW i \in 0 .. r.width - 1
    PROVE  LogicalNot(r).vec[i] = RefNot(r.vec[i])
<1>1. i \in DOMAIN r.vec /\ r.vec[i] \in Four /\ i < r.width
  BY VisibleBit DEF IsReg
<1>2. LogicalNot(r).vec[i] = Bit(~Aval(r.vec[i]) \/ Bval(r.vec[i]), Bval(r.vec[i]))
  <2> DEFINE v == [j \in DOMAIN r.vec |-> Bit(~Aval(r.vec[j]) \/ Bval(r.vec[j]), Bval(r.vec[j]))]
  <2>1. [r EXCEPT !.vec = v] = [width |-> r.width, vec |-> v]
    BY DEF IsReg
  <2> HIDE DEF v
  <2>2. Cleared([r EXCEPT !.vec = v]).vec[i] = v[i]
    <3>1. DOMAIN v = DOMAIN r.vec
      BY DEF v
    <3> QED
      BY <1>1, <2>1, <3>1 DEF Cleared
  <2>3. LogicalNot(r) = Cleared([r EXCEPT !.vec = v])
    BY DEF LogicalNot, v
  <2> QED
    BY <1>1, <2>2, <2>3 DEF v
<1> QED
  BY <1>1, <1>2 DEF Four, Aval, Bval, Bit, RefNot

\* A bit that |= makes known, or any bit of known operands, is what the table says.
LEMMA OrBit ==
    ASSUME NEW r, IsReg(r), NEW s, IsReg(s), r.width = s.width, NEW i \in 0 .. r.width - 1,
           ~Bval(Or(r, s).vec[i]) \/ (AllKnown(r) /\ AllKnown(s))
    PROVE  Or(r, s).vec[i] = RefOr(r.vec[i], s.vec[i])
<1>1. /\ i \in DOMAIN r.vec /\ i \in DOMAIN s.vec
      /\ r.vec[i] \in Four /\ s.vec[i] \in Four
  BY VisibleBit
<1>2. Or(r, s).vec[i] = LET b == Bval(r.vec[i]) \/ Bval(s.vec[i])
                        IN  Bit(Aval(r.vec[i]) \/ Aval(s.vec[i]) \/ b, b)
  BY <1>1 DEF Or, IsReg
<1>3. ~Bval(r.vec[i]) /\ ~Bval(s.vec[i])
  BY <1>1, <1>2 DEF AllKnown, Bit, Bval
<1> QED
  BY <1>1, <1>2, <1>3 DEF Four, Aval, Bval, Bit, RefOr, RefAnd, RefNot

\* The same of &=, where an unknown bit spoils its whole word.
LEMMA AndBit ==
    ASSUME NEW r, IsReg(r), NEW s, IsReg(s), r.width = s.width, NEW i \in 0 .. r.width - 1,
           ~Bval(And(r, s).vec[i]) \/ (AllKnown(r) /\ AllKnown(s))
    PROVE  And(r, s).vec[i] = RefAnd(r.vec[i], s.vec[i])
<1>1. /\ i \in DOMAIN r.vec /\ i \in DOMAIN s.vec
      /\ r.vec[i] \in Four /\ s.vec[i] \in Four
  BY VisibleBit
<1>2. And(r, s).vec[i] = IF WordUnknown(r.vec, i) \/ WordUnknown(s.vec, i) THEN Bit(FALSE, TRUE)
                         ELSE Bit(Aval(r.vec[i]) /\ Aval(s.vec[i]), FALSE)
  BY <1>1 DEF And, IsReg
<1>3. ~WordUnknown(r.vec, i) /\ ~WordUnknown(s.vec, i)
  BY <1>2, UnknownWord DEF Bit, Bval
<1>4. ~Bval(r.vec[i]) /\ ~Bval(s.vec[i])
  BY <1>3, UnknownWord
<1> QED
  BY <1>1, <1>2, <1>3, <1>4 DEF Four, Aval, Bval, Bit, RefAnd

\* The same of ^=.
LEMMA XorBit ==
    ASSUME NEW r, IsReg(r), NEW s, IsReg(s), r.width = s.width, NEW i \in 0 .. r.width - 1,
           ~Bval(Xor(r, s).vec[i]) \/ (AllKnown(r) /\ AllKnown(s))
    PROVE  Xor(r, s).vec[i] = RefXor(r.vec[i], s.vec[i])
<1>1. /\ i \in DOMAIN r.vec /\ i \in DOMAIN s.vec
      /\ r.vec[i] \in Four /\ s.vec[i] \in Four
  BY VisibleBit
<1>2. Xor(r, s).vec[i] = IF WordUnknown(r.vec, i) \/ WordUnknown(s.vec, i) THEN Bit(FALSE, TRUE)
                         ELSE Bit(Aval(r.vec[i]) # Aval(s.vec[i]), FALSE)
  BY <1>1 DEF Xor, IsReg
<1>3. ~WordUnknown(r.vec, i) /\ ~WordUnknown(s.vec, i)
  BY <1>2, UnknownWord DEF Bit, Bval
<1>4. ~Bval(r.vec[i]) /\ ~Bval(s.vec[i])
  BY <1>3, UnknownWord
<1> QED
  BY <1>1, <1>2, <1>3, <1>4 DEF Four, Aval, Bval, Bit, RefXor

\* The bit that |= gives each position, the unused ones included.
LEMMA OrVec ==
    ASSUME NEW r, IsReg(r), NEW s
    PROVE  \A i \in Positions(r.width) :
              Or(r, s).vec[i] = LET b == Bval(r.vec[i]) \/ Bval(s.vec[i])
                                IN  Bit(Aval(r.vec[i]) \/ Aval(s.vec[i]) \/ b, b)
  BY DEF Or, IsReg

\* |= does not hide an unknown bit of either operand.
LEMMA KnownOr ==
    ASSUME NEW r, IsReg(r), NEW s, IsReg(s), NEW i \in Positions(r.width), ~Bval(Or(r, s).vec[i])
    PROVE  ~Bval(r.vec[i]) /\ ~Bval(s.vec[i])
<1>1. Or(r, s).vec[i] = LET b == Bval(r.vec[i]) \/ Bval(s.vec[i])
                        IN  Bit(Aval(r.vec[i]) \/ Aval(s.vec[i]) \/ b, b)
  BY OrVec
<1> QED
  BY <1>1 DEF Aval, Bval, Bit

\* Whatever the registers hold, none of ~, |=, &= and ^= gives a 0 or a 1 that
\* the four-state tables deny, and none gives an x or a z from known bits.
LEMMA BitwiseHolds == TypeOK => BitwiseSound
<1> SUFFICES ASSUME TypeOK, NEW d \in Names, NEW s \in Names
             PROVE  LET exact == AllKnown(Synced(d)) /\ AllKnown(Synced(s))
                        Ref(Op(_, _)) == [i \in DOMAIN Value(d) |-> Op(Value(d)[i], Value(s)[i])]
                    IN  /\ Agrees(LogicalNot(Synced(d)),
                                  [i \in DOMAIN Value(d) |-> RefNot(Value(d)[i])], TRUE)
                        /\ reg[d].width = reg[s].width =>
                             /\ Agrees(Or(Synced(d), Synced(s)), Ref(RefOr), exact)
                             /\ Agrees(And(Synced(d), Synced(s)), Ref(RefAnd), exact)
                             /\ Agrees(Xor(Synced(d), Synced(s)), Ref(RefXor), exact)
  BY DEF BitwiseSound
<1> DEFINE exact == AllKnown(Synced(d)) /\ AllKnown(Synced(s))
<1>1. /\ IsReg(Synced(d)) /\ Synced(d).width = reg[d].width
      /\ IsReg(Synced(s)) /\ Synced(s).width = reg[s].width
      /\ Value(d) = [i \in 0 .. reg[d].width - 1 |-> Synced(d).vec[i]]
      /\ Value(s) = [i \in 0 .. reg[s].width - 1 |-> Synced(s).vec[i]]
  BY SyncedReg
<1>2. Agrees(LogicalNot(Synced(d)), [i \in DOMAIN Value(d) |-> RefNot(Value(d)[i])], TRUE)
  BY <1>1, NotBit DEF Agrees
<1>3. ASSUME reg[d].width = reg[s].width
      PROVE  Agrees(Or(Synced(d), Synced(s)), [i \in DOMAIN Value(d) |-> RefOr(Value(d)[i], Value(s)[i])], exact)
  BY <1>1, <1>3, OrBit DEF Agrees
<1>4. ASSUME reg[d].width = reg[s].width
      PROVE  Agrees(And(Synced(d), Synced(s)), [i \in DOMAIN Value(d) |-> RefAnd(Value(d)[i], Value(s)[i])], exact)
  BY <1>1, <1>4, AndBit DEF Agrees
<1>5. ASSUME reg[d].width = reg[s].width
      PROVE  Agrees(Xor(Synced(d), Synced(s)), [i \in DOMAIN Value(d) |-> RefXor(Value(d)[i], Value(s)[i])], exact)
  BY <1>1, <1>5, XorBit DEF Agrees
<1> QED
  BY <1>2, <1>3, <1>4, <1>5

-----------------------------------------------------------------------------
(* The comparisons *)

\* Registers that stand for the same bits have the same width.
LEMMA SameWidth ==
    ASSUME TypeOK, NEW d \in Names, NEW s \in Names, Value(d) = Value(s)
    PROVE  reg[d].width = reg[s].width
<1>1. /\ reg[d].width \in Nat \ {0} /\ reg[s].width \in Nat \ {0}
      /\ 0 .. reg[d].width - 1 = 0 .. reg[s].width - 1
  BY ValueBits
<1>2. reg[d].width - 1 \in 0 .. reg[s].width - 1 /\ reg[s].width - 1 \in 0 .. reg[d].width - 1
  BY <1>1
<1> QED
  BY <1>1, <1>2

\* Two known bits with the same aval are the same.
LEMMA KnownBits ==
    ASSUME NEW a \in Four, NEW b \in Four
    PROVE  Aval(a) = Aval(b) /\ ~Bval(a) /\ ~Bval(b) <=> a = b /\ ~Bval(a)
  BY DEF Four, Aval, Bval

\* What `==` and exactlyEqual of two registers say of the values they stand for.
LEMMA EqualBits ==
    ASSUME TypeOK, NEW d \in Names, NEW s \in Names
    PROVE  LET alike == Value(d) = Value(s)
               same == alike /\ \A i \in DOMAIN Value(d) : ~Bval(Value(d)[i])
           IN  /\ Equal(Synced(d), Synced(s)) => same
               /\ ExactlyEqual(Synced(d), Synced(s)) => alike
               /\ Clean(Synced(d)) /\ Clean(Synced(s)) =>
                     /\ same => Equal(Synced(d), Synced(s))
                     /\ alike => ExactlyEqual(Synced(d), Synced(s))
<1> DEFINE alike == Value(d) = Value(s)
           same == alike /\ \A i \in DOMAIN Value(d) : ~Bval(Value(d)[i])
           bits == Positions(reg[d].width)
<1>1. /\ IsReg(Synced(d)) /\ Synced(d).width = reg[d].width
      /\ IsReg(Synced(s)) /\ Synced(s).width = reg[s].width
      /\ Value(d) = [i \in 0 .. reg[d].width - 1 |-> Synced(d).vec[i]]
      /\ Value(s) = [i \in 0 .. reg[s].width - 1 |-> Synced(s).vec[i]]
  BY SyncedReg
<1>2. DOMAIN Synced(d).vec = bits /\ \A i \in bits : Synced(d).vec[i] \in Four
  BY ValueBits
<1>3. DOMAIN Synced(s).vec = Positions(reg[s].width)
      /\ \A i \in Positions(reg[s].width) : Synced(s).vec[i] \in Four
  BY ValueBits
<1>4. 0 .. reg[d].width - 1 \subseteq bits
  BY ValueBits
<1>5. Equal(Synced(d), Synced(s)) => same
  <2> SUFFICES ASSUME Equal(Synced(d), Synced(s)) PROVE same
    OBVIOUS
  <2>1. /\ reg[d].width = reg[s].width
        /\ \A i \in bits : Synced(d).vec[i] = Synced(s).vec[i] /\ ~Bval(Synced(d).vec[i])
    BY <1>1, <1>2, <1>3, KnownBits DEF Equal
  <2> QED
    BY <1>1, <1>4, <2>1
<1>6. ExactlyEqual(Synced(d), Synced(s)) => alike
  BY <1>1 DEF ExactlyEqual
<1>7. ASSUME Clean(Synced(d)), Clean(Synced(s)), alike
      PROVE  /\ Synced(d) = Synced(s)
             /\ same => Equal(Synced(d), Synced(s))
  <2>1. reg[d].width = reg[s].width
    BY <1>7, SameWidth
  <2>2. ASSUME NEW i \in bits
        PROVE  /\ Synced(d).vec[i] = Synced(s).vec[i]
               /\ same => ~Bval(Synced(d).vec[i])
    <3>1. CASE i \in 0 .. reg[d].width - 1
      BY <1>1, <1>7, <2>1, <3>1
    <3>2. CASE i \notin 0 .. reg[d].width - 1
      <4>1. Synced(d).vec[i] = "0" /\ Synced(s).vec[i] = "0"
        BY <1>7, <2>1, <3>2, ValueBits
      <4> QED
        BY <4>1 DEF Bval
    <3> QED
      BY <3>1, <3>2
  <2>3. Synced(d).vec = Synced(s).vec
    <3>1. Synced(d).vec \in [bits -> Four] /\ Synced(s).vec \in [bits -> Four]
      BY <2>1, ValueBits
    <3> QED
      BY <2>2, <3>1
  <2>4. Synced(d) = Synced(s)
    BY <1>1, <2>1, <2>3 DEF IsReg
  <2>5. same => Equal(Synced(d), Synced(s))
    BY <1>2, <2>2, <2>4 DEF Equal
  <2> QED
    BY <2>4, <2>5
<1> QED
  BY <1>5, <1>6, <1>7 DEF ExactlyEqual

\* Registers of every width compare equal exactly if their values do, as long as
\* their unused bits are clear, and a register of one word compares with an int
\* likewise; a wider one equals 0 alone, if its low word does.
LEMMA EqualHolds == TypeOK => EqualExact
<1> SUFFICES ASSUME TypeOK PROVE EqualExact
  OBVIOUS
<1>1. ASSUME NEW d \in Names, reg[d].width <= W, Clean(Synced(d)), NEW n \in Ints
      PROVE  EqualInt(Synced(d), n) <=> IsInt(d, n)
  <2> DEFINE w == reg[d].width
  <2>1. /\ w \in Nat \ {0} /\ w <= W /\ DOMAIN Value(d) = 0 .. w - 1
        /\ Synced(d).vec \in [Positions(w) -> Four] /\ 0 .. W - 1 \subseteq Positions(w)
        /\ \A i \in 0 .. w - 1 : Value(d)[i] = Synced(d).vec[i]
        /\ \A i \in Positions(w) : i \notin 0 .. w - 1 => Synced(d).vec[i] = "0"
    BY <1>1, ValueBits
  <2>2. EqualInt(Synced(d), n) <=> \A i \in 0 .. W - 1 : Synced(d).vec[i] = n[i]
    <3>1. Synced(d).width = w
      BY SyncedReg
    <3>2. WidthWords(Synced(d).width) = 1
      BY <2>1, <3>1, OneWord
    <3> QED
      BY <3>2 DEF EqualInt
  <2>3. /\ 0 .. w - 1 \subseteq 0 .. W - 1
        /\ \A i \in 0 .. w - 1 : i < W
        /\ \A i \in 0 .. W - 1 : i >= w <=> i \notin 0 .. w - 1
    BY <2>1, SimRegAssumption
  <2>4. IsInt(d, n) <=> /\ \A i \in 0 .. w - 1 : Synced(d).vec[i] = n[i]
                        /\ \A i \in 0 .. W - 1 : i \notin 0 .. w - 1 => n[i] = "0"
    BY <2>1, <2>3 DEF IsInt
  <2>5. \A i \in 0 .. W - 1 : i \notin 0 .. w - 1 => Synced(d).vec[i] = "0"
    BY <2>1
  <2> HIDE DEF w
  <2> QED
    BY <2>2, <2>3, <2>4, <2>5
<1>2. ASSUME NEW d \in Names, reg[d].width > W, NEW n \in Ints
      PROVE  EqualInt(Synced(d), n) <=> \A i \in 0 .. W - 1 : Value(d)[i] = "0" /\ n[i] = "0"
  <2>1. Synced(d).width = reg[d].width /\ WidthWords(Synced(d).width) > 1
    BY <1>2, SyncedReg, ValueBits, SeveralWords
  <2>2. 0 .. W - 1 \subseteq 0 .. reg[d].width - 1
    BY <1>2, ValueBits, SimRegAssumption
  <2>3. \A i \in 0 .. W - 1 : Value(d)[i] = Synced(d).vec[i]
    BY <2>2, ValueBits
  <2> QED
    BY <2>1, <2>3 DEF EqualInt
<1> QED
  BY <1>1, <1>2, EqualBits DEF EqualExact

-----------------------------------------------------------------------------
(* The shifts *)

\* What a pass does with a word, the k-th of it: rightShiftVecval from the lowest
\* up, leftShiftVecval from the highest down.
RightStep(vec, k, v) ==
    [i \in DOMAIN vec |-> IF i \div W # k - 1 THEN v[i]
                          ELSE IF i + 1 \in DOMAIN vec THEN v[i + 1] ELSE "0"]

LeftStep(vec, words, k, v) ==
    [i \in DOMAIN vec |-> IF i \div W # words - k THEN v[i]
                          ELSE IF i = 0 THEN "0" ELSE v[i - 1]]

\* Vectors each of which follows from the last by a step of rightShiftVecval end in
\* what its pass gives.
LEMMA RightPassIs ==
    ASSUME NEW vec, NEW words \in Nat, NEW g,
           g = [k \in 0 .. words |-> IF k = 0 THEN vec ELSE RightStep(vec, k, g[k - 1])]
    PROVE  RightPass(vec, words) = g[words]
<1> DEFINE p == CHOOSE h : h = [k \in 0 .. words |-> IF k = 0 THEN vec ELSE RightStep(vec, k, h[k - 1])]
<1>1. p = [k \in 0 .. words |-> IF k = 0 THEN vec ELSE RightStep(vec, k, p[k - 1])]
  BY Zenon
<1>2. RightPass(vec, words) = p[words]
  BY Zenon DEF RightPass, RightStep
<1> HIDE DEF p
<1>3. \A k \in 0 .. words : p[k] = g[k]
  <2>1. p[0] = g[0]
    BY <1>1
  <2>2. \A k \in 1 .. words : p[k] = RightStep(vec, k, p[k - 1]) /\ g[k] = RightStep(vec, k, g[k - 1])
    BY <1>1
  <2>3. \A k \in 1 .. words : p[k - 1] = g[k - 1] => p[k] = g[k]
    BY <2>2, Zenon
  <2>4. words \in Nat
    OBVIOUS
  <2> QED
    BY ONLY <2>1, <2>3, <2>4, SameRecursion
<1> QED
  BY <1>2, <1>3

\* The same of leftShiftVecval.
LEMMA LeftPassIs ==
    ASSUME NEW vec, NEW words \in Nat, NEW g,
           g = [k \in 0 .. words |-> IF k = 0 THEN vec ELSE LeftStep(vec, words, k, g[k - 1])]
    PROVE  LeftPass(vec, words) = g[words]
<1> DEFINE p == CHOOSE h : h = [k \in 0 .. words |-> IF k = 0 THEN vec ELSE LeftStep(vec, words, k, h[k - 1])]
<1>1. p = [k \in 0 .. words |-> IF k = 0 THEN vec ELSE LeftStep(vec, words, k, p[k - 1])]
  BY Zenon
<1>2. LeftPass(vec, words) = p[words]
  BY Zenon DEF LeftPass, LeftStep
<1> HIDE DEF p
<1>3. \A k \in 0 .. words : p[k] = g[k]
  <2>1. p[0] = g[0]
    BY <1>1
  <2>2. \A k \in 1 .. words : /\ p[k] = LeftStep(vec, words, k, p[k - 1])
                              /\ g[k] = LeftStep(vec, words, k, g[k - 1])
    BY <1>1
  <2>3. \A k \in 1 .. words : p[k - 1] = g[k - 1] => p[k] = g[k]
    BY <2>2, Zenon
  <2>4. words \in Nat
    OBVIOUS
  <2> QED
    BY ONLY <2>1, <2>3, <2>4, SameRecursion
<1> QED
  BY <1>2, <1>3

\* A vector, shifted by n bits as a whole.
Down(vec, n) == [i \in DOMAIN vec |-> IF i + n \in DOMAIN vec THEN vec[i + n] ELSE "0"]

Up(vec, n) == [i \in DOMAIN vec |-> IF i < n THEN "0" ELSE vec[i - n]]

\* The pass of rightShiftVecval, in place, shifts the vector as a whole by a bit: when
\* a word takes the bit it shifts in, the word above still has it.
LEMMA RightPassBits ==
    ASSUME NEW w \in Nat \ {0}, NEW vec \in [Positions(w) -> Four]
    PROVE  RightPass(vec, WidthWords(w)) = Down(vec, 1)
<1> DEFINE D == Positions(w)
           n == WidthWords(w)
           g == [k \in 0 .. n |-> [i \in D |-> IF i \div W < k THEN Down(vec, 1)[i] ELSE vec[i]]]
<1>1. /\ n \in Nat /\ D \subseteq Nat /\ DOMAIN vec = D
      /\ \A i \in D : i \div W \in Nat /\ i \div W < n
  BY PositionsOf
<1>2. \A i \in D : i + 1 \in D => (i + 1) \div W \in Nat /\ i \div W <= (i + 1) \div W
  BY <1>1, NextWord
<1>3. \A i \in D : Down(vec, 1)[i] = IF i + 1 \in D THEN vec[i + 1] ELSE "0"
  BY <1>1 DEF Down
<1> HIDE DEF D, n
<1>4. g[0] = vec
  <2>1. g[0] = [i \in D |-> vec[i]]
    BY <1>1
  <2> QED
    BY <2>1 DEF D
<1>5. ASSUME NEW k \in 1 .. n PROVE g[k] = RightStep(vec, k, g[k - 1])
  <2>1. k - 1 \in 0 .. n /\ k \in 0 .. n /\ k \in Nat
    BY <1>1
  <2>2. \A i \in D : g[k - 1][i] = IF i \div W < k - 1 THEN Down(vec, 1)[i] ELSE vec[i]
    BY <2>1
  <2>3. g[k] = [i \in D |-> IF i \div W < k THEN Down(vec, 1)[i] ELSE vec[i]]
    BY <2>1
  <2> HIDE DEF g
  <2>4. ASSUME NEW i \in D
        PROVE  (IF i \div W < k THEN Down(vec, 1)[i] ELSE vec[i])
               = (IF i \div W # k - 1 THEN g[k - 1][i]
                  ELSE IF i + 1 \in D THEN g[k - 1][i + 1] ELSE "0")
    <3>1. CASE i \div W # k - 1
      BY <1>1, <2>1, <2>2, <3>1
    <3>2. CASE i \div W = k - 1
      <4>1. i + 1 \in D => g[k - 1][i + 1] = vec[i + 1]
        BY <1>1, <1>2, <2>1, <2>2, <3>2
      <4> QED
        BY <1>3, <2>1, <3>2, <4>1
    <3> QED
      BY <3>1, <3>2
  <2>5. RightStep(vec, k, g[k - 1]) =
          [i \in D |-> IF i \div W # k - 1 THEN g[k - 1][i]
                       ELSE IF i + 1 \in D THEN g[k - 1][i + 1] ELSE "0"]
    BY <1>1, Zenon DEF RightStep
  <2> QED
    BY <2>3, <2>4, <2>5, Zenon
<1>6. g = [k \in 0 .. n |-> IF k = 0 THEN vec ELSE RightStep(vec, k, g[k - 1])]
  <2> HIDE DEF g
  <2>1. \A k \in 0 .. n : k # 0 => k \in 1 .. n
    BY <1>1
  <2>2. \A k \in 0 .. n : g[k] = IF k = 0 THEN vec ELSE RightStep(vec, k, g[k - 1])
    BY <1>4, <1>5, <2>1
  <2>3. g = [k \in 0 .. n |-> g[k]]
    BY DEF g
  <2> QED
    BY <2>2, <2>3
<1>7. RightPass(vec, n) = g[n]
  <2> HIDE DEF g
  <2> QED
    BY <1>1, <1>6, RightPassIs
<1>8. g[n] = [i \in D |-> Down(vec, 1)[i]]
  <2>1. g[n] = [i \in D |-> IF i \div W < n THEN Down(vec, 1)[i] ELSE vec[i]]
    BY <1>1
  <2> QED
    BY <1>1, <2>1
<1>9. [i \in D |-> Down(vec, 1)[i]] = Down(vec, 1)
  BY <1>1 DEF Down
<1> QED
  BY <1>7, <1>8, <1>9 DEF n

\* So does that of leftShiftVecval, by going from the highest word down.
LEMMA LeftPassBits ==
    ASSUME NEW w \in Nat \ {0}, NEW vec \in [Positions(w) -> Four]
    PROVE  LeftPass(vec, WidthWords(w)) = Up(vec, 1)
<1> DEFINE D == Positions(w)
           n == WidthWords(w)
           g == [k \in 0 .. n |-> [i \in D |-> IF i \div W >= n - k THEN Up(vec, 1)[i] ELSE vec[i]]]
<1>1. /\ n \in Nat /\ D \subseteq Nat /\ DOMAIN vec = D
      /\ \A i \in D : i \div W \in Nat /\ i \div W < n
  BY PositionsOf
<1>2. \A i \in D : i # 0 => /\ i - 1 \in D /\ (i - 1) \div W \in Nat
                            /\ (i - 1) \div W <= i \div W
  <2>1. ASSUME NEW i \in D, i # 0 PROVE i - 1 \in D
    <3>1. i \in Nat /\ i - 1 \in Nat /\ i - 1 <= i
      BY <1>1, <2>1
    <3> QED
      BY <3>1, PositionsOf
  <2>2. ASSUME NEW i \in D, i # 0 PROVE (i - 1) \div W <= i \div W
    <3>1. i - 1 \in Nat /\ (i - 1) + 1 = i
      BY <1>1, <2>2
    <3>2. (i - 1) \div W <= ((i - 1) + 1) \div W
      BY <3>1, NextWord
    <3> QED
      BY <3>1, <3>2
  <2> QED
    BY <1>1, <2>1, <2>2
<1>3. \A i \in D : Up(vec, 1)[i] = IF i = 0 THEN "0" ELSE vec[i - 1]
  <2>1. \A i \in D : Up(vec, 1)[i] = IF i < 1 THEN "0" ELSE vec[i - 1]
    BY <1>1 DEF Up
  <2>2. \A i \in D : i < 1 <=> i = 0
    BY <1>1
  <2> QED
    BY <2>1, <2>2
<1> HIDE DEF D, n
<1>4. g[0] = vec
  <2>1. \A i \in D : ~(i \div W >= n - 0)
    BY <1>1
  <2>2. g[0] = [i \in D |-> vec[i]]
    BY <1>1, <2>1
  <2> QED
    BY <2>2 DEF D
<1>5. ASSUME NEW k \in 1 .. n PROVE g[k] = LeftStep(vec, n, k, g[k - 1])
  <2>1. k - 1 \in 0 .. n /\ k \in 0 .. n /\ k \in Nat
    BY <1>1
  <2>2. \A i \in D : g[k - 1][i] = IF i \div W >= n - (k - 1) THEN Up(vec, 1)[i] ELSE vec[i]
    BY <2>1
  <2>3. g[k] = [i \in D |-> IF i \div W >= n - k THEN Up(vec, 1)[i] ELSE vec[i]]
    BY <2>1
  <2> HIDE DEF g
  <2>4. ASSUME NEW i \in D
        PROVE  (IF i \div W >= n - k THEN Up(vec, 1)[i] ELSE vec[i])
               = (IF i \div W # n - k THEN g[k - 1][i]
                  ELSE IF i = 0 THEN "0" ELSE g[k - 1][i - 1])
    <3>1. CASE i \div W # n - k
      BY <1>1, <2>1, <2>2, <3>1
    <3>2. CASE i \div W = n - k
      <4>1. i # 0 => g[k - 1][i - 1] = vec[i - 1]
        BY <1>1, <1>2, <2>1, <2>2, <3>2
      <4> QED
        BY <1>1, <1>3, <2>1, <3>2, <4>1
    <3> QED
      BY <3>1, <3>2
  <2>5. LeftStep(vec, n, k, g[k - 1]) =
          [i \in D |-> IF i \div W # n - k THEN g[k - 1][i]
                       ELSE IF i = 0 THEN "0" ELSE g[k - 1][i - 1]]
    BY <1>1, Zenon DEF LeftStep
  <2> QED
    BY <2>3, <2>4, <2>5, Zenon
<1>6. g = [k \in 0 .. n |-> IF k = 0 THEN vec ELSE LeftStep(vec, n, k, g[k - 1])]
  <2> HIDE DEF g
  <2>1. \A k \in 0 .. n : k # 0 => k \in 1 .. n
    BY <1>1
  <2>2. \A k \in 0 .. n : g[k] = IF k = 0 THEN vec ELSE LeftStep(vec, n, k, g[k - 1])
    BY <1>4, <1>5, <2>1
  <2>3. g = [k \in 0 .. n |-> g[k]]
    BY DEF g
  <2> QED
    BY <2>2, <2>3
<1>7. LeftPass(vec, n) = g[n]
  <2> HIDE DEF g
  <2> QED
    BY <1>1, <1>6, LeftPassIs
<1>8. g[n] = [i \in D |-> Up(vec, 1)[i]]
  <2>1. g[n] = [i \in D |-> IF i \div W >= n - n THEN Up(vec, 1)[i] ELSE vec[i]]
    BY <1>1
  <2> QED
    BY <1>1, <2>1
<1>9. [i \in D |-> Up(vec, 1)[i]] = Up(vec, 1)
  BY <1>1 DEF Up
<1> QED
  BY <1>7, <1>8, <1>9 DEF n

\* Shifts by n bits and by one more are a shift by n + 1.
LEMMA ShiftedVectors ==
    ASSUME NEW w \in Nat \ {0}, NEW vec \in [Positions(w) -> Four], NEW n \in Nat
    PROVE  /\ Down(vec, n) \in [Positions(w) -> Four] /\ Up(vec, n) \in [Positions(w) -> Four]
           /\ Down(vec, 0) = vec /\ Up(vec, 0) = vec
           /\ Down(Down(vec, n), 1) = Down(vec, n + 1)
           /\ Up(Up(vec, n), 1) = Up(vec, n + 1)
<1> DEFINE D == Positions(w)
<1>1. D \subseteq Nat /\ DOMAIN vec = D /\ \A i \in Nat, j \in D : i <= j => i \in D
  BY PositionsOf
<1>2. vec \in [D -> Four]
  OBVIOUS
<1> HIDE DEF D
<1>3. "0" \in Four
  BY DEF Four
<1>4. \A m \in Nat : Down(vec, m) = [i \in D |-> IF i + m \in D THEN vec[i + m] ELSE "0"]
  BY <1>1 DEF Down
<1>5. \A m \in Nat : Up(vec, m) = [i \in D |-> IF i < m THEN "0" ELSE vec[i - m]]
  BY <1>1 DEF Up
<1>6. \A m \in Nat, i \in D : ~(i < m) => i - m \in D
  <2> SUFFICES ASSUME NEW m \in Nat, NEW i \in D, ~(i < m) PROVE i - m \in D
    OBVIOUS
  <2>1. i \in Nat /\ i - m \in Nat /\ i - m <= i
    BY <1>1
  <2> QED
    BY <1>1, <2>1
<1>7. Down(vec, n) \in [D -> Four] /\ Up(vec, n) \in [D -> Four]
  BY <1>2, <1>3, <1>4, <1>5, <1>6
<1>8. Down(vec, 0) = vec
  <2>1. \A i \in D : i + 0 = i
    BY <1>1
  <2> QED
    BY <1>2, <1>4, <2>1
<1>9. Up(vec, 0) = vec
  <2>1. \A i \in D : ~(i < 0) /\ i - 0 = i
    BY <1>1
  <2> QED
    BY <1>2, <1>5, <2>1
<1>10. Down(Down(vec, n), 1) = Down(vec, n + 1)
  <2>1. Down(Down(vec, n), 1) = [i \in D |-> IF i + 1 \in D THEN Down(vec, n)[i + 1] ELSE "0"]
    BY <1>7 DEF Down
  <2>2. ASSUME NEW i \in D
        PROVE  (IF i + 1 \in D THEN Down(vec, n)[i + 1] ELSE "0")
               = (IF i + (n + 1) \in D THEN vec[i + (n + 1)] ELSE "0")
    <3>1. i \in Nat /\ i + 1 \in Nat /\ (i + 1) + n = i + (n + 1) /\ i + 1 <= i + (n + 1)
      BY <1>1
    <3>2. i + 1 \in D => Down(vec, n)[i + 1] = IF i + (n + 1) \in D THEN vec[i + (n + 1)] ELSE "0"
      BY <1>4, <3>1
    <3>3. i + (n + 1) \in D => i + 1 \in D
      BY <1>1, <3>1
    <3> QED
      BY <3>2, <3>3
  <2>3. Down(vec, n + 1) = [i \in D |-> IF i + (n + 1) \in D THEN vec[i + (n + 1)] ELSE "0"]
    BY <1>4
  <2> QED
    BY <2>1, <2>2, <2>3
<1>11. Up(Up(vec, n), 1) = Up(vec, n + 1)
  <2>1. Up(Up(vec, n), 1) = [i \in D |-> IF i < 1 THEN "0" ELSE Up(vec, n)[i - 1]]
    BY <1>7 DEF Up
  <2>2. ASSUME NEW i \in D
        PROVE  (IF i < 1 THEN "0" ELSE Up(vec, n)[i - 1])
               = (IF i < n + 1 THEN "0" ELSE vec[i - (n + 1)])
    <3>1. i \in Nat /\ (i - 1) - n = i - (n + 1) /\ (i - 1 < n <=> i < n + 1) /\ (i < 1 => i < n + 1)
      BY <1>1
    <3>2. ~(i < 1) => i - 1 \in D
      BY <1>6
    <3>3. ~(i < 1) => Up(vec, n)[i - 1] = IF i - 1 < n THEN "0" ELSE vec[(i - 1) - n]
      BY <1>5, <3>2
    <3> QED
      BY <3>1, <3>3
  <2>3. Up(vec, n + 1) = [i \in D |-> IF i < n + 1 THEN "0" ELSE vec[i - (n + 1)]]
    BY <1>5
  <2> QED
    BY <2>1, <2>2, <2>3
<1> QED
  BY <1>7, <1>8, <1>9, <1>10, <1>11 DEF D

\* >> and << shift the vector as a whole by n bits, unused bits and all, and clear
\* the unused bits afterwards.
LEMMA RightShiftedIs ==
    ASSUME NEW r, IsReg(r), NEW n \in Nat
    PROVE  RightShifted(r, n) = Cleared([r EXCEPT !.vec = Down(r.vec, n)])
<1> DEFINE words == WidthWords(r.width)
           g == [k \in 0 .. n |-> Down(r.vec, k)]
           p == CHOOSE h : h = [k \in 0 .. n |-> IF k = 0 THEN r.vec ELSE RightPass(h[k - 1], words)]
<1>1. r.width \in Nat \ {0} /\ r.vec \in [Positions(r.width) -> Four]
  BY DEF IsReg
<1>2. \A k \in Nat : Down(r.vec, k) \in [Positions(r.width) -> Four]
                     /\ RightPass(Down(r.vec, k), words) = Down(r.vec, k + 1)
  BY <1>1, ShiftedVectors, RightPassBits
<1>3. Down(r.vec, 0) = r.vec
  BY <1>1, ShiftedVectors
<1> HIDE DEF words
<1>4. g[0] = r.vec /\ \A k \in 1 .. n : g[k] = RightPass(g[k - 1], words)
  <2>1. \A k \in 1 .. n : k - 1 \in Nat /\ (k - 1) + 1 = k /\ k - 1 \in 0 .. n /\ k \in 0 .. n
    OBVIOUS
  <2>2. 0 \in 0 .. n
    OBVIOUS
  <2> QED
    BY <1>2, <1>3, <2>1, <2>2
<1>5. g = [k \in 0 .. n |-> IF k = 0 THEN r.vec ELSE RightPass(g[k - 1], words)]
  <2>1. \A k \in 0 .. n : k # 0 => k \in 1 .. n
    OBVIOUS
  <2>2. g = [k \in 0 .. n |-> g[k]]
    OBVIOUS
  <2> HIDE DEF g
  <2> QED
    BY <1>4, <2>1, <2>2
<1>6. p = [k \in 0 .. n |-> IF k = 0 THEN r.vec ELSE RightPass(p[k - 1], words)]
  <2> HIDE DEF g
  <2> QED
    BY <1>5, Zenon
<1>7. RightShifted(r, n) = Cleared([r EXCEPT !.vec = p[n]])
  BY Zenon DEF RightShifted, words
<1>8. g[n] = Down(r.vec, n) /\ n \in Nat
  OBVIOUS
<1> HIDE DEF g, p
<1>9. p[0] = g[0] /\ \A k \in 1 .. n : p[k - 1] = g[k - 1] => p[k] = g[k]
  <2>1. p[0] = r.vec /\ \A k \in 1 .. n : p[k] = RightPass(p[k - 1], words)
    BY <1>6
  <2> QED
    BY <1>4, <2>1, Zenon
<1>10. \A k \in 0 .. n : p[k] = g[k]
  BY ONLY <1>8, <1>9, SameRecursion
<1> QED
  BY <1>7, <1>8, <1>10

\* The same of <<.
LEMMA LeftShiftedIs ==
    ASSUME NEW r, IsReg(r), NEW n \in Nat
    PROVE  LeftShifted(r, n) = Cleared([r EXCEPT !.vec = Up(r.vec, n)])
<1> DEFINE words == WidthWords(r.width)
           g == [k \in 0 .. n |-> Up(r.vec, k)]
           p == CHOOSE h : h = [k \in 0 .. n |-> IF k = 0 THEN r.vec ELSE LeftPass(h[k - 1], words)]
<1>1. r.width \in Nat \ {0} /\ r.vec \in [Positions(r.width) -> Four]
  BY DEF IsReg
<1>2. \A k \in Nat : Up(r.vec, k) \in [Positions(r.width) -> Four]
                     /\ LeftPass(Up(r.vec, k), words) = Up(r.vec, k + 1)
  BY <1>1, ShiftedVectors, LeftPassBits
<1>3. Up(r.vec, 0) = r.vec
  BY <1>1, ShiftedVectors
<1> HIDE DEF words
<1>4. g[0] = r.vec /\ \A k \in 1 .. n : g[k] = LeftPass(g[k - 1], words)
  <2>1. \A k \in 1 .. n : k - 1 \in Nat /\ (k - 1) + 1 = k /\ k - 1 \in 0 .. n /\ k \in 0 .. n
    OBVIOUS
  <2>2. 0 \in 0 .. n
    OBVIOUS
  <2> QED
    BY <1>2, <1>3, <2>1, <2>2
<1>5. g = [k \in 0 .. n |-> IF k = 0 THEN r.vec ELSE LeftPass(g[k - 1], words)]
  <2>1. \A k \in 0 .. n : k # 0 => k \in 1 .. n
    OBVIOUS
  <2>2. g = [k \in 0 .. n |-> g[k]]
    OBVIOUS
  <2> HIDE DEF g
  <2> QED
    BY <1>4, <2>1, <2>2
<1>6. p = [k \in 0 .. n |-> IF k = 0 THEN r.vec ELSE LeftPass(p[k - 1], words)]
  <2> HIDE DEF g
  <2> QED
    BY <1>5, Zenon
<1>7. LeftShifted(r, n) = Cleared([r EXCEPT !.vec = p[n]])
  BY Zenon DEF LeftShifted, words
<1>8. g[n] = Up(r.vec, n) /\ n \in Nat
  OBVIOUS
<1> HIDE DEF g, p
<1>9. p[0] = g[0] /\ \A k \in 1 .. n : p[k - 1] = g[k - 1] => p[k] = g[k]
  <2>1. p[0] = r.vec /\ \A k \in 1 .. n : p[k] = LeftPass(p[k - 1], words)
    BY <1>6
  <2> QED
    BY <1>4, <2>1, Zenon
<1>10. \A k \in 0 .. n : p[k] = g[k]
  BY ONLY <1>8, <1>9, SameRecursion
<1> QED
  BY <1>7, <1>8, <1>10

\* The bits after >>, which may come from the unused ones.
LEMMA RightShiftedBits ==
    ASSUME NEW r, IsReg(r), NEW n \in Nat
    PROVE  LET q == RightShifted(r, n)
           IN  /\ IsReg(q) /\ q.width = r.width /\ Clean(q)
               /\ \A i \in 0 .. r.width - 1 :
                     q.vec[i] = IF i + n \in Positions(r.width) THEN r.vec[i + n] ELSE "0"
<1>1. r.width \in Nat \ {0} /\ r.vec \in [Positions(r.width) -> Four]
  BY DEF IsReg
<1>2. Down(r.vec, n) \in [Positions(r.width) -> Four]
  BY <1>1, ShiftedVectors
<1>3. \A i \in 0 .. r.width - 1 : i < r.width /\ i \in Positions(r.width)
  BY <1>1, PositionsOf
<1>4. \A i \in Positions(r.width) :
         Down(r.vec, n)[i] = IF i + n \in Positions(r.width) THEN r.vec[i + n] ELSE "0"
  BY <1>1 DEF Down
<1>5. RightShifted(r, n) = Cleared([r EXCEPT !.vec = Down(r.vec, n)])
  BY RightShiftedIs
<1> QED
  BY <1>2, <1>3, <1>4, <1>5, ClearedVec

\* The bits after <<.
LEMMA LeftShiftedBits ==
    ASSUME NEW r, IsReg(r), NEW n \in Nat
    PROVE  LET q == LeftShifted(r, n)
           IN  /\ IsReg(q) /\ q.width = r.width /\ Clean(q)
               /\ \A i \in 0 .. r.width - 1 :
                     q.vec[i] = IF i < n THEN "0" ELSE r.vec[i - n]
<1>1. r.width \in Nat \ {0} /\ r.vec \in [Positions(r.width) -> Four]
  BY DEF IsReg
<1>2. Up(r.vec, n) \in [Positions(r.width) -> Four]
  BY <1>1, ShiftedVectors
<1>3. \A i \in 0 .. r.width - 1 : i < r.width /\ i \in Positions(r.width)
  BY <1>1, PositionsOf
<1>4. \A i \in Positions(r.width) : Up(r.vec, n)[i] = IF i < n THEN "0" ELSE r.vec[i - n]
  BY <1>1 DEF Up
<1>5. LeftShifted(r, n) = Cleared([r EXCEPT !.vec = Up(r.vec, n)])
  BY LeftShiftedIs
<1> QED
  BY <1>2, <1>3, <1>4, <1>5, ClearedVec

\* A shift moves every bit of a register, however wide, to its place; >> does so if
\* the unused bits are clear.
LEMMA ShiftHolds == TypeOK => ShiftExact
<1> SUFFICES ASSUME TypeOK, NEW d \in Names, NEW n \in 1 .. reg[d].width
             PROVE  /\ Clean(Synced(d)) =>
                         Agrees(RightShifted(Synced(d), n),
                                [i \in DOMAIN Value(d) |->
                                    IF i + n < reg[d].width THEN Value(d)[i + n] ELSE "0"], TRUE)
                    /\ Agrees(LeftShifted(Synced(d), n),
                              [i \in DOMAIN Value(d) |-> IF i >= n THEN Value(d)[i - n] ELSE "0"], TRUE)
  BY DEF ShiftExact
<1> DEFINE w == reg[d].width
           r == Synced(d)
<1>1. /\ w \in Nat \ {0} /\ DOMAIN Value(d) = 0 .. w - 1
      /\ \A i \in 0 .. w - 1 : Value(d)[i] = r.vec[i]
      /\ Clean(r) => \A i \in Positions(w) : i \notin 0 .. w - 1 => r.vec[i] = "0"
      /\ 0 .. w - 1 \subseteq Positions(w)
  BY ValueBits
<1>2. IsReg(r) /\ r.width = w
  BY RegIs
<1>3. n \in Nat
  BY <1>1
<1> HIDE DEF r, w
<1>4. /\ \A i \in 0 .. w - 1 :
            RightShifted(r, n).vec[i] = IF i + n \in Positions(w) THEN r.vec[i + n] ELSE "0"
      /\ \A i \in 0 .. w - 1 : LeftShifted(r, n).vec[i] = IF i < n THEN "0" ELSE r.vec[i - n]
  <2>1. \A i \in 0 .. r.width - 1 :
           RightShifted(r, n).vec[i] = IF i + n \in Positions(r.width) THEN r.vec[i + n] ELSE "0"
    BY <1>2, <1>3, RightShiftedBits
  <2>2. \A i \in 0 .. r.width - 1 : LeftShifted(r, n).vec[i] = IF i < n THEN "0" ELSE r.vec[i - n]
    BY <1>2, <1>3, LeftShiftedBits
  <2> QED
    BY <1>2, <2>1, <2>2
<1>5. ASSUME Clean(r), NEW i \in 0 .. w - 1
      PROVE  RightShifted(r, n).vec[i] = IF i + n < w THEN Value(d)[i + n] ELSE "0"
  <2>1. CASE i + n < w
    <3>1. i + n \in 0 .. w - 1
      BY <1>1, <1>3, <2>1
    <3> QED
      BY <1>1, <1>4, <2>1, <3>1
  <2>2. CASE ~(i + n < w)
    <3>1. i + n \notin 0 .. w - 1
      BY <1>1, <1>3, <2>2
    <3> QED
      BY <1>1, <1>4, <1>5, <2>2, <3>1
  <2> QED
    BY <2>1, <2>2
<1>6. ASSUME NEW i \in 0 .. w - 1
      PROVE  LeftShifted(r, n).vec[i] = IF i >= n THEN Value(d)[i - n] ELSE "0"
  <2>1. i >= n => ~(i < n) /\ i - n \in 0 .. w - 1
    BY <1>1, <1>3
  <2>2. ~(i >= n) => i < n
    BY <1>1, <1>3
  <2> QED
    BY <1>1, <1>4, <2>1, <2>2
<1> QED
  BY <1>1, <1>5, <1>6 DEF Agrees, r, w

-----------------------------------------------------------------------------
(* Slices and concatenation *)

\* A register of width w with the bits 0 .. k.
Ones(w, k) == [width |-> w, vec |-> [i \in Positions(w) |-> IF i <= k THEN "1" ELSE "0"]]

\* It is a register with those bits.
LEMMA OnesReg ==
    ASSUME NEW w \in Nat \ {0}, NEW k \in Int
    PROVE  /\ IsReg(Ones(w, k)) /\ Ones(w, k).width = w
           /\ \A i \in Positions(w) : Ones(w, k).vec[i] = IF i <= k THEN "1" ELSE "0"
  BY BitType DEF Ones, IsReg

\* The int 1 is the bit 0, and 0 is none.
LEMMA OneIs ==
    ASSUME NEW w \in Nat \ {0}
    PROVE  FromInt(w, One) = Ones(w, 0) /\ FromInt(w, Zero) = Ones(w, -1)
<1>1. /\ IsReg(FromInt(w, One)) /\ FromInt(w, One).width = w
      /\ IsReg(FromInt(w, Zero)) /\ FromInt(w, Zero).width = w
      /\ \A i \in Positions(w) : /\ FromInt(w, One).vec[i] = IF i < W THEN One[i] ELSE "0"
                                 /\ FromInt(w, Zero).vec[i] = IF i < W THEN Zero[i] ELSE "0"
  BY FromIntBits, IntTypes
<1>2. Positions(w) \subseteq Nat /\ W \in Nat \ {0}
  BY PositionsOf, SimRegAssumption
<1>3. \A i \in Positions(w) : /\ FromInt(w, One).vec[i] = IF i <= 0 THEN "1" ELSE "0"
                              /\ FromInt(w, Zero).vec[i] = IF i <= -1 THEN "1" ELSE "0"
  <2>1. \A i \in Positions(w) : i < W => i \in 0 .. W - 1
    BY <1>2
  <2>2. \A i \in 0 .. W - 1 : One[i] = (IF i = 0 THEN "1" ELSE "0") /\ Zero[i] = "0"
    BY DEF One, Zero
  <2> QED
    BY <1>1, <1>2, <2>1, <2>2
<1> QED
  BY <1>1, <1>3, OnesReg, SameReg

\* A step of the loop that builds the mask adds a bit to it.
LEMMA MaskStep ==
    ASSUME NEW w \in Nat \ {0}, NEW k \in Nat, k + 1 < w
    PROVE  Or(LeftShifted(Ones(w, k), 1), FromInt(w, One)) = Ones(w, k + 1)
<1> DEFINE q == LeftShifted(Ones(w, k), 1)
           o == FromInt(w, One)
<1>1. /\ IsReg(q) /\ q.width = w /\ Clean(q)
      /\ \A i \in 0 .. w - 1 : q.vec[i] = IF i < 1 THEN "0" ELSE Ones(w, k).vec[i - 1]
  <2> DEFINE m == Ones(w, k)
  <2>1. IsReg(m) /\ m.width = w
    BY OnesReg
  <2>2. q = LeftShifted(m, 1)
    OBVIOUS
  <2> HIDE DEF m, q
  <2>3. /\ IsReg(q) /\ q.width = m.width /\ Clean(q)
        /\ \A i \in 0 .. m.width - 1 : q.vec[i] = IF i < 1 THEN "0" ELSE m.vec[i - 1]
    BY <2>1, <2>2, LeftShiftedBits
  <2> QED
    BY <2>1, <2>3 DEF m
<1>2. \A i \in Positions(w) : o.vec[i] = IF i <= 0 THEN "1" ELSE "0"
  BY OneIs, OnesReg
<1>3. Positions(w) \subseteq Nat /\ 0 .. w - 1 \subseteq Positions(w)
  BY PositionsOf
<1>4. DOMAIN q.vec = Positions(w)
  BY <1>1 DEF IsReg
<1> HIDE DEF q, o
<1>5. \A i \in Positions(w) : q.vec[i] = IF 1 <= i /\ i <= k + 1 THEN "1" ELSE "0"
  <2> SUFFICES ASSUME NEW i \in Positions(w)
               PROVE  q.vec[i] = IF 1 <= i /\ i <= k + 1 THEN "1" ELSE "0"
    OBVIOUS
  <2>1. CASE i < w
    <3>1. i \in 0 .. w - 1 /\ (~(i < 1) => i - 1 \in Positions(w) /\ i - 1 \in 0 .. w - 1)
      BY <1>3, <2>1
    <3>2. ~(i < 1) => Ones(w, k).vec[i - 1] = IF i - 1 <= k THEN "1" ELSE "0"
      BY <3>1, OnesReg
    <3> QED
      BY <1>1, <1>3, <3>1, <3>2
  <2>2. CASE ~(i < w)
    <3>1. i >= w /\ ~(i <= k + 1)
      BY <1>3, <2>2
    <3> QED
      BY <1>1, <1>4, <3>1 DEF Clean
  <2> QED
    BY <2>1, <2>2
<1>6. \A i \in Positions(w) : Or(q, o).vec[i] = IF i <= k + 1 THEN "1" ELSE "0"
  <2> SUFFICES ASSUME NEW i \in Positions(w)
               PROVE  Or(q, o).vec[i] = IF i <= k + 1 THEN "1" ELSE "0"
    OBVIOUS
  <2>1. /\ q.vec[i] \in {"0", "1"} /\ o.vec[i] \in {"0", "1"}
        /\ (q.vec[i] = "1" \/ o.vec[i] = "1" <=> i <= k + 1)
    BY <1>2, <1>3, <1>5
  <2>2. Or(q, o).vec[i] = LET b == Bval(q.vec[i]) \/ Bval(o.vec[i])
                          IN  Bit(Aval(q.vec[i]) \/ Aval(o.vec[i]) \/ b, b)
    BY <1>1, OrVec
  <2> QED
    BY <2>1, <2>2 DEF Aval, Bval, Bit
<1>7. IsReg(Or(q, o)) /\ Or(q, o).width = w
  BY <1>1, BitwiseReg
<1>8. Or(q, o) = Ones(w, k + 1)
  BY <1>6, <1>7, OnesReg, SameReg
<1> QED
  BY <1>8 DEF q, o

\* A slice of a register is within its width.
LEMMA SliceOf ==
    ASSUME TypeOK, NEW d \in Names, NEW sl \in Slices(d)
    PROVE  /\ sl[1] \in 0 .. reg[d].width - 1 /\ sl[2] \in 0 .. sl[1]
           /\ reg[d].width \in Nat \ {0}
<1>1. reg[d].width \in Nat \ {0}
  BY RegIs
<1> QED
  BY <1>1 DEF Slices

\* The loop that builds the mask of a slice ends with a 1 for each of its bits.
LEMMA SliceMaskIs ==
    ASSUME NEW w \in Nat \ {0}, NEW u \in 0 .. w - 1, NEW l \in 0 .. u
    PROVE  SliceMask(w, u, l) = LeftShifted(Ones(w, u - l), l)
<1> DEFINE n == u - l
           first == Or(FromInt(w, Zero), FromInt(w, One))
           g == [k \in 0 .. n |-> Ones(w, k)]
           p == CHOOSE h : h = [k \in 0 .. n |-> IF k = 0 THEN first
                                                 ELSE Or(LeftShifted(h[k - 1], 1), FromInt(w, One))]
<1>1. n \in Nat /\ n < w
  OBVIOUS
<1>2. SliceMask(w, u, l) = LeftShifted(p[n], l)
  BY Zenon DEF SliceMask
<1> HIDE DEF n
<1>3. first = Ones(w, 0)
  <2>1. \A i \in Positions(w) : first.vec[i] = IF i <= 0 THEN "1" ELSE "0"
    <3> SUFFICES ASSUME NEW i \in Positions(w) PROVE first.vec[i] = IF i <= 0 THEN "1" ELSE "0"
      OBVIOUS
    <3>1. i \in Nat
      BY PositionsOf
    <3>2. FromInt(w, Zero).vec[i] = "0" /\ FromInt(w, One).vec[i] = IF i <= 0 THEN "1" ELSE "0"
      BY <3>1, OneIs, OnesReg
    <3>3. IsReg(FromInt(w, Zero)) /\ FromInt(w, Zero).width = w
      BY OneIs, OnesReg
    <3>4. first.vec[i] = LET b == Bval(FromInt(w, Zero).vec[i]) \/ Bval(FromInt(w, One).vec[i])
                         IN  Bit(Aval(FromInt(w, Zero).vec[i]) \/ Aval(FromInt(w, One).vec[i]) \/ b, b)
      BY <3>3, OrVec
    <3> QED
      BY <3>2, <3>4 DEF Aval, Bval, Bit
  <2>2. IsReg(first) /\ first.width = w
    BY OneIs, OnesReg, BitwiseReg
  <2> HIDE DEF first
  <2> QED
    BY <2>1, <2>2, OnesReg, SameReg
<1> HIDE DEF first
<1>4. \A k \in 1 .. n : g[k] = Or(LeftShifted(g[k - 1], 1), FromInt(w, One))
  <2> SUFFICES ASSUME NEW k \in 1 .. n
               PROVE  g[k] = Or(LeftShifted(g[k - 1], 1), FromInt(w, One))
    OBVIOUS
  <2>1. k - 1 \in Nat /\ (k - 1) + 1 = k /\ k < w /\ k - 1 \in 0 .. n /\ k \in 0 .. n
    BY <1>1
  <2>2. g[k] = Ones(w, k) /\ g[k - 1] = Ones(w, k - 1)
    BY <2>1
  <2> HIDE DEF g
  <2>3. Or(LeftShifted(Ones(w, k - 1), 1), FromInt(w, One)) = Ones(w, (k - 1) + 1)
    BY <2>1, MaskStep
  <2> QED
    BY <2>1, <2>2, <2>3
<1>5. g[0] = first /\ g = [k \in 0 .. n |-> g[k]] /\ g[n] = Ones(w, n)
  BY <1>1, <1>3
<1> HIDE DEF g
<1>6. g = [k \in 0 .. n |-> IF k = 0 THEN first ELSE Or(LeftShifted(g[k - 1], 1), FromInt(w, One))]
  <2>1. \A k \in 0 .. n : k # 0 => k \in 1 .. n
    BY <1>1
  <2> QED
    BY <1>4, <1>5, <2>1
<1>7. p = [k \in 0 .. n |-> IF k = 0 THEN first ELSE Or(LeftShifted(p[k - 1], 1), FromInt(w, One))]
  BY <1>6, Zenon
<1> HIDE DEF p
<1>8. p[0] = g[0] /\ \A k \in 1 .. n : p[k - 1] = g[k - 1] => p[k] = g[k]
  <2>1. p[0] = first /\ \A k \in 1 .. n : p[k] = Or(LeftShifted(p[k - 1], 1), FromInt(w, One))
    BY <1>1, <1>7
  <2> QED
    BY <1>4, <1>5, <2>1, Zenon
<1>9. \A k \in 0 .. n : p[k] = g[k]
  BY ONLY <1>1, <1>8, SameRecursion
<1>10. p[n] = Ones(w, n)
  BY <1>1, <1>5, <1>9
<1> QED
  BY <1>2, <1>10 DEF n

\* The mask has the bits of the slice and no other.
LEMMA SliceMaskBits ==
    ASSUME NEW w \in Nat \ {0}, NEW u \in 0 .. w - 1, NEW l \in 0 .. u
    PROVE  /\ IsReg(SliceMask(w, u, l)) /\ SliceMask(w, u, l).width = w
           /\ \A i \in Positions(w) : SliceMask(w, u, l).vec[i] = IF i \in l .. u THEN "1" ELSE "0"
<1> DEFINE q == SliceMask(w, u, l)
<1>1. /\ IsReg(q) /\ q.width = w /\ Clean(q)
      /\ \A i \in 0 .. w - 1 : q.vec[i] = IF i < l THEN "0" ELSE Ones(w, u - l).vec[i - l]
  <2> DEFINE m == Ones(w, u - l)
  <2>1. IsReg(m) /\ m.width = w /\ q = LeftShifted(m, l) /\ l \in Nat
    BY SliceMaskIs, OnesReg
  <2> HIDE DEF m, q
  <2>2. /\ IsReg(q) /\ q.width = m.width /\ Clean(q)
        /\ \A i \in 0 .. m.width - 1 : q.vec[i] = IF i < l THEN "0" ELSE m.vec[i - l]
    BY <2>1, LeftShiftedBits
  <2> QED
    BY <2>1, <2>2 DEF m
<1>2. Positions(w) \subseteq Nat /\ 0 .. w - 1 \subseteq Positions(w)
  BY PositionsOf
<1>3. DOMAIN q.vec = Positions(w)
  BY <1>1 DEF IsReg
<1> HIDE DEF q
<1>4. ASSUME NEW i \in Positions(w) PROVE q.vec[i] = IF i \in l .. u THEN "1" ELSE "0"
  <2>1. CASE i < w
    <3>1. i \in 0 .. w - 1 /\ (~(i < l) => i - l \in 0 .. w - 1 /\ i - l \in Positions(w))
      BY <1>2, <2>1
    <3>2. ~(i < l) => Ones(w, u - l).vec[i - l] = IF i - l <= u - l THEN "1" ELSE "0"
      BY <3>1, OnesReg
    <3> QED
      BY <1>1, <1>2, <3>1, <3>2
  <2>2. CASE ~(i < w)
    <3>1. i >= w /\ i \notin l .. u
      BY <1>2, <2>2
    <3> QED
      BY <1>1, <1>3, <3>1 DEF Clean
  <2> QED
    BY <2>1, <2>2
<1> QED
  BY <1>1, <1>4 DEF q

\* What is or-ed into a register for a slice of it is a register of its width.
LEMMA SliceCopyReg ==
    ASSUME NEW w \in Nat \ {0}, NEW u \in 0 .. w - 1, NEW l \in 0 .. u, NEW s, IsReg(s)
    PROVE  IsReg(SliceCopy(w, u, l, s)) /\ SliceCopy(w, u, l, s).width = w
<1> DEFINE o == FromInt(w, One)
           a == Assigned(o, s)
           q == LeftShifted(a, l)
<1>1. IsReg(o) /\ o.width = w
  BY OneIs, OnesReg
<1> HIDE DEF o
<1>2. IsReg(a) /\ a.width = w
  BY <1>1, AssignedBits
<1> HIDE DEF a
<1>3. IsReg(q) /\ q.width = w
  <2>1. l \in Nat
    OBVIOUS
  <2>2. IsReg(q) /\ q.width = a.width
    BY ONLY <1>2, <2>1, LeftShiftedBits
  <2> QED
    BY <1>2, <2>2
<1> HIDE DEF q
<1>4. SliceCopy(w, u, l, s) = And(q, SliceMask(w, u, l))
  BY DEF SliceCopy, q, a, o
<1> QED
  BY <1>3, <1>4, BitwiseReg

\* Writing a slice leaves a register of the same width.
LEMMA SliceAssignedReg ==
    ASSUME NEW r, IsReg(r), NEW u \in 0 .. r.width - 1, NEW l \in 0 .. u, NEW s, IsReg(s)
    PROVE  IsReg(SliceAssigned(r, u, l, s)) /\ SliceAssigned(r, u, l, s).width = r.width
<1> DEFINE a == And(r, LogicalNot(SliceMask(r.width, u, l)))
<1>1. IsReg(a) /\ a.width = r.width
  BY BitwiseReg
<1>2. SliceAssigned(r, u, l, s) = Or(a, SliceCopy(r.width, u, l, s))
  BY DEF SliceAssigned
<1> HIDE DEF a
<1> QED
  BY <1>1, <1>2, BitwiseReg

\* Reading a slice gives a register as wide as the slice.
LEMMA FromSliceReg ==
    ASSUME NEW r, IsReg(r), NEW u \in 0 .. r.width - 1, NEW l \in 0 .. u
    PROVE  IsReg(FromSlice(r, u, l)) /\ FromSlice(r, u, l).width = u - l + 1
<1> DEFINE o == FromInt(u - l + 1, Zero)
           a == Assigned(r, r)
           q == RightShifted(a, l)
<1>1. IsReg(o) /\ o.width = u - l + 1
  BY OneIs, OnesReg
<1>2. IsReg(a) /\ a.width = r.width
  BY AssignedBits
<1> HIDE DEF o, a
<1>3. IsReg(q)
  BY <1>2, RightShiftedBits
<1> HIDE DEF q
<1>4. FromSlice(r, u, l) = Assigned(o, q)
  BY DEF FromSlice, q, a, o
<1> QED
  BY <1>1, <1>3, <1>4, AssignedBits

\* operator, gives a register as wide as both its operands.
LEMMA ConcatReg ==
    ASSUME NEW r, IsReg(r), NEW s, IsReg(s)
    PROVE  IsReg(Concat(r, s)) /\ Concat(r, s).width = r.width + s.width
<1> DEFINE w == r.width + s.width
           o == FromInt(w, Zero)
           a == Assigned(o, s)
<1>1. r.width \in Nat \ {0} /\ s.width \in Nat \ {0}
  BY DEF IsReg
<1>2. w \in Nat \ {0} /\ w - 1 \in 0 .. w - 1 /\ s.width \in 0 .. w - 1
  BY <1>1
<1>3. IsReg(o) /\ o.width = w
  BY <1>2, OneIs, OnesReg
<1> HIDE DEF o
<1>4. IsReg(a) /\ a.width = w
  BY <1>3, AssignedBits
<1> HIDE DEF a
<1>5. Concat(r, s) = SliceAssigned(a, w - 1, s.width, r)
  BY DEF Concat, a, o
<1> HIDE DEF w
<1>6. IsReg(SliceAssigned(a, w - 1, s.width, r)) /\ SliceAssigned(a, w - 1, s.width, r).width = w
  BY <1>2, <1>4, SliceAssignedReg
<1> QED
  BY <1>5, <1>6 DEF w

\* What is copied into a slice has the bits of the other register in it, and is
\* zero beside it.
LEMMA SliceCopyBits ==
    ASSUME NEW w \in Nat \ {0}, NEW u \in 0 .. w - 1, NEW l \in 0 .. u, NEW s, IsReg(s),
           NEW i \in 0 .. w - 1,
           ~Bval(SliceCopy(w, u, l, s).vec[i]) \/ AllKnown(s)
    PROVE  /\ ~Bval(SliceCopy(w, u, l, s).vec[i])
           /\ SliceCopy(w, u, l, s).vec[i] =
                 IF i \in l .. u /\ i - l \in Positions(s.width) THEN s.vec[i - l] ELSE "0"
<1> DEFINE o == FromInt(w, One)
           a == Assigned(o, s)
           q == LeftShifted(a, l)
           m == SliceMask(w, u, l)
<1>1. IsReg(o) /\ o.width = w
  BY OneIs, OnesReg
<1> HIDE DEF o
<1>2. /\ IsReg(a) /\ a.width = w /\ Clean(a)
      /\ \A j \in 0 .. w - 1 : a.vec[j] = IF j \in Positions(s.width) THEN s.vec[j] ELSE "0"
  BY <1>1, AssignedBits
<1> HIDE DEF a
<1>3. /\ IsReg(q) /\ q.width = w /\ Clean(q)
      /\ \A j \in 0 .. w - 1 : q.vec[j] = IF j < l THEN "0" ELSE a.vec[j - l]
  <2>1. l \in Nat
    OBVIOUS
  <2>2. /\ IsReg(q) /\ q.width = a.width /\ Clean(q)
        /\ \A j \in 0 .. a.width - 1 : q.vec[j] = IF j < l THEN "0" ELSE a.vec[j - l]
    BY <1>2, <2>1, LeftShiftedBits
  <2> HIDE DEF q
  <2> QED
    BY <1>2, <2>2
<1>4. SliceCopy(w, u, l, s) = And(q, m)
  BY DEF SliceCopy, q, a, o
<1> HIDE DEF q
<1>5. /\ IsReg(m) /\ m.width = w
      /\ \A j \in Positions(w) : m.vec[j] = IF j \in l .. u THEN "1" ELSE "0"
  BY SliceMaskBits
<1> HIDE DEF m
<1>6. 0 .. w - 1 \subseteq Positions(w) /\ "0" \in Four /\ ~Bval("0") /\ ~Bval("1")
  BY PositionsOf, BitType DEF Bval
<1>7. AllKnown(m)
  BY <1>5, <1>6, AllKnownOf
<1>8. AllKnown(s) => AllKnown(q)
  <2> SUFFICES ASSUME AllKnown(s) PROVE AllKnown(q)
    OBVIOUS
  <2>1. \A j \in 0 .. w - 1 : ~Bval(a.vec[j])
    BY <1>2, <1>6, AllKnownOf
  <2>2. \A j \in 0 .. w - 1 : ~(j < l) => j - l \in 0 .. w - 1
    OBVIOUS
  <2>3. \A j \in 0 .. w - 1 : ~Bval(q.vec[j])
    BY <1>3, <1>6, <2>1, <2>2
  <2> QED
    BY <1>3, <2>3, CleanKnown
<1>9. And(q, m).vec[i] = RefAnd(q.vec[i], m.vec[i])
  BY <1>3, <1>4, <1>5, <1>7, <1>8, AndBit
<1>10. m.vec[i] = IF i \in l .. u THEN "1" ELSE "0"
  BY <1>5, <1>6
<1>11. q.vec[i] \in Four
  BY <1>3, VisibleBit
<1>12. ~Bval(And(q, m).vec[i])
  <2>1. AllKnown(s) => ~Bval(q.vec[i])
    BY <1>3, <1>6, <1>8, AllKnownOf
  <2> QED
    BY <1>4, <1>9, <1>10, <1>11, <2>1 DEF Four, RefAnd, Bval
<1>13. i \in l .. u => q.vec[i] = IF i - l \in Positions(s.width) THEN s.vec[i - l] ELSE "0"
  <2> SUFFICES ASSUME i \in l .. u
               PROVE  q.vec[i] = IF i - l \in Positions(s.width) THEN s.vec[i - l] ELSE "0"
    OBVIOUS
  <2>1. ~(i < l) /\ i - l \in 0 .. w - 1
    OBVIOUS
  <2> QED
    BY <1>2, <1>3, <2>1
<1>14. i \in l .. u => And(q, m).vec[i] = q.vec[i]
  BY <1>9, <1>10, <1>11, <1>12 DEF Four, RefAnd, Bval
<1>15. i \notin l .. u => And(q, m).vec[i] = "0"
  BY <1>9, <1>10 DEF RefAnd
<1> QED
  BY <1>4, <1>12, <1>13, <1>14, <1>15

\* With the mask inverted, &= clears the bits of the slice and no other.
LEMMA MaskedBits ==
    ASSUME NEW r, IsReg(r), NEW u \in 0 .. r.width - 1, NEW l \in 0 .. u, NEW i \in 0 .. r.width - 1,
           ~Bval(And(r, LogicalNot(SliceMask(r.width, u, l))).vec[i]) \/ AllKnown(r)
    PROVE  LET q == And(r, LogicalNot(SliceMask(r.width, u, l)))
           IN  ~Bval(q.vec[i]) /\ q.vec[i] = IF i \in l .. u THEN "0" ELSE r.vec[i]
<1> DEFINE m == SliceMask(r.width, u, l)
           n == LogicalNot(m)
<1>1. r.width \in Nat \ {0}
  BY DEF IsReg
<1>2. /\ IsReg(m) /\ m.width = r.width
      /\ \A j \in Positions(r.width) : m.vec[j] = IF j \in l .. u THEN "1" ELSE "0"
  BY <1>1, SliceMaskBits
<1>3. 0 .. r.width - 1 \subseteq Positions(r.width) /\ ~Bval("0") /\ ~Bval("1")
  BY <1>1, PositionsOf DEF Bval
<1> HIDE DEF m
<1>4. IsReg(n) /\ n.width = r.width
  BY <1>2, BitwiseReg
<1>5. \A j \in 0 .. r.width - 1 : n.vec[j] = RefNot(m.vec[j])
  BY <1>2, NotBit
<1>6. \A j \in 0 .. r.width - 1 : n.vec[j] = IF j \in l .. u THEN "0" ELSE "1"
  BY <1>2, <1>3, <1>5 DEF RefNot
<1>7. Clean(n)
  <2> DEFINE v == [j \in DOMAIN m.vec |-> Bit(~Aval(m.vec[j]) \/ Bval(m.vec[j]), Bval(m.vec[j]))]
  <2>1. v \in [Positions(r.width) -> Four]
    BY <1>2, BitType DEF IsReg
  <2>2. n = Cleared([m EXCEPT !.vec = v])
    BY DEF LogicalNot
  <2> HIDE DEF v, n
  <2> QED
    BY <1>2, <2>1, <2>2, ClearedVec
<1> HIDE DEF n
<1>8. AllKnown(n)
  BY <1>3, <1>4, <1>6, <1>7, CleanKnown
<1>9. ~Bval(And(r, n).vec[i]) \/ AllKnown(r)
  BY DEF n, m
<1>10. And(r, n).vec[i] = RefAnd(r.vec[i], n.vec[i])
  BY <1>4, <1>8, <1>9, AndBit
<1>11. r.vec[i] \in Four /\ (AllKnown(r) => ~Bval(r.vec[i]))
  BY <1>3, VisibleBit, AllKnownOf
<1>12. ~Bval(And(r, n).vec[i]) /\ And(r, n).vec[i] = IF i \in l .. u THEN "0" ELSE r.vec[i]
  BY <1>6, <1>9, <1>10, <1>11 DEF Four, RefAnd, Bval
<1> QED
  BY <1>12 DEF n, m

\* The bits after a slice is written: a bit that is known is the right one.
LEMMA SliceAssignedBits ==
    ASSUME NEW r, IsReg(r), NEW u \in 0 .. r.width - 1, NEW l \in 0 .. u, NEW s, IsReg(s),
           NEW i \in 0 .. r.width - 1,
           ~Bval(SliceAssigned(r, u, l, s).vec[i]) \/ (AllKnown(r) /\ AllKnown(s))
    PROVE  SliceAssigned(r, u, l, s).vec[i] =
              IF i \in l .. u
                THEN IF i - l \in Positions(s.width) THEN s.vec[i - l] ELSE "0"
                ELSE r.vec[i]
<1> DEFINE a == And(r, LogicalNot(SliceMask(r.width, u, l)))
           c == SliceCopy(r.width, u, l, s)
<1>1. r.width \in Nat \ {0} /\ i \in Positions(r.width)
  BY PositionsOf DEF IsReg
<1>2. IsReg(a) /\ a.width = r.width /\ IsReg(c) /\ c.width = r.width
  BY <1>1, BitwiseReg, SliceCopyReg
<1>3. SliceAssigned(r, u, l, s) = Or(a, c)
  BY DEF SliceAssigned
<1>4. ~Bval(a.vec[i]) \/ AllKnown(r)
  <2> HIDE DEF a, c
  <2> QED
    BY <1>1, <1>2, <1>3, KnownOr
<1>5. ~Bval(c.vec[i]) \/ AllKnown(s)
  <2> HIDE DEF a, c
  <2> QED
    BY <1>1, <1>2, <1>3, KnownOr
<1>6. ~Bval(a.vec[i]) /\ a.vec[i] = IF i \in l .. u THEN "0" ELSE r.vec[i]
  BY <1>4, MaskedBits
<1>7. /\ ~Bval(c.vec[i])
      /\ c.vec[i] = IF i \in l .. u /\ i - l \in Positions(s.width) THEN s.vec[i - l] ELSE "0"
  BY <1>1, <1>5, SliceCopyBits
<1>8. a.vec[i] \in Four /\ c.vec[i] \in Four
  BY <1>2, VisibleBit
<1> HIDE DEF a, c
<1>9. Or(a, c).vec[i] = LET b == Bval(a.vec[i]) \/ Bval(c.vec[i])
                        IN  Bit(Aval(a.vec[i]) \/ Aval(c.vec[i]) \/ b, b)
  BY <1>1, <1>2, OrVec
<1>10. a.vec[i] = "0" => Or(a, c).vec[i] = c.vec[i]
  BY <1>7, <1>8, <1>9 DEF Four, Aval, Bval, Bit
<1>11. c.vec[i] = "0" => Or(a, c).vec[i] = a.vec[i]
  BY <1>6, <1>8, <1>9 DEF Four, Aval, Bval, Bit
<1> QED
  BY <1>3, <1>6, <1>7, <1>10, <1>11

\* Reading a slice of any register gives its bits, unknown ones included.
LEMMA FromSliceBits ==
    ASSUME NEW r, IsReg(r), NEW u \in 0 .. r.width - 1, NEW l \in 0 .. u, NEW i \in 0 .. u - l
    PROVE  FromSlice(r, u, l).vec[i] = r.vec[i + l]
<1> DEFINE o == FromInt(u - l + 1, Zero)
           a == Assigned(r, r)
           q == RightShifted(a, l)
<1>1. r.width \in Nat \ {0} /\ 0 .. r.width - 1 \subseteq Positions(r.width)
  BY PositionsOf DEF IsReg
<1>2. IsReg(o) /\ o.width = u - l + 1
  BY OneIs, OnesReg
<1>3. /\ IsReg(a) /\ a.width = r.width
      /\ \A j \in 0 .. r.width - 1 : a.vec[j] = IF j \in Positions(r.width) THEN r.vec[j] ELSE "0"
  BY AssignedBits
<1> HIDE DEF o, a
<1>4. /\ IsReg(q) /\ q.width = a.width
      /\ \A j \in 0 .. a.width - 1 : q.vec[j] = IF j + l \in Positions(a.width) THEN a.vec[j + l] ELSE "0"
  <2>1. l \in Nat
    OBVIOUS
  <2> QED
    BY <1>3, <2>1, RightShiftedBits
<1> HIDE DEF q
<1>5. FromSlice(r, u, l) = Assigned(o, q)
  BY DEF FromSlice, q, a, o
<1>6. \A j \in 0 .. o.width - 1 :
         Assigned(o, q).vec[j] = IF j \in Positions(q.width) THEN q.vec[j] ELSE "0"
  BY <1>2, <1>4, AssignedBits
<1>7. i \in 0 .. o.width - 1 /\ i \in 0 .. r.width - 1 /\ i + l \in 0 .. r.width - 1
  BY <1>1, <1>2
<1> QED
  BY <1>1, <1>3, <1>4, <1>5, <1>6, <1>7

\* operator, puts the one register above the other.
LEMMA ConcatBits ==
    ASSUME NEW r, IsReg(r), NEW s, IsReg(s), NEW i \in 0 .. r.width + s.width - 1,
           ~Bval(Concat(r, s).vec[i]) \/ (AllKnown(r) /\ AllKnown(s))
    PROVE  Concat(r, s).vec[i] = IF i < s.width THEN s.vec[i] ELSE r.vec[i - s.width]
<1> DEFINE w == r.width + s.width
           o == FromInt(w, Zero)
           a == Assigned(o, s)
<1>1. r.width \in Nat \ {0} /\ s.width \in Nat \ {0}
  BY DEF IsReg
<1>2. w \in Nat \ {0} /\ w - 1 \in 0 .. w - 1 /\ s.width \in 0 .. w - 1 /\ i \in 0 .. w - 1
  BY <1>1
<1>3. IsReg(o) /\ o.width = w
  BY <1>2, OneIs, OnesReg
<1> HIDE DEF o
<1>4. /\ IsReg(a) /\ a.width = w /\ Clean(a)
      /\ \A j \in 0 .. w - 1 : a.vec[j] = IF j \in Positions(s.width) THEN s.vec[j] ELSE "0"
  BY <1>3, AssignedBits
<1>5. Concat(r, s) = SliceAssigned(a, w - 1, s.width, r)
  BY DEF Concat, a, o
<1> HIDE DEF a
<1>6. AllKnown(s) => AllKnown(a)
  <2>1. ~Bval("0")
    BY DEF Bval
  <2>2. AllKnown(s) => \A j \in 0 .. w - 1 : ~Bval(a.vec[j])
    BY <1>4, <2>1, AllKnownOf
  <2> HIDE DEF w
  <2> QED
    BY <1>4, <2>2, CleanKnown
<1>7. /\ 0 .. s.width - 1 \subseteq Positions(s.width)
      /\ 0 .. r.width - 1 \subseteq Positions(r.width)
  BY <1>1, PositionsOf
<1>8. SliceAssigned(a, w - 1, s.width, r).vec[i] =
         IF i \in s.width .. w - 1
           THEN IF i - s.width \in Positions(r.width) THEN r.vec[i - s.width] ELSE "0"
           ELSE a.vec[i]
  <2> DEFINE u == w - 1
             l == s.width
  <2>1. u \in 0 .. a.width - 1 /\ l \in 0 .. u /\ i \in 0 .. a.width - 1
    BY <1>2, <1>4
  <2>2. ~Bval(SliceAssigned(a, u, l, r).vec[i]) \/ (AllKnown(a) /\ AllKnown(r))
    BY <1>5, <1>6
  <2> HIDE DEF u, l, w
  <2>3. SliceAssigned(a, u, l, r).vec[i] =
           IF i \in l .. u
             THEN IF i - l \in Positions(r.width) THEN r.vec[i - l] ELSE "0"
             ELSE a.vec[i]
    BY <1>4, <2>1, <2>2, SliceAssignedBits
  <2> QED
    BY <2>3 DEF u, l
<1>9. CASE i < s.width
  <2>1. i \in 0 .. s.width - 1 /\ i \notin s.width .. w - 1
    BY <1>1, <1>2, <1>9
  <2> QED
    BY <1>2, <1>4, <1>5, <1>7, <1>8, <1>9, <2>1
<1>10. CASE ~(i < s.width)
  <2>1. i \in s.width .. w - 1 /\ i - s.width \in 0 .. r.width - 1
    BY <1>1, <1>2, <1>10
  <2> QED
    BY <1>5, <1>7, <1>8, <1>10, <2>1
<1> QED
  BY <1>9, <1>10

\* Writing a slice changes the bits of it and no other, reading one gives its bits,
\* and a concatenation has the one operand above the other; no unknown bit is
\* turned into a 0 or a 1.
LEMMA SliceHolds == TypeOK => SliceSound
<1> SUFFICES ASSUME TypeOK, NEW d \in Names, NEW s \in Names
             PROVE  LET exact == AllKnown(Synced(d)) /\ AllKnown(Synced(s))
                    IN  /\ \A sl \in Slices(d) :
                              LET Part(r, n) == [i \in 0 .. n |-> r[i + sl[2]]]
                                  Copied(i) == IF i - sl[2] < reg[s].width THEN Value(s)[i - sl[2]] ELSE "0"
                              IN  /\ Agrees(FromSlice(Synced(d), sl[1], sl[2]),
                                            Part(Value(d), sl[1] - sl[2]), TRUE)
                                  /\ d # connected /\ (sl[1] - sl[2] < reg[s].width \/ Clean(Synced(s))) =>
                                       Agrees(SliceAssigned(Synced(d), sl[1], sl[2], Synced(s)),
                                              [i \in DOMAIN Value(d) |->
                                                  IF i \in sl[2] .. sl[1] THEN Copied(i) ELSE Value(d)[i]],
                                              exact)
                        /\ Agrees(Concat(Synced(d), Synced(s)),
                                  [i \in 0 .. reg[d].width + reg[s].width - 1 |->
                                      IF i < reg[s].width THEN Value(s)[i] ELSE Value(d)[i - reg[s].width]],
                                  exact)
  BY DEF SliceSound
<1> DEFINE exact == AllKnown(Synced(d)) /\ AllKnown(Synced(s))
           r == Synced(d)
           q == Synced(s)
           w == reg[d].width
           m == reg[s].width
<1>1. /\ w \in Nat \ {0} /\ DOMAIN Value(d) = 0 .. w - 1
      /\ \A i \in 0 .. w - 1 : Value(d)[i] = r.vec[i]
      /\ m \in Nat \ {0} /\ \A i \in 0 .. m - 1 : Value(s)[i] = q.vec[i]
      /\ Clean(q) => \A i \in Positions(m) : i \notin 0 .. m - 1 => q.vec[i] = "0"
      /\ 0 .. m - 1 \subseteq Positions(m)
  BY ValueBits
<1>2. IsReg(r) /\ r.width = w /\ IsReg(q) /\ q.width = m
  BY RegIs
<1> HIDE DEF r, q, w, m
<1>3. ASSUME NEW sl \in Slices(d)
      PROVE  /\ \A i \in 0 .. sl[1] - sl[2] : FromSlice(r, sl[1], sl[2]).vec[i] = Value(d)[i + sl[2]]
             /\ (sl[1] - sl[2] < m \/ Clean(q)) =>
                   \A i \in 0 .. w - 1 :
                      ~Bval(SliceAssigned(r, sl[1], sl[2], q).vec[i]) \/ (AllKnown(r) /\ AllKnown(q)) =>
                         SliceAssigned(r, sl[1], sl[2], q).vec[i] =
                            IF i \in sl[2] .. sl[1]
                              THEN IF i - sl[2] < m THEN Value(s)[i - sl[2]] ELSE "0"
                              ELSE Value(d)[i]
  <2> DEFINE u == sl[1]
             l == sl[2]
  <2>1. u \in 0 .. w - 1 /\ l \in 0 .. u
    BY SliceOf DEF w
  <2> HIDE DEF u, l
  <2>2. ASSUME NEW i \in 0 .. u - l PROVE FromSlice(r, u, l).vec[i] = Value(d)[i + l]
    <3>1. i + l \in 0 .. w - 1
      BY <1>1, <2>1
    <3>2. FromSlice(r, u, l).vec[i] = r.vec[i + l]
      BY <1>2, <2>1, FromSliceBits
    <3> QED
      BY <1>1, <3>1, <3>2
  <2>3. ASSUME u - l < m \/ Clean(q), NEW i \in 0 .. w - 1,
               ~Bval(SliceAssigned(r, u, l, q).vec[i]) \/ (AllKnown(r) /\ AllKnown(q))
        PROVE  SliceAssigned(r, u, l, q).vec[i] =
                  IF i \in l .. u THEN IF i - l < m THEN Value(s)[i - l] ELSE "0" ELSE Value(d)[i]
    <3>1. SliceAssigned(r, u, l, q).vec[i] =
             IF i \in l .. u
               THEN IF i - l \in Positions(m) THEN q.vec[i - l] ELSE "0"
               ELSE r.vec[i]
      BY <1>2, <2>1, <2>3, SliceAssignedBits
    <3>2. CASE i \in l .. u
      <4>1. i - l \in Nat /\ i - l <= u - l /\ u - l \in Nat
        BY <2>1, <3>2
      <4>2. CASE i - l < m
        <5>1. i - l \in 0 .. m - 1
          BY <1>1, <4>1, <4>2
        <5> QED
          BY <1>1, <3>1, <3>2, <4>2, <5>1
      <4>3. CASE ~(i - l < m)
        <5>1. i - l \notin 0 .. m - 1 /\ ~(u - l < m)
          BY <1>1, <4>1, <4>3
        <5> QED
          BY <1>1, <2>3, <3>1, <3>2, <4>3, <5>1
      <4> QED
        BY <4>2, <4>3
    <3>3. CASE i \notin l .. u
      BY <1>1, <3>1, <3>3
    <3> QED
      BY <3>2, <3>3
  <2> QED
    BY <2>2, <2>3 DEF u, l
<1>4. ASSUME NEW i \in 0 .. w + m - 1,
             ~Bval(Concat(r, q).vec[i]) \/ (AllKnown(r) /\ AllKnown(q))
      PROVE  Concat(r, q).vec[i] = IF i < m THEN Value(s)[i] ELSE Value(d)[i - m]
  <2>1. Concat(r, q).vec[i] = IF i < m THEN q.vec[i] ELSE r.vec[i - m]
    BY <1>2, <1>4, ConcatBits
  <2>2. i < m => i \in 0 .. m - 1
    BY <1>1
  <2>3. ~(i < m) => i - m \in 0 .. w - 1
    BY <1>1
  <2> QED
    BY <1>1, <2>1, <2>2, <2>3
<1> QED
  BY <1>1, <1>3, <1>4 DEF Agrees, r, q, w, m

-----------------------------------------------------------------------------
(* Literals *)

\* Each bit of a word that setToString fills has a character of the literal.
LEMMA BinaryChar ==
    ASSUME NEW w \in Nat \ {0}, NEW i \in Positions(w),
           NEW start, start = IF (i \div W + 1) * W > w THEN (w % W) - 1 ELSE W - 1,
           i % W <= start
    PROVE  w - 1 - (start - (i % W) + W * (i \div W)) \in 0 .. w - 1
<1> DEFINE k == i \div W
           m == i % W
           n == (w - 1) \div W
<1>1. W \in Nat \ {0} /\ i \in Nat /\ w - 1 \in Nat
  BY PositionsOf, SimRegAssumption
<1>2. k \in Nat /\ m \in 0 .. W - 1
  BY <1>1, DivMod
<1>3. n \in Nat /\ n * W <= w - 1
  <2> DEFINE z == (w - 1) % W
  <2>1. n \in Nat /\ z \in 0 .. W - 1 /\ w - 1 = n * W + z
    BY <1>1, DivMod
  <2> HIDE DEF n, z
  <2>2. n * W \in Nat
    BY <1>1, <2>1
  <2> QED
    BY <1>1, <2>1, <2>2
<1>4. k <= n
  <2>1. k < WidthWords(w)
    BY PositionsOf
  <2> QED
    BY <1>2, <1>3, <2>1 DEF WidthWords
<1> HIDE DEF k, m, n
<1>5. k * W <= w - 1 /\ k * W \in Nat /\ (k + 1) * W = k * W + W /\ W * k = k * W
  <2>1. k * W <= n * W
    BY <1>1, <1>2, <1>3, <1>4
  <2>2. k * W \in Nat /\ (k + 1) * W = k * W + W /\ W * k = k * W /\ n * W \in Nat
    BY <1>1, <1>2, <1>3
  <2> QED
    BY <1>1, <1>3, <2>1, <2>2
<1>6. start = IF (k + 1) * W > w THEN (w % W) - 1 ELSE W - 1
  BY DEF k
<1>7. CASE (k + 1) * W > w
  <2>1. w - k * W \in 0 .. W - 1 /\ w = k * W + (w - k * W)
    BY <1>1, <1>5, <1>7
  <2> DEFINE c == w - k * W
  <2> HIDE DEF c
  <2>2. (k * W + c) % W = c
    BY <1>1, <1>2, <2>1, DivIs DEF c
  <2>3. start = w - k * W - 1
    BY <1>6, <1>7, <2>1, <2>2 DEF c
  <2>4. w - 1 - (start - m + k * W) \in 0 .. w - 1
    <3>1. m <= start
      BY DEF m
    <3> QED
      BY <1>1, <1>2, <1>5, <2>3, <3>1
  <2> QED
    BY <1>5, <2>4 DEF k, m
<1>8. CASE ~((k + 1) * W > w)
  <2>1. start = W - 1 /\ k * W + W <= w
    BY <1>1, <1>5, <1>6, <1>8
  <2>2. w - 1 - (start - m + k * W) \in 0 .. w - 1
    BY <1>1, <1>2, <1>5, <2>1
  <2> QED
    BY <1>5, <2>2 DEF k, m
<1> QED
  BY <1>7, <1>8

\* A register that is given a binary literal is a register.
LEMMA FromBinaryReg ==
    ASSUME NEW r, IsReg(r), NEW w \in Nat \ {0}, NEW v \in [0 .. w - 1 -> Four]
    PROVE  IsReg(FromBinary(r, w, v)) /\ FromBinary(r, w, v).width = r.width
<1> DEFINE start(k) == IF (k + 1) * W > w THEN (w % W) - 1 ELSE W - 1
           char(i) == start(i \div W) - (i % W) + W * (i \div W)
           q == [i \in Positions(r.width) |->
                   IF i \in Positions(w) /\ i % W <= start(i \div W) THEN v[w - 1 - char(i)] ELSE "0"]
<1>1. \A i \in Positions(w) : i % W <= start(i \div W) => w - 1 - char(i) \in 0 .. w - 1
  BY BinaryChar
<1>2. "0" \in Four /\ DOMAIN r.vec = Positions(r.width)
  BY BitType DEF IsReg
<1>3. FromBinary(r, w, v) = Cleared([r EXCEPT !.vec = q])
  BY <1>2 DEF FromBinary, IsReg
<1> HIDE DEF start, char
<1>4. q \in [Positions(r.width) -> Four]
  BY <1>1, <1>2
<1> HIDE DEF q
<1> QED
  BY <1>3, <1>4, ClearedVec

\* A binary literal of at most a word gives a register its bits.
LEMMA BinaryRead ==
    ASSUME NEW r, IsReg(r), NEW w \in Nat \ {0}, w <= W, NEW v, v \in [0 .. w - 1 -> Four],
           NEW i \in 0 .. r.width - 1
    PROVE  FromBinary(r, w, v).vec[i] = IF i < w THEN v[i] ELSE "0"
<1> DEFINE start(k) == IF (k + 1) * W > w THEN (w % W) - 1 ELSE W - 1
           char(j) == start(j \div W) - (j % W) + W * (j \div W)
           q == [j \in Positions(r.width) |->
                   IF j \in Positions(w) /\ j % W <= start(j \div W) THEN v[w - 1 - char(j)] ELSE "0"]
<1>1. \A j \in Positions(w) : j % W <= start(j \div W) => w - 1 - char(j) \in 0 .. w - 1
  BY BinaryChar
<1>2. "0" \in Four /\ DOMAIN r.vec = Positions(r.width)
  BY BitType DEF IsReg
<1>3. FromBinary(r, w, v) = Cleared([r EXCEPT !.vec = q])
  BY <1>2 DEF FromBinary, IsReg
<1>4. i \in Positions(r.width) /\ i < r.width /\ i \in Nat
  BY PositionsOf DEF IsReg
<1>5. q[i] = IF i \in Positions(w) /\ i % W <= start(i \div W) THEN v[w - 1 - char(i)] ELSE "0"
  BY <1>4
<1>6. q \in [Positions(r.width) -> Four]
  <2> HIDE DEF start, char
  <2> QED
    BY <1>1, <1>2
<1>7. FromBinary(r, w, v).vec[i] = q[i]
  <2> HIDE DEF q
  <2> QED
    BY <1>3, <1>4, <1>6, ClearedVec
<1>8. W \in Nat \ {0} /\ Positions(w) = 0 .. W - 1
  BY OneWord, SimRegAssumption DEF Positions
<1>9. CASE i < W
  <2>1. i \div W = 0 /\ i % W = i
    <3>1. (0 * W + i) \div W = 0 /\ (0 * W + i) % W = i
      <4>1. i \in 0 .. W - 1 /\ 0 \in Nat
        BY <1>4, <1>8, <1>9
      <4> QED
        BY <1>8, <4>1, DivIs
    <3>2. 0 * W + i = i
      BY <1>4, <1>8
    <3> QED
      BY <3>1, <3>2
  <2>2. start(0) = w - 1
    <3>1. (0 + 1) * W = W
      BY <1>8
    <3>2. CASE w = W
      BY <1>8, <3>1, <3>2
    <3>3. CASE w < W
      <4>1. (0 * W + w) % W = w
        <5>1. w \in 0 .. W - 1 /\ 0 \in Nat
          BY <1>8, <3>3
        <5> QED
          BY <1>8, <5>1, DivIs
      <4>2. 0 * W + w = w
        BY <1>8
      <4> QED
        BY <1>8, <3>1, <3>3, <4>1, <4>2
    <3> QED
      BY <1>8, <3>2, <3>3
  <2>3. W * 0 = 0
    BY <1>8
  <2>4. char(i) = w - 1 - i
    BY <1>4, <1>8, <2>1, <2>2, <2>3
  <2>5. w - 1 - (w - 1 - i) = i /\ (i <= w - 1 <=> i < w) /\ i \in Positions(w)
    BY <1>4, <1>8, <1>9
  <2> HIDE DEF start, char, q
  <2> QED
    BY <1>5, <1>7, <2>1, <2>2, <2>4, <2>5
<1>10. CASE ~(i < W)
  <2>1. ~(i < w) /\ i \notin Positions(w)
    BY <1>4, <1>8, <1>10
  <2> HIDE DEF start, char, q
  <2> QED
    BY <1>5, <1>7, <2>1
<1> QED
  BY <1>9, <1>10

\* A shift by a digit is one of the vector as a whole by H bits.
LEMMA DigitLeftIs ==
    ASSUME NEW w \in Nat \ {0}, NEW vec \in [Positions(w) -> Four]
    PROVE  DigitLeft(vec, WidthWords(w)) = Up(vec, H)
<1> DEFINE words == WidthWords(w)
           g == [k \in 0 .. H |-> Up(vec, k)]
           p == CHOOSE h : h = [k \in 0 .. H |-> IF k = 0 THEN vec ELSE LeftPass(h[k - 1], words)]
<1>1. H \in Nat
  BY SimRegAssumption
<1>2. \A k \in Nat : Up(vec, k) \in [Positions(w) -> Four]
                     /\ LeftPass(Up(vec, k), words) = Up(vec, k + 1)
  BY ShiftedVectors, LeftPassBits
<1>3. Up(vec, 0) = vec
  BY ShiftedVectors
<1> HIDE DEF words
<1>4. g[0] = vec /\ \A k \in 1 .. H : g[k] = LeftPass(g[k - 1], words)
  <2>1. \A k \in 1 .. H : k - 1 \in Nat /\ (k - 1) + 1 = k /\ k - 1 \in 0 .. H /\ k \in 0 .. H
    BY <1>1
  <2>2. 0 \in 0 .. H
    BY <1>1
  <2> QED
    BY <1>2, <1>3, <2>1, <2>2
<1>5. g = [k \in 0 .. H |-> IF k = 0 THEN vec ELSE LeftPass(g[k - 1], words)]
  <2>1. \A k \in 0 .. H : k # 0 => k \in 1 .. H
    BY <1>1
  <2>2. g = [k \in 0 .. H |-> g[k]]
    OBVIOUS
  <2> HIDE DEF g
  <2> QED
    BY <1>4, <2>1, <2>2
<1>6. p = [k \in 0 .. H |-> IF k = 0 THEN vec ELSE LeftPass(p[k - 1], words)]
  <2> HIDE DEF g
  <2> QED
    BY <1>5, Zenon
<1>7. DigitLeft(vec, words) = p[H]
  BY Zenon DEF DigitLeft, words
<1>8. g[H] = Up(vec, H)
  BY <1>1
<1> HIDE DEF g, p
<1>9. p[0] = g[0] /\ \A k \in 1 .. H : p[k - 1] = g[k - 1] => p[k] = g[k]
  <2>1. p[0] = vec /\ \A k \in 1 .. H : p[k] = LeftPass(p[k - 1], words)
    BY <1>1, <1>6
  <2> QED
    BY <1>4, <2>1, Zenon
<1>10. \A k \in 0 .. H : p[k] = g[k]
  BY ONLY <1>1, <1>9, SameRecursion
<1> QED
  BY <1>1, <1>7, <1>8, <1>10 DEF words

\* A digit is a vector of H bits.
LEMMA DigitTypes ==
    ASSUME NEW g \in Digits
    PROVE  g \in [0 .. H - 1 -> Four]
  BY SimRegAssumption DEF Digits, Four

\* A vector stays one when a digit is put into its low bits.
LEMMA SetDigitType ==
    ASSUME NEW w \in Nat \ {0}, NEW vec \in [Positions(w) -> Four], NEW g \in [0 .. H - 1 -> Four]
    PROVE  SetDigit(vec, g) \in [Positions(w) -> Four]
<1>1. Positions(w) \subseteq Nat /\ H \in Nat
  BY PositionsOf, SimRegAssumption
<1>2. \A i \in Positions(w) : i < H => i \in 0 .. H - 1
  BY <1>1
<1>3. DOMAIN vec = Positions(w)
  OBVIOUS
<1> QED
  BY <1>2, <1>3, BitType DEF SetDigit

\* Vectors each of which follows from the last by a digit end in what
\* setVecvalFromHexString gives.
LEMMA FromDigitsIs ==
    ASSUME NEW vec, NEW words, NEW digits, NEW chars \in Nat, NEW g,
           g = [k \in 0 .. chars |->
                  IF k = 0 THEN vec
                  ELSE SetDigit(IF k = 1 THEN vec ELSE DigitLeft(g[k - 1], words), digits[k - 1])]
    PROVE  FromDigits(vec, words, digits, chars) = g[chars]
<1> DEFINE p == CHOOSE h : h = [k \in 0 .. chars |->
                    IF k = 0 THEN vec
                    ELSE SetDigit(IF k = 1 THEN vec ELSE DigitLeft(h[k - 1], words), digits[k - 1])]
<1>1. p = [k \in 0 .. chars |->
              IF k = 0 THEN vec
              ELSE SetDigit(IF k = 1 THEN vec ELSE DigitLeft(p[k - 1], words), digits[k - 1])]
  BY Zenon
<1>2. FromDigits(vec, words, digits, chars) = p[chars]
  BY Zenon DEF FromDigits
<1> HIDE DEF p
<1>3. p[0] = g[0] /\ \A k \in 1 .. chars : p[k - 1] = g[k - 1] => p[k] = g[k]
  <2>1. /\ p[0] = vec
        /\ \A k \in 1 .. chars :
              p[k] = SetDigit(IF k = 1 THEN vec ELSE DigitLeft(p[k - 1], words), digits[k - 1])
    BY <1>1
  <2>2. /\ g[0] = vec
        /\ \A k \in 1 .. chars :
              g[k] = SetDigit(IF k = 1 THEN vec ELSE DigitLeft(g[k - 1], words), digits[k - 1])
    OBVIOUS
  <2>3. ASSUME NEW k \in 1 .. chars, p[k - 1] = g[k - 1] PROVE p[k] = g[k]
    <3>1. DigitLeft(p[k - 1], words) = DigitLeft(g[k - 1], words)
      BY <2>3, Zenon
    <3> QED
      BY ONLY <2>1, <2>2, <3>1, k \in 1 .. chars, Zenon
  <2> QED
    BY <2>1, <2>2, <2>3, Zenon
<1>4. chars \in Nat
  OBVIOUS
<1>5. \A k \in 0 .. chars : p[k] = g[k]
  BY ONLY <1>3, <1>4, SameRecursion
<1> QED
  BY <1>2, <1>5

\* The first chars digits are digits; g[k] is the vector after k of them.
DigitsUpTo(digits, chars) == \A k \in 0 .. chars - 1 : digits[k] \in [0 .. H - 1 -> Four]

Fills(g, vec, digits, chars) ==
    /\ g[0] = vec
    /\ \A k \in 1 .. chars : g[k] = SetDigit(IF k = 1 THEN vec ELSE Up(g[k - 1], H), digits[k - 1])

\* setVecvalFromHexString gives the last of such vectors.
LEMMA FromDigitsSteps ==
    ASSUME NEW w, w \in Nat \ {0}, NEW vec, vec \in [Positions(w) -> Four], NEW chars, chars \in Nat,
           NEW digits, DigitsUpTo(digits, chars)
    PROVE  \E g \in [0 .. chars -> [Positions(w) -> Four]] :
              /\ Fills(g, vec, digits, chars)
              /\ FromDigits(vec, WidthWords(w), digits, chars) = g[chars]
<1> DEFINE S == [Positions(w) -> Four]
           words == WidthWords(w)
           Step(k, v) == SetDigit(IF k = 1 THEN vec ELSE DigitLeft(v, words), digits[k - 1])
           step == [k \in 1 .. chars |-> [v \in S |-> Step(k, v)]]
<1>2. \A k \in 1 .. chars, v \in S :
         /\ step[k][v] = SetDigit(IF k = 1 THEN vec ELSE DigitLeft(v, words), digits[k - 1])
         /\ DigitLeft(v, words) = Up(v, H)
         /\ Up(v, H) \in S
         /\ step[k][v] \in S
  <2> SUFFICES ASSUME NEW k \in 1 .. chars, NEW v \in S
               PROVE  /\ step[k][v] = SetDigit(IF k = 1 THEN vec ELSE DigitLeft(v, words), digits[k - 1])
                      /\ DigitLeft(v, words) = Up(v, H)
                      /\ Up(v, H) \in S
                      /\ step[k][v] \in S
    OBVIOUS
  <2>1. step[k][v] = SetDigit(IF k = 1 THEN vec ELSE DigitLeft(v, words), digits[k - 1])
    OBVIOUS
  <2>2. H \in Nat
    BY SimRegAssumption
  <2>3. DigitLeft(v, words) = Up(v, H) /\ Up(v, H) \in S
    BY <2>2, DigitLeftIs, ShiftedVectors
  <2>4. digits[k - 1] \in [0 .. H - 1 -> Four]
    <3>1. k - 1 \in 0 .. chars - 1
      OBVIOUS
    <3> QED
      BY <3>1 DEF DigitsUpTo
  <2> HIDE DEF step
  <2>5. step[k][v] \in S
    BY <2>1, <2>3, <2>4, SetDigitType
  <2> QED
    BY <2>1, <2>3, <2>5
<1> HIDE DEF step, words
<1>3. PICK g \in [0 .. chars -> S] : g[0] = vec /\ \A k \in 1 .. chars : g[k] = step[k][g[k - 1]]
  <2>1. vec \in S /\ chars \in Nat
    OBVIOUS
  <2>2. StepsIn(step, chars, S)
    BY <1>2 DEF StepsIn
  <2> HIDE DEF S
  <2>3. PICK g \in [0 .. chars -> S] : Recurs(g, vec, chars, step)
    BY ONLY <2>1, <2>2, Recursion
  <2> QED
    BY <2>3 DEF Recurs
<1>4. \A k \in 1 .. chars :
         /\ g[k] = SetDigit(IF k = 1 THEN vec ELSE DigitLeft(g[k - 1], words), digits[k - 1])
         /\ DigitLeft(g[k - 1], words) = Up(g[k - 1], H)
  <2>1. \A k \in 1 .. chars : k - 1 \in 0 .. chars
    OBVIOUS
  <2>2. \A k \in 1 .. chars : g[k - 1] \in S
    BY <1>3, <2>1
  <2> QED
    BY <1>2, <1>3, <2>2
<1>5. g = [k \in 0 .. chars |->
              IF k = 0 THEN vec
              ELSE SetDigit(IF k = 1 THEN vec ELSE DigitLeft(g[k - 1], words), digits[k - 1])]
  <2>1. \A k \in 0 .. chars : k # 0 => k \in 1 .. chars
    OBVIOUS
  <2>2. g = [k \in 0 .. chars |-> g[k]]
    OBVIOUS
  <2> QED
    BY <1>3, <1>4, <2>1, <2>2
<1>6. FromDigits(vec, words, digits, chars) = g[chars]
  BY <1>5, FromDigitsIs
<1>7. \A k \in 1 .. chars :
          g[k] = SetDigit(IF k = 1 THEN vec ELSE Up(g[k - 1], H), digits[k - 1])
  BY <1>4
<1> QED
  BY <1>3, <1>6, <1>7 DEF words, Fills

\* A literal has as many digits as are read of it.
LEMMA WholeDigits ==
    ASSUME NEW w \in Nat \ {0}
    PROVE  w \div H \in Nat /\ NumDigits(w) \in Nat /\ w \div H <= NumDigits(w)
<1> DEFINE n == w \div H
           z == w % H
           m == (w - 1) \div H
           y == (w - 1) % H
<1>1. H \in Nat \ {0} /\ w - 1 \in Nat
  BY SimRegAssumption
<1>2. n \in Nat /\ z \in 0 .. H - 1 /\ w = n * H + z /\ m \in Nat /\ y \in 0 .. H - 1 /\ w - 1 = m * H + y
  BY <1>1, DivMod
<1> HIDE DEF n, z, m, y
<1>3. n <= m + 1
  <2>1. ASSUME m + 2 <= n PROVE FALSE
    <3>1. (m + 2) * H <= n * H
      BY <1>1, <1>2, <2>1
    <3>2. (m + 2) * H = m * H + 2 * H /\ m * H \in Nat /\ n * H \in Nat
      BY <1>1, <1>2
    <3> QED
      BY <1>1, <1>2, <3>1, <3>2
  <2> QED
    BY <1>2, <2>1
<1>4. NumDigits(w) = m + 1
  BY DEF NumDigits, m
<1> QED
  BY <1>2, <1>3, <1>4 DEF n

\* A register that is given a hexadecimal literal is a register.
LEMMA FromHexReg ==
    ASSUME NEW r, IsReg(r), NEW w \in Nat \ {0},
           NEW digits, digits \in [0 .. NumDigits(w) - 1 -> [0 .. H - 1 -> Four]]
    PROVE  IsReg(FromHex(r, w, digits)) /\ FromHex(r, w, digits).width = r.width
<1> DEFINE start == [i \in Positions(r.width) |-> IF i \in Positions(w) THEN "0" ELSE r.vec[i]]
           vec == FromDigits(start, WidthWords(r.width), digits, w \div H)
           q == [i \in Positions(r.width) |-> IF i \in Positions(w) THEN vec[i] ELSE "0"]
<1>1. r.width \in Nat \ {0} /\ r.vec \in [Positions(r.width) -> Four] /\ "0" \in Four
  BY BitType DEF IsReg
<1>2. start \in [Positions(r.width) -> Four]
  BY <1>1
<1>3. FromHex(r, w, digits) = Cleared([r EXCEPT !.vec = q])
  BY <1>1 DEF FromHex, IsReg
<1> HIDE DEF start
<1>4. vec \in [Positions(r.width) -> Four]
  <2>1. w \div H \in Nat /\ NumDigits(w) \in Nat /\ w \div H <= NumDigits(w)
    BY WholeDigits
  <2>2. \A k \in 0 .. (w \div H) - 1 : k \in 0 .. NumDigits(w) - 1
    BY <2>1
  <2>3. \A k \in 0 .. (w \div H) - 1 : digits[k] \in [0 .. H - 1 -> Four]
    BY <2>2
  <2> DEFINE chars == w \div H
  <2>4. chars \in Nat
    BY <2>1
  <2> HIDE DEF chars
  <2>5. PICK g \in [0 .. chars -> [Positions(r.width) -> Four]] :
           /\ Fills(g, start, digits, chars)
           /\ FromDigits(start, WidthWords(r.width), digits, chars) = g[chars]
    <3>1. DigitsUpTo(digits, chars)
      BY <2>3 DEF chars, DigitsUpTo
    <3>2. r.width \in Nat \ {0}
      BY <1>1
    <3> QED
      BY <1>2, <2>4, <3>1, <3>2, FromDigitsSteps, Zenon
  <2>6. chars \in 0 .. chars
    BY <2>4
  <2> QED
    BY <2>5, <2>6 DEF chars
<1> HIDE DEF vec
<1>5. q \in [Positions(r.width) -> Four]
  BY <1>1, <1>4
<1> HIDE DEF q
<1> QED
  BY <1>3, <1>5, ClearedVec

\* A register of whole digits has as many as hexString writes.
LEMMA WholeWidth ==
    ASSUME NEW w \in Nat \ {0}, w % H = 0
    PROVE  /\ H \in Nat \ {0} /\ w \div H \in Nat \ {0} /\ w = (w \div H) * H
           /\ NumDigits(w) = w \div H /\ H <= w
<1> DEFINE n == w \div H
<1>1. H \in Nat \ {0}
  BY SimRegAssumption
<1>2. n \in Nat /\ w = n * H + 0
  BY <1>1, DivMod
<1> HIDE DEF n
<1>3. n # 0 /\ n * H \in Nat /\ w = n * H
  <2>1. n * H \in Nat /\ (n = 0 => n * H = 0)
    BY <1>1, <1>2
  <2> QED
    BY <1>2, <2>1
<1>4. n - 1 \in Nat /\ n * H = (n - 1) * H + H /\ (n - 1) * H \in Nat
  BY <1>1, <1>2, <1>3
<1>5. w - 1 = (n - 1) * H + (H - 1) /\ H <= w
  BY <1>1, <1>3, <1>4
<1>6. ((n - 1) * H + (H - 1)) \div H = n - 1
  <2>1. H - 1 \in 0 .. H - 1
    BY <1>1
  <2> QED
    BY <1>1, <1>4, <2>1, DivIs
<1>7. NumDigits(w) = n
  BY <1>2, <1>5, <1>6 DEF NumDigits
<1> QED
  BY <1>1, <1>2, <1>3, <1>5, <1>7 DEF n

\* The digit that operator<< prints for the bits from l up.
LEMMA PrintedBits ==
    ASSUME NEW r, IsReg(r), H <= r.width, NEW l \in Nat, l + H <= r.width
    PROVE  PrintedDigit(r, l) =
              [i \in 0 .. H - 1 |->
                 IF \A j \in 0 .. H - 1 : ~Bval(r.vec[j + l]) THEN r.vec[i + l]
                 ELSE IF \A j \in 0 .. H - 1 : r.vec[j + l] = "z" THEN "z" ELSE "x"]
<1> DEFINE o == FromInt(H, Zero)
           a == Assigned(r, r)
           q == RightShifted(a, l)
           nib == Assigned(o, q).vec
<1>1. r.width \in Nat \ {0} /\ 0 .. r.width - 1 \subseteq Positions(r.width) /\ H \in Nat \ {0}
  BY PositionsOf, SimRegAssumption DEF IsReg
<1>2. IsReg(o) /\ o.width = H
  BY <1>1, OneIs, OnesReg
<1>3. /\ IsReg(a) /\ a.width = r.width
      /\ \A j \in 0 .. r.width - 1 : a.vec[j] = IF j \in Positions(r.width) THEN r.vec[j] ELSE "0"
  BY AssignedBits
<1> HIDE DEF o, a
<1>4. /\ IsReg(q) /\ q.width = a.width
      /\ \A j \in 0 .. a.width - 1 : q.vec[j] = IF j + l \in Positions(a.width) THEN a.vec[j + l] ELSE "0"
  BY <1>3, RightShiftedBits
<1> HIDE DEF q
<1>5. \A j \in 0 .. o.width - 1 : Assigned(o, q).vec[j] = IF j \in Positions(q.width) THEN q.vec[j] ELSE "0"
  BY <1>2, <1>4, AssignedBits
<1>6. \A j \in 0 .. H - 1 : nib[j] = r.vec[j + l]
  <2> SUFFICES ASSUME NEW j \in 0 .. H - 1 PROVE nib[j] = r.vec[j + l]
    OBVIOUS
  <2>1. j \in 0 .. o.width - 1 /\ j \in 0 .. r.width - 1 /\ j + l \in 0 .. r.width - 1
    BY <1>1, <1>2
  <2> QED
    BY <1>1, <1>3, <1>4, <1>5, <2>1
<1>7. PrintedDigit(r, l) =
         [i \in 0 .. H - 1 |->
            IF \A j \in 0 .. H - 1 : ~Bval(nib[j]) THEN nib[i]
            ELSE IF \A j \in 0 .. H - 1 : nib[j] = "z" THEN "z" ELSE "x"]
  BY DEF PrintedDigit, q, a, o
<1> HIDE DEF nib
<1> QED
  BY <1>6, <1>7

\* A digit that is no z leaves the bits above it as they are.
LEMMA SetDigitBits ==
    ASSUME NEW vec, NEW g, g[0] # "z"
    PROVE  SetDigit(vec, g) = [i \in DOMAIN vec |-> IF i < H THEN g[i] ELSE vec[i]]
  BY DEF SetDigit

\* The bits of start after k digits.
DigitBits(D, start, digits, k) ==
    [i \in D |-> IF i < k * H THEN digits[k - 1 - (i \div H)][i % H] ELSE start[i - (k - 1) * H]]

\* After n digits each bit is that of its digit, or one of the first vector, shifted
\* by all the digits but the first.
LEMMA FillsBits ==
    ASSUME NEW w \in Nat \ {0}, NEW start, start \in [Positions(w) -> Four],
           NEW chars \in Nat, NEW digits, NEW g, g \in [0 .. chars -> [Positions(w) -> Four]],
           Fills(g, start, digits, chars), \A k \in 0 .. chars - 1 : digits[k][0] # "z",
           NEW n \in 1 .. chars
    PROVE  g[n] = DigitBits(Positions(w), start, digits, n)
<1> DEFINE D == Positions(w)
           G == {k \in Nat : k \in 1 .. chars => g[k] = DigitBits(D, start, digits, k)}
<1>1. D \subseteq Nat /\ H \in Nat \ {0} /\ DOMAIN start = D
  BY PositionsOf, SimRegAssumption
<1>2. /\ g[0] = start
      /\ \A k \in 1 .. chars : g[k] = SetDigit(IF k = 1 THEN start ELSE Up(g[k - 1], H), digits[k - 1])
  BY DEF Fills
<1>3. \A k \in 0 .. chars : g[k] \in [D -> Four]
  OBVIOUS
<1> HIDE DEF D
<1>4. \A i \in D : i < H => i \div H = 0 /\ i % H = i
  <2> SUFFICES ASSUME NEW i \in D, i < H PROVE i \div H = 0 /\ i % H = i
    OBVIOUS
  <2>1. i \in 0 .. H - 1 /\ 0 \in Nat /\ 0 * H + i = i
    BY <1>1
  <2>2. (0 * H + i) \div H = 0 /\ (0 * H + i) % H = i
    BY <1>1, <2>1, DivIs
  <2> QED
    BY <2>1, <2>2
<1>5. \A i \in D : ~(i < H) => (i - H) \div H = (i \div H) - 1 /\ (i - H) % H = i % H /\ i - H \in Nat
  <2> SUFFICES ASSUME NEW i \in D, ~(i < H)
               PROVE  (i - H) \div H = (i \div H) - 1 /\ (i - H) % H = i % H /\ i - H \in Nat
    OBVIOUS
  <2>1. i \in Nat /\ i - H \in Nat
    BY <1>1
  <2> DEFINE a == (i - H) \div H
             b == (i - H) % H
  <2>2. a \in Nat /\ b \in 0 .. H - 1 /\ i - H = a * H + b
    BY <1>1, <2>1, DivMod
  <2> HIDE DEF a, b
  <2>3. i = (a + 1) * H + b /\ a + 1 \in Nat
    <3>1. (a + 1) * H = a * H + H /\ a * H \in Nat
      BY <1>1, <2>2
    <3> QED
      BY <1>1, <2>1, <2>2, <3>1
  <2>4. ((a + 1) * H + b) \div H = a + 1 /\ ((a + 1) * H + b) % H = b
    BY <1>1, <2>2, <2>3, DivIs
  <2>5. a = (i \div H) - 1 /\ b = i % H
    BY <2>2, <2>3, <2>4
  <2> QED
    BY <2>1, <2>5 DEF a, b
<1>6. 0 \in G
  OBVIOUS
<1>7. ASSUME NEW k \in Nat, k \in G PROVE k + 1 \in G
  <2> SUFFICES ASSUME k + 1 \in 1 .. chars
               PROVE  g[k + 1] = DigitBits(D, start, digits, k + 1)
    OBVIOUS
  <2>1. k \in 0 .. chars - 1 /\ (k + 1) - 1 = k
    OBVIOUS
  <2>2. digits[k][0] # "z"
    BY <2>1
  <2>3. g[k + 1] = SetDigit(IF k + 1 = 1 THEN start ELSE Up(g[k], H), digits[k])
    BY <1>2, <2>1
  <2>4. CASE k = 0
    <3>1. g[k + 1] = [i \in D |-> IF i < H THEN digits[0][i] ELSE start[i]]
      <4>1. g[k + 1] = SetDigit(start, digits[0]) /\ digits[0][0] # "z"
        BY <2>2, <2>3, <2>4
      <4>2. SetDigit(start, digits[0]) = [i \in DOMAIN start |-> IF i < H THEN digits[0][i] ELSE start[i]]
        BY <4>1, SetDigitBits
      <4> QED
        BY <1>1, <4>1, <4>2
    <3>2. (0 + 1) * H = H /\ ((0 + 1) - 1) * H = 0
      BY <1>1
    <3>3. DigitBits(D, start, digits, 0 + 1)
            = [i \in D |-> IF i < H THEN digits[(0 + 1) - 1 - (i \div H)][i % H] ELSE start[i - 0]]
      BY <3>2 DEF DigitBits
    <3>4. \A i \in D : i - 0 = i /\ (i < H => digits[(0 + 1) - 1 - (i \div H)][i % H] = digits[0][i])
      <4> SUFFICES ASSUME NEW i \in D
                   PROVE  i - 0 = i /\ (i < H => digits[(0 + 1) - 1 - (i \div H)][i % H] = digits[0][i])
        OBVIOUS
      <4>1. i - 0 = i
        BY <1>1
      <4>2. i < H => i \div H = 0 /\ i % H = i
        BY <1>4
      <4>3. (0 + 1) - 1 - 0 = 0
        OBVIOUS
      <4> QED
        BY <4>1, <4>2, <4>3
    <3> QED
      BY <2>4, <3>1, <3>3, <3>4
  <2>5. CASE k # 0
    <3>1. k \in 1 .. chars /\ k \in 0 .. chars
      BY <2>1, <2>5
    <3>2. g[k] = DigitBits(D, start, digits, k)
      BY <1>7, <3>1
    <3>3. g[k] \in [D -> Four]
      BY <1>3, <3>1
    <3>4. Up(g[k], H) = [i \in D |-> IF i < H THEN "0" ELSE g[k][i - H]]
      BY <3>3 DEF Up
    <3>5. g[k + 1] = [i \in D |-> IF i < H THEN digits[k][i] ELSE Up(g[k], H)[i]]
      BY <2>2, <2>3, <2>5, <3>4, SetDigitBits
    <3>6. ASSUME NEW i \in D
          PROVE  (IF i < H THEN digits[k][i] ELSE Up(g[k], H)[i])
                 = (IF i < (k + 1) * H THEN digits[(k + 1) - 1 - (i \div H)][i % H]
                    ELSE start[i - ((k + 1) - 1) * H])
      <4>1. (k + 1) * H = k * H + H /\ k * H = (k - 1) * H + H /\ k * H \in Nat
            /\ ((k + 1) - 1) * H = k * H /\ (k - 1) * H \in Nat
        BY <1>1, <3>1
      <4>2. i \in Nat
        BY <1>1
      <4>3. CASE i < H
        <5>1. i < (k + 1) * H /\ (k + 1) - 1 - 0 = k
          BY <1>1, <4>1, <4>2, <4>3
        <5> QED
          BY <1>4, <4>3, <5>1
      <4>4. CASE ~(i < H)
        <5>1. i - H \in Nat /\ i - H <= i
          BY <1>1, <4>2, <4>4
        <5>2. i - H \in D
          BY <5>1, PositionsOf DEF D
        <5>3. Up(g[k], H)[i] = DigitBits(D, start, digits, k)[i - H]
          BY <3>2, <3>4, <4>4
        <5>4. DigitBits(D, start, digits, k)[i - H]
                = IF i - H < k * H THEN digits[k - 1 - ((i - H) \div H)][(i - H) % H]
                  ELSE start[(i - H) - (k - 1) * H]
          BY <5>2 DEF DigitBits
        <5>5. (i - H < k * H <=> i < (k + 1) * H) /\ (i - H) - (k - 1) * H = i - ((k + 1) - 1) * H
          BY <1>1, <4>1, <4>2
        <5>6. /\ (i - H) \div H = (i \div H) - 1 /\ (i - H) % H = i % H /\ i \div H \in Nat
              /\ k - 1 - ((i \div H) - 1) = (k + 1) - 1 - (i \div H)
          <6>1. i \div H \in Nat
            BY <1>1, <4>2, DivMod
          <6> QED
            BY <1>5, <4>4, <6>1
        <5> QED
          BY <4>4, <5>3, <5>4, <5>5, <5>6
      <4> QED
        BY <4>3, <4>4
    <3>7. DigitBits(D, start, digits, k + 1)
            = [i \in D |-> IF i < (k + 1) * H THEN digits[(k + 1) - 1 - (i \div H)][i % H]
                           ELSE start[i - ((k + 1) - 1) * H]]
      BY DEF DigitBits
    <3> QED
      BY <3>5, <3>6, <3>7
  <2> QED
    BY <2>4, <2>5
<1> HIDE DEF G
<1>8. Nat \subseteq G
  BY <1>6, <1>7, Induction
<1> QED
  BY <1>8 DEF G, D

\* So are the bits that setVecvalFromHexString gives.
LEMMA FromDigitsBits ==
    ASSUME NEW m, m \in Nat \ {0}, NEW start, start \in [Positions(m) -> Four],
           NEW n, n \in Nat, NEW digits, DigitsUpTo(digits, n)
    PROVE  n # 0 /\ (\A k \in 0 .. n - 1 : digits[k][0] # "z") =>
              /\ FromDigits(start, WidthWords(m), digits, n) \in [Positions(m) -> Four]
              /\ FromDigits(start, WidthWords(m), digits, n) = DigitBits(Positions(m), start, digits, n)
<1>1. \E g \in [0 .. n -> [Positions(m) -> Four]] :
         /\ Fills(g, start, digits, n)
         /\ FromDigits(start, WidthWords(m), digits, n) = g[n]
  BY FromDigitsSteps, Zenon
<1>2. PICK g \in [0 .. n -> [Positions(m) -> Four]] :
         /\ Fills(g, start, digits, n)
         /\ FromDigits(start, WidthWords(m), digits, n) = g[n]
  BY <1>1
<1>3. HAVE n # 0 /\ \A k \in 0 .. n - 1 : digits[k][0] # "z"
<1>4. n \in 0 .. n /\ n \in 1 .. n
  BY <1>3
<1>5. g[n] = DigitBits(Positions(m), start, digits, n)
  BY <1>2, <1>3, <1>4, FillsBits
<1> QED
  BY <1>2, <1>4, <1>5

\* Each digit that hexString writes for a register of whole digits without a z has
\* the register's bits, except that all of it is unknown if one of them is.
LEMMA HexDigits ==
    ASSUME NEW q, IsReg(q), q.width % H = 0, \A i \in 0 .. q.width - 1 : q.vec[i] # "z",
           NEW k \in 0 .. (q.width \div H) - 1
    PROVE  LET l == ((q.width \div H) - 1 - k) * H
               digit == hexString(q)[k]
           IN  /\ digit \in [0 .. H - 1 -> Four] /\ digit[0] # "z"
               /\ \A i \in 0 .. H - 1 :
                     /\ ~Bval(digit[i]) \/ H = 1 \/ AllKnown(q) => digit[i] = q.vec[i + l]
                     /\ i + l \in 0 .. q.width - 1
<1> DEFINE n == q.width \div H
           w == q.width
           l == (n - 1 - k) * H
           digit == hexString(q)[k]
<1>1. w \in Nat \ {0} /\ 0 .. w - 1 \subseteq Positions(w)
  BY PositionsOf DEF IsReg
<1>2. H \in Nat \ {0} /\ n \in Nat \ {0} /\ w = n * H /\ NumDigits(w) = n /\ H <= w
  BY <1>1, WholeWidth
<1>3. digit = PrintedDigit(q, l)
  <2>1. k \in 0 .. NumDigits(w) - 1
    BY <1>2
  <2> QED
    BY <1>2, <2>1 DEF hexString
<1>4. l \in Nat /\ l + H <= w
  <2> DEFINE m == n - 1 - k
  <2>1. m \in Nat /\ m + 1 <= n
    BY <1>2
  <2> HIDE DEF m, n
  <2>2. (m + 1) * H <= n * H
    BY <1>2, <2>1
  <2>3. (m + 1) * H = m * H + H /\ m * H \in Nat
    BY <1>2, <2>1
  <2> QED
    BY <1>2, <2>2, <2>3 DEF m
<1> HIDE DEF n, l, digit
<1>5. digit = [i \in 0 .. H - 1 |->
                 IF \A j \in 0 .. H - 1 : ~Bval(q.vec[j + l]) THEN q.vec[i + l]
                 ELSE IF \A j \in 0 .. H - 1 : q.vec[j + l] = "z" THEN "z" ELSE "x"]
  <2>1. IsReg(q) /\ H <= q.width /\ l \in Nat /\ l + H <= q.width
    BY <1>2, <1>4
  <2> QED
    BY ONLY <1>3, <2>1, PrintedBits
<1>6. \A i \in 0 .. H - 1 : i + l \in 0 .. w - 1
  BY <1>1, <1>2, <1>4
<1>7. \A i \in 0 .. H - 1 : q.vec[i + l] \in Four /\ q.vec[i + l] # "z"
  BY <1>6, VisibleBit
<1>8. 0 \in 0 .. H - 1
  BY <1>2
<1>9. digit \in [0 .. H - 1 -> Four] /\ digit[0] # "z"
  BY <1>5, <1>7, <1>8 DEF Four
<1>10. ASSUME NEW i \in 0 .. H - 1, ~Bval(digit[i]) \/ H = 1 \/ AllKnown(q)
       PROVE  digit[i] = q.vec[i + l]
  <2>1. CASE \A j \in 0 .. H - 1 : ~Bval(q.vec[j + l])
    BY <1>5, <2>1
  <2>2. CASE ~\A j \in 0 .. H - 1 : ~Bval(q.vec[j + l])
    <3>1. digit[i] = "x"
      BY <1>5, <1>7, <1>8, <2>2
    <3>2. ~AllKnown(q)
      BY <1>1, <1>6, <2>2, AllKnownOf
    <3>3. H = 1
      BY <1>10, <3>1, <3>2 DEF Bval
    <3>4. 0 .. H - 1 = {0} /\ i = 0
      BY <3>3
    <3>5. Bval(q.vec[i + l])
      BY <2>2, <3>4
    <3> QED
      BY <1>7, <3>1, <3>5 DEF Four, Bval
  <2> QED
    BY <2>1, <2>2
<1> QED
  BY <1>6, <1>9, <1>10 DEF n, l, digit

\* Reading what hexString wrote gives the bits it was written for.
LEMMA HexRead ==
    ASSUME NEW r, IsReg(r), NEW q, IsReg(q), NEW w, w = q.width, w % H = 0,
           \A i \in 0 .. w - 1 : q.vec[i] # "z", NEW i \in 0 .. r.width - 1,
           ~Bval(FromHex(r, w, hexString(q)).vec[i]) \/ H = 1 \/ AllKnown(q)
    PROVE  FromHex(r, w, hexString(q)).vec[i] = IF i < w THEN q.vec[i] ELSE "0"
<1> DEFINE n == w \div H
           D == Positions(r.width)
           digits == hexString(q)
           start == [j \in D |-> IF j \in Positions(w) THEN "0" ELSE r.vec[j]]
           vec == FromDigits(start, WidthWords(r.width), digits, n)
           c == [j \in D |-> IF j \in Positions(w) THEN vec[j] ELSE "0"]
<1>1. /\ r.width \in Nat \ {0} /\ r.vec \in [D -> Four] /\ "0" \in Four
      /\ w \in Nat \ {0} /\ 0 .. w - 1 \subseteq Positions(w) /\ i \in D /\ i < r.width /\ i \in Nat
      /\ D \subseteq Nat /\ Positions(w) \subseteq Nat
  BY BitType, PositionsOf DEF IsReg
<1>2. H \in Nat \ {0} /\ n \in Nat \ {0} /\ w = n * H
  BY <1>1, WholeWidth
<1>3. start \in [D -> Four] /\ \A j \in D : j \in Positions(w) => start[j] = "0"
  BY <1>1
<1>4. FromHex(r, w, digits) = Cleared([r EXCEPT !.vec = c])
  BY <1>1 DEF FromHex, IsReg
<1> HIDE DEF start, digits
<1>5. ASSUME NEW k \in 0 .. n - 1
      PROVE  /\ digits[k] \in [0 .. H - 1 -> Four] /\ digits[k][0] # "z"
             /\ \A j \in 0 .. H - 1 :
                   /\ ~Bval(digits[k][j]) \/ H = 1 \/ AllKnown(q) => digits[k][j] = q.vec[j + (n - 1 - k) * H]
                   /\ j + (n - 1 - k) * H \in 0 .. w - 1
  BY HexDigits DEF digits
<1>6. DigitsUpTo(digits, n)
  BY <1>5 DEF DigitsUpTo
<1> HIDE DEF n
<1>8. vec \in [D -> Four] /\ vec = DigitBits(D, start, digits, n)
  <2>1. r.width \in Nat \ {0} /\ start \in [Positions(r.width) -> Four] /\ n \in Nat \ {0}
    BY <1>1, <1>2, <1>3
  <2>2. \A k \in 0 .. n - 1 : digits[k][0] # "z"
    BY <1>5
  <2> QED
    BY <1>6, <2>1, <2>2, FromDigitsBits
<1> HIDE DEF vec
<1>9. c \in [D -> Four] /\ c[i] = IF i \in Positions(w) THEN vec[i] ELSE "0"
  BY <1>1, <1>8
<1>10. FromHex(r, w, digits).vec[i] = c[i]
  <2> HIDE DEF c
  <2> QED
    BY <1>1, <1>4, <1>9, ClearedVec
<1> HIDE DEF c, D
<1>11. vec[i] = IF i < n * H THEN digits[n - 1 - (i \div H)][i % H] ELSE start[i - (n - 1) * H]
  BY <1>1, <1>8 DEF DigitBits
<1>12. CASE i < w
  <2> DEFINE a == i \div H
             b == i % H
             k == n - 1 - a
  <2>1. a \in Nat /\ b \in 0 .. H - 1 /\ i = a * H + b
    BY <1>1, <1>2, DivMod
  <2> HIDE DEF a, b
  <2>2. a < n
    <3>1. n \in Nat /\ H \in Nat /\ b \in Nat /\ a * H + b < n * H
      BY <1>2, <1>12, <2>1
    <3> QED
      BY ONLY <2>1, <3>1, BelowProduct
  <2>3. k \in 0 .. n - 1 /\ n - 1 - k = a
    BY <1>2, <2>1, <2>2
  <2>4. i \in 0 .. w - 1
    BY <1>1, <1>12
  <2>5. c[i] = digits[k][b]
    BY <1>1, <1>2, <1>9, <1>11, <1>12, <2>4 DEF a, b
  <2> HIDE DEF k
  <2>6. b + (n - 1 - k) * H = i
    <3>1. a * H \in Nat /\ a * H + b = b + a * H
      BY <1>2, <2>1
    <3> QED
      BY <2>1, <2>3, <3>1
  <2>7. ~Bval(digits[k][b]) \/ H = 1 \/ AllKnown(q)
    BY <1>10, <2>5 DEF digits
  <2>8. digits[k][b] = q.vec[b + (n - 1 - k) * H]
    BY <1>5, <2>1, <2>3, <2>7
  <2> QED
    BY <1>10, <1>12, <2>5, <2>6, <2>8 DEF digits
<1>13. CASE ~(i < w)
  <2>1. CASE i \in Positions(w)
    <3>1. (n - 1) * H \in Nat /\ n * H = (n - 1) * H + H
      <4>1. n - 1 \in Nat
        BY <1>2
      <4> QED
        BY <1>2, <4>1
    <3>2. i - (n - 1) * H \in Nat /\ i - (n - 1) * H <= i
      BY <1>1, <1>2, <1>13, <3>1
    <3> DEFINE j == i - (n - 1) * H
    <3>3. j \in Positions(w) /\ j \in D
      BY <1>1, <2>1, <3>2, PositionsOf DEF D
    <3>4. start[j] = "0"
      BY <1>3, <3>3
    <3> QED
      BY <1>2, <1>9, <1>10, <1>11, <1>13, <2>1, <3>4 DEF digits
  <2>2. CASE i \notin Positions(w)
    BY <1>9, <1>10, <1>13, <2>2 DEF digits
  <2> QED
    BY <2>1, <2>2
<1> QED
  BY <1>12, <1>13

\* The literal that hexString writes for a register of whole digits gives any register
\* its value back, truncated or padded, and so does a binary literal of a word.
LEMMA LiteralHolds == TypeOK => ReadsBack
<1> SUFFICES ASSUME TypeOK, NEW d \in Names, NEW s \in Names
             PROVE  LET w == reg[s].width
                        bits == [i \in 0 .. w - 1 |-> Value(s)[i]]
                        IsRead(r, exact) ==
                            Agrees(r, [i \in DOMAIN Value(d) |-> IF i < w THEN bits[i] ELSE "0"], exact)
                    IN  /\ w % H = 0 /\ (\A i \in DOMAIN bits : bits[i] # "z") =>
                              IsRead(FromHex(Synced(d), w, hexString(Synced(s))), H = 1 \/ AllKnown(Synced(s)))
                        /\ w <= W => IsRead(FromBinary(Synced(d), w, bits), TRUE)
  BY DEF ReadsBack
<1> DEFINE w == reg[s].width
           bits == [i \in 0 .. w - 1 |-> Value(s)[i]]
           r == Synced(d)
           q == Synced(s)
<1>1. /\ DOMAIN Value(d) = 0 .. reg[d].width - 1
      /\ w \in Nat \ {0} /\ \A i \in 0 .. w - 1 : Value(s)[i] = q.vec[i]
  BY ValueBits
<1>2. IsReg(r) /\ r.width = reg[d].width /\ IsReg(q) /\ q.width = w
  BY RegIs
<1>3. DOMAIN bits = 0 .. w - 1 /\ \A i \in 0 .. w - 1 : bits[i] = q.vec[i]
  BY <1>1
<1>4. bits \in [0 .. w - 1 -> Four]
  BY <1>1, <1>2, <1>3, VisibleBit
<1> HIDE DEF r, q, w, bits
<1>5. \A i \in 0 .. r.width - 1 : i < w => i \in 0 .. w - 1
  BY <1>1, <1>2 DEF IsReg
<1>6. ASSUME w % H = 0, \A i \in DOMAIN bits : bits[i] # "z", NEW i \in 0 .. r.width - 1,
             ~Bval(FromHex(r, w, hexString(q)).vec[i]) \/ H = 1 \/ AllKnown(q)
      PROVE  FromHex(r, w, hexString(q)).vec[i] = IF i < w THEN bits[i] ELSE "0"
  <2>1. \A j \in 0 .. w - 1 : q.vec[j] # "z"
    BY <1>3, <1>6
  <2>2. FromHex(r, w, hexString(q)).vec[i] = IF i < w THEN q.vec[i] ELSE "0"
    BY <1>2, <1>6, <2>1, HexRead
  <2> QED
    BY <1>3, <1>5, <2>2
<1>7. ASSUME w <= W, NEW i \in 0 .. r.width - 1
      PROVE  FromBinary(r, w, bits).vec[i] = IF i < w THEN bits[i] ELSE "0"
  BY <1>1, <1>2, <1>4, <1>7, BinaryRead
<1> QED
  BY <1>1, <1>2, <1>6, <1>7 DEF Agrees, r, q, w, bits

-----------------------------------------------------------------------------
(* Sums *)

\* There is a function of the powers of two.
LEMMA PowExists == \E p : p = [n \in Nat |-> IF n = 0 THEN 1 ELSE 2 * p[n - 1]]
<1> DEFINE step == [k \in Nat |-> [v \in Nat |-> 2 * v]]
           Powers(g, m) == g \in [0 .. m -> Nat] /\ Recurs(g, 1, m, step)
           upTo == [m \in Nat |-> CHOOSE g : Powers(g, m)]
           p == [m \in Nat |-> upTo[m][m]]
<1>1. ASSUME NEW m \in Nat
      PROVE  /\ upTo[m] \in [0 .. m -> Nat] /\ upTo[m][0] = 1
             /\ \A k \in 1 .. m : upTo[m][k] = 2 * upTo[m][k - 1]
  <2>1. StepsIn(step, m, Nat) /\ 1 \in Nat
    BY DEF StepsIn
  <2>2. \E g : Powers(g, m)
    <3> HIDE DEF step
    <3> QED
      BY ONLY <2>1, m \in Nat, Recursion DEF Powers
  <2>3. Powers(upTo[m], m)
    <3> HIDE DEF Powers
    <3> QED
      BY <2>2
  <2> HIDE DEF upTo
  <2>4. \A k \in 1 .. m : upTo[m][k - 1] \in Nat /\ k \in Nat
    BY <2>3
  <2> QED
    BY <2>3, <2>4 DEF Recurs
<1> HIDE DEF upTo
<1>2. p[0] = 1
  BY <1>1
<1>3. ASSUME NEW m \in Nat, m # 0 PROVE p[m] = 2 * p[m - 1]
  <2> DEFINE n == m - 1
  <2>1. n \in Nat /\ \A k \in 1 .. n : k \in 1 .. m
    BY <1>3
  <2>2. \A k \in 0 .. n : upTo[m][k] = upTo[n][k]
    <3>1. upTo[m][0] = upTo[n][0]
      BY <1>1, <2>1
    <3>2. \A k \in 1 .. n : upTo[m][k - 1] = upTo[n][k - 1] => upTo[m][k] = upTo[n][k]
      BY <1>1, <2>1
    <3> DEFINE f == upTo[m]
               g == upTo[n]
    <3>3. f[0] = g[0] /\ \A k \in 1 .. n : f[k - 1] = g[k - 1] => f[k] = g[k]
      BY <3>1, <3>2
    <3> HIDE DEF f, g, n
    <3>4. \A k \in 0 .. n : f[k] = g[k]
      BY <2>1, <3>3, SameRecursion
    <3> QED
      BY <3>4 DEF f, g
  <2>3. upTo[m][m] = 2 * upTo[m][n]
    BY <1>1, <1>3
  <2> QED
    BY <2>1, <2>2, <2>3
<1> HIDE DEF p
<1>4. p = [n \in Nat |-> IF n = 0 THEN 1 ELSE 2 * p[n - 1]]
  <2>1. \A n \in Nat : p[n] = IF n = 0 THEN 1 ELSE 2 * p[n - 1]
    BY <1>2, <1>3
  <2>2. p = [n \in Nat |-> p[n]]
    BY DEF p
  <2> QED
    BY <2>1, <2>2
<1> QED
  BY <1>4

\* The powers of two, each twice the last.
LEMMA PowIs ==
    /\ Pow[0] = 1
    /\ \A n \in Nat : Pow[n] \in Nat \ {0} /\ Pow[n + 1] = 2 * Pow[n]
<1>1. Pow = [n \in Nat |-> IF n = 0 THEN 1 ELSE 2 * Pow[n - 1]]
  BY PowExists, Zenon DEF Pow
<1>2. Pow[0] = 1
  BY <1>1
<1>3. \A n \in Nat : Pow[n + 1] = 2 * Pow[n]
  <2> SUFFICES ASSUME NEW n \in Nat PROVE Pow[n + 1] = 2 * Pow[n]
    OBVIOUS
  <2>1. n + 1 \in Nat /\ n + 1 # 0 /\ (n + 1) - 1 = n
    OBVIOUS
  <2> QED
    BY <1>1, <2>1
<1> DEFINE G == {n \in Nat : Pow[n] \in Nat \ {0}}
<1>4. 0 \in G
  BY <1>2
<1>5. ASSUME NEW n \in Nat, n \in G PROVE n + 1 \in G
  BY <1>3, <1>5
<1> HIDE DEF G
<1>6. Nat \subseteq G
  BY <1>4, <1>5, Induction
<1> QED
  BY <1>2, <1>3, <1>6 DEF G

\* The product of two powers of two is one.
LEMMA PowSum == ASSUME NEW a \in Nat, NEW b \in Nat PROVE Pow[a + b] = Pow[a] * Pow[b]
<1> DEFINE G == {n \in Nat : Pow[a + n] = Pow[a] * Pow[n]}
<1>1. 0 \in G
  <2>1. a + 0 = a /\ Pow[a] \in Nat
    BY PowIs
  <2> QED
    BY <2>1, PowIs
<1>2. ASSUME NEW n \in Nat, n \in G PROVE n + 1 \in G
  <2>1. a + n \in Nat /\ a + (n + 1) = (a + n) + 1
    OBVIOUS
  <2> DEFINE x == Pow[a]
             y == Pow[n]
  <2>2. /\ x \in Nat /\ y \in Nat /\ Pow[a + n] = x * y
        /\ Pow[n + 1] = 2 * y /\ Pow[a + (n + 1)] = 2 * Pow[a + n]
    BY <1>2, <2>1, PowIs
  <2> HIDE DEF x, y
  <2>3. 2 * (x * y) = x * (2 * y)
    BY <2>2
  <2> QED
    BY <2>2, <2>3 DEF x
<1> HIDE DEF G
<1>3. Nat \subseteq G
  BY <1>1, <1>2, Induction
<1> QED
  BY <1>3 DEF G

\* s[i] is the number in the low i bits of vec.
Sums(s, vec, n) ==
    /\ s[0] = 0
    /\ \A i \in 1 .. n : s[i] = s[i - 1] + (IF vec[i - 1] = "1" THEN Pow[i - 1] ELSE 0)

\* There are such sums.
LEMMA SumsExist == ASSUME NEW vec, NEW n \in Nat PROVE \E s \in [0 .. n -> Nat] : Sums(s, vec, n)
<1> DEFINE step == [k \in Nat |-> [v \in Nat |-> v + (IF vec[k - 1] = "1" THEN Pow[k - 1] ELSE 0)]]
<1>1. StepsIn(step, n, Nat) /\ 0 \in Nat
  <2>1. \A k \in 1 .. n : k \in Nat /\ k - 1 \in Nat
    OBVIOUS
  <2> QED
    BY <2>1, PowIs DEF StepsIn
<1>2. \E g \in [0 .. n -> Nat] : Recurs(g, 0, n, step)
  <2> HIDE DEF step
  <2> QED
    BY ONLY <1>1, n \in Nat, Recursion
<1>3. PICK g \in [0 .. n -> Nat] : Recurs(g, 0, n, step)
  BY <1>2
<1>4. \A k \in 1 .. n : g[k - 1] \in Nat /\ k \in Nat
  OBVIOUS
<1> QED
  BY <1>3, <1>4 DEF Recurs, Sums

\* And Num is the last of them.
LEMMA NumIs == ASSUME NEW vec, NEW n \in Nat, NEW s, Sums(s, vec, n) PROVE Num(vec, n) = s[n]
<1> DEFINE IsSum(h) == h = [i \in 0 .. n |-> IF i = 0 THEN 0
                              ELSE h[i - 1] + (IF vec[i - 1] = "1" THEN Pow[i - 1] ELSE 0)]
           p == CHOOSE h : IsSum(h)
<1>1. PICK t \in [0 .. n -> Nat] : Sums(t, vec, n)
  BY SumsExist
<1>2. IsSum(t)
  <2>1. \A i \in 0 .. n : t[i] = IF i = 0 THEN 0
                                 ELSE t[i - 1] + (IF vec[i - 1] = "1" THEN Pow[i - 1] ELSE 0)
    <3>1. \A i \in 0 .. n : i # 0 => i \in 1 .. n
      OBVIOUS
    <3> QED
      BY <1>1, <3>1 DEF Sums
  <2>2. t = [i \in 0 .. n |-> t[i]]
    OBVIOUS
  <2> QED
    BY <2>1, <2>2
<1>3. IsSum(p)
  <2> HIDE DEF IsSum
  <2> QED
    BY <1>2
<1>4. Num(vec, n) = p[n]
  BY Zenon DEF Num
<1> HIDE DEF p
<1>5. \A k \in 0 .. n : p[k] = s[k]
  <2>1. p[0] = s[0]
    BY <1>3 DEF Sums
  <2>2. \A k \in 1 .. n : p[k - 1] = s[k - 1] => p[k] = s[k]
    BY <1>3 DEF Sums
  <2>3. n \in Nat
    OBVIOUS
  <2> QED
    BY ONLY <2>1, <2>2, <2>3, SameRecursion
<1> QED
  BY <1>4, <1>5

\* The number in one bit more.
LEMMA NumStep ==
    ASSUME NEW vec, NEW n \in Nat
    PROVE  /\ Num(vec, 0) = 0 /\ Num(vec, n) \in Nat
           /\ Num(vec, n + 1) = Num(vec, n) + (IF vec[n] = "1" THEN Pow[n] ELSE 0)
<1>1. PICK s \in [0 .. n + 1 -> Nat] : Sums(s, vec, n + 1)
  <2>1. n + 1 \in Nat
    OBVIOUS
  <2> QED
    BY <2>1, SumsExist
<1>2. Sums(s, vec, 0) /\ Sums(s, vec, n)
  BY <1>1 DEF Sums
<1>3. Num(vec, 0) = s[0] /\ Num(vec, n) = s[n] /\ Num(vec, n + 1) = s[n + 1]
  <2>1. 0 \in Nat /\ n + 1 \in Nat
    OBVIOUS
  <2> QED
    BY <1>1, <1>2, <2>1, NumIs
<1>4. s[0] = 0 /\ s[n] \in Nat /\ s[n + 1] = s[n] + (IF vec[n] = "1" THEN Pow[n] ELSE 0)
  <2>1. n + 1 \in 1 .. n + 1 /\ (n + 1) - 1 = n
    OBVIOUS
  <2> QED
    BY <1>1, <2>1 DEF Sums
<1> QED
  BY <1>3, <1>4

\* The bits of v and u below n that are 1 are the same, or the other ones; and v
\* has none from n to m.
SameOnes(v, u, n) == \A i \in 0 .. n - 1 : v[i] = "1" <=> u[i] = "1"

OtherOnes(v, u, n) == \A i \in 0 .. n - 1 : v[i] = "1" <=> ~(u[i] = "1")

NoOnes(v, n, m) == \A i \in n .. m - 1 : v[i] # "1"

\* Vectors with the same bits below n have the same number there.
LEMMA NumSame == ASSUME NEW v, NEW u, NEW n \in Nat, SameOnes(v, u, n) PROVE Num(v, n) = Num(u, n)
<1> DEFINE G == {k \in Nat : k <= n => Num(v, k) = Num(u, k)}
<1>1. 0 \in G
  BY NumStep
<1>2. ASSUME NEW k \in Nat, k \in G PROVE k + 1 \in G
  <2>1. k + 1 <= n => k <= n /\ k \in 0 .. n - 1
    OBVIOUS
  <2>2. k + 1 <= n => (v[k] = "1" <=> u[k] = "1")
    BY <2>1 DEF SameOnes
  <2>3. /\ Num(v, k + 1) = Num(v, k) + (IF v[k] = "1" THEN Pow[k] ELSE 0)
        /\ Num(u, k + 1) = Num(u, k) + (IF u[k] = "1" THEN Pow[k] ELSE 0)
    BY NumStep
  <2> QED
    BY <1>2, <2>1, <2>2, <2>3
<1> HIDE DEF G
<1>3. n \in G
  BY <1>1, <1>2, Induction
<1> QED
  BY <1>3 DEF G

\* The numbers of a vector and of the inverted one add up to all ones.
LEMMA NumOther ==
    ASSUME NEW v, NEW u, NEW n \in Nat, OtherOnes(v, u, n)
    PROVE  Num(v, n) + Num(u, n) = Pow[n] - 1
<1> DEFINE G == {k \in Nat : k <= n => Num(v, k) + Num(u, k) = Pow[k] - 1}
<1>1. 0 \in G
  BY NumStep, PowIs
<1>2. ASSUME NEW k \in Nat, k \in G PROVE k + 1 \in G
  <2>1. k + 1 <= n => k <= n /\ k \in 0 .. n - 1
    OBVIOUS
  <2>2. k + 1 <= n => (v[k] = "1" <=> ~(u[k] = "1"))
    BY <2>1 DEF OtherOnes
  <2>3. /\ Num(v, k + 1) = Num(v, k) + (IF v[k] = "1" THEN Pow[k] ELSE 0)
        /\ Num(u, k + 1) = Num(u, k) + (IF u[k] = "1" THEN Pow[k] ELSE 0)
        /\ Num(v, k) \in Nat /\ Num(u, k) \in Nat
        /\ Pow[k] \in Nat /\ Pow[k + 1] = 2 * Pow[k]
    BY NumStep, PowIs
  <2>4. k + 1 <= n => Num(v, k) + Num(u, k) = Pow[k] - 1
    BY <1>2, <2>1
  <2> DEFINE a == Num(v, k)
             b == Num(u, k)
             x == Pow[k]
             a1 == Num(v, k + 1)
             b1 == Num(u, k + 1)
  <2>5. k + 1 <= n => a1 + b1 = 2 * x - 1
    <3>1. ASSUME k + 1 <= n PROVE (v[k] = "1" /\ u[k] # "1") \/ (v[k] # "1" /\ u[k] = "1")
      BY <2>2, <3>1
    <3>2. ASSUME k + 1 <= n PROVE (a1 = a + x /\ b1 = b) \/ (a1 = a /\ b1 = b + x)
      BY <2>3, <3>1, <3>2
    <3>3. a \in Nat /\ b \in Nat /\ x \in Nat /\ (k + 1 <= n => a + b = x - 1)
      BY <2>3, <2>4
    <3> HIDE DEF a, b, x, a1, b1
    <3> QED
      BY <3>2, <3>3
  <2> QED
    BY <2>3, <2>5
<1> HIDE DEF G
<1>3. n \in G
  BY <1>1, <1>2, Induction
<1> QED
  BY <1>3 DEF G

\* Bits above n add a multiple of two to the n, and none if they are clear.
LEMMA NumSplit ==
    ASSUME NEW v, NEW n \in Nat, NEW m \in Nat
    PROVE  /\ \E c \in Nat : Num(v, n + m) = Num(v, n) + c * Pow[n]
           /\ NoOnes(v, n, n + m) => Num(v, n + m) = Num(v, n)
<1> DEFINE Carries(k) == \E c \in Nat : Num(v, n + k) = Num(v, n) + c * Pow[n]
           G == {k \in Nat : /\ Carries(k)
                             /\ k <= m /\ NoOnes(v, n, n + m) => Num(v, n + k) = Num(v, n)}
<1>1. 0 \in G
  <2>1. n + 0 = n /\ Num(v, n) \in Nat /\ Pow[n] \in Nat
    BY NumStep, PowIs
  <2>2. Num(v, n) = Num(v, n) + 0 * Pow[n] /\ 0 \in Nat
    BY <2>1
  <2>3. Carries(0)
    BY <2>1, <2>2
  <2> QED
    BY <2>1, <2>3
<1>2. ASSUME NEW k \in Nat, k \in G PROVE k + 1 \in G
  <2> DEFINE a == Num(v, n)
             b == Num(v, n + k)
             x == Pow[n]
             y == Pow[k]
  <2>1. n + k \in Nat /\ n + (k + 1) = (n + k) + 1
    OBVIOUS
  <2>2. /\ Num(v, n + (k + 1)) = b + (IF v[n + k] = "1" THEN Pow[n + k] ELSE 0)
        /\ a \in Nat /\ b \in Nat
    BY <2>1, NumStep
  <2>3. Pow[n + k] = x * y /\ x \in Nat /\ y \in Nat
    BY PowSum, PowIs
  <2>4. PICK c \in Nat : b = a + c * x
    BY <1>2
  <2> HIDE DEF a, b, x, y
  <2>5. \E e \in Nat : Num(v, n + (k + 1)) = a + e * x
    <3>1. CASE v[n + k] = "1"
      <4>1. (c + y) * x = c * x + x * y /\ c + y \in Nat /\ c * x \in Nat /\ x * y \in Nat
        BY <2>3, <2>4
      <4>2. Num(v, n + (k + 1)) = a + (c + y) * x
        BY <2>2, <2>3, <2>4, <3>1, <4>1
      <4> QED
        BY <4>1, <4>2
    <3>2. CASE v[n + k] # "1"
      BY <2>2, <2>4, <3>2
    <3> QED
      BY <3>1, <3>2
  <2>6. Carries(k + 1)
    BY <2>5 DEF a, x
  <2>7. ASSUME k + 1 <= m, NoOnes(v, n, n + m) PROVE Num(v, n + (k + 1)) = Num(v, n)
    <3>1. n + k \in n .. (n + m) - 1 /\ k <= m
      BY <2>7
    <3>2. v[n + k] # "1"
      BY <2>7, <3>1 DEF NoOnes
    <3>3. b = a
      BY <1>2, <2>7, <3>1 DEF a, b
    <3> QED
      BY <2>2, <3>2, <3>3 DEF a
  <2> QED
    BY <2>6, <2>7
<1> HIDE DEF G
<1>3. m \in G
  BY <1>1, <1>2, Induction
<1> QED
  BY <1>3 DEF G

\* A multiple of two to the w does not change the bits below w.
LEMMA WordBitLow ==
    ASSUME NEW a \in Nat, NEW c \in Nat, NEW w \in Nat, NEW i \in 0 .. w - 1
    PROVE  WordBit(a + c * Pow[w], i) = WordBit(a, i)
<1> DEFINE b == Pow[i]
           y == Pow[w - 1 - i]
           d == a \div b
           e == a % b
<1>1. i \in Nat /\ w - 1 - i \in Nat /\ (w - 1 - i) + 1 \in Nat /\ i + ((w - 1 - i) + 1) = w
  OBVIOUS
<1>2. Pow[w] = b * (2 * y) /\ b \in Nat \ {0} /\ y \in Nat
  <2>1. Pow[(w - 1 - i) + 1] = 2 * y /\ b \in Nat \ {0} /\ y \in Nat
    BY <1>1, PowIs
  <2>2. Pow[i + ((w - 1 - i) + 1)] = Pow[i] * Pow[(w - 1 - i) + 1]
    BY ONLY <1>1, PowSum
  <2> QED
    BY <1>1, <2>1, <2>2
<1>3. d \in Nat /\ e \in 0 .. b - 1 /\ a = d * b + e
  BY <1>2, DivMod
<1> HIDE DEF b, y, d, e
<1>4. a + c * Pow[w] = (d + 2 * (c * y)) * b + e /\ d + 2 * (c * y) \in Nat /\ c * y \in Nat
  <2>1. c * y \in Nat
    BY <1>2
  <2>2. c * (b * (2 * y)) = (2 * (c * y)) * b
    BY <1>2
  <2>3. (d + 2 * (c * y)) * b = d * b + (2 * (c * y)) * b /\ d * b \in Nat /\ (2 * (c * y)) * b \in Nat
    BY <1>2, <1>3, <2>1
  <2> QED
    BY <1>2, <1>3, <2>1, <2>2, <2>3
<1>5. ((d + 2 * (c * y)) * b + e) \div b = d + 2 * (c * y)
  BY <1>2, <1>3, <1>4, DivIs
<1>6. (d + 2 * (c * y)) % 2 = d % 2
  <2> DEFINE z == c * y
  <2>1. z \in Nat
    BY <1>4
  <2> HIDE DEF z
  <2>2. (d + 2 * z) % 2 = d % 2
    BY <1>3, <2>1
  <2> QED
    BY <2>2 DEF z
<1>7. (a + c * Pow[w]) \div Pow[i] = d + 2 * (c * y) /\ a \div Pow[i] = d
  BY <1>4, <1>5 DEF b, d
<1> QED
  BY <1>6, <1>7 DEF WordBit

\* Nor does taking the number modulo two to the w.
LEMMA WordBitMod ==
    ASSUME NEW a \in Nat, NEW w \in Nat, NEW i \in 0 .. w - 1
    PROVE  WordBit(a % Pow[w], i) = WordBit(a, i)
<1> DEFINE p == Pow[w]
           c == a \div p
           m == a % p
<1>1. p \in Nat \ {0}
  BY PowIs
<1>2. c \in Nat /\ m \in Nat /\ a = m + c * p
  <2>1. c \in Nat /\ m \in 0 .. p - 1 /\ a = c * p + m
    BY <1>1, DivMod
  <2> HIDE DEF c, m, p
  <2>2. c * p \in Nat
    BY <1>1, <2>1
  <2> QED
    BY <1>1, <2>1, <2>2
<1> HIDE DEF c, m
<1>3. WordBit(m + c * Pow[w], i) = WordBit(m, i)
  BY <1>2, WordBitLow
<1> QED
  BY <1>2, <1>3 DEF m

\* The bits that += gives a register of one word: those of a sum of ints, or x.
LEMMA AddBits ==
    ASSUME NEW r, IsReg(r), r.width <= W, NEW s, IsReg(s), s.width <= W, NEW i \in 0 .. r.width - 1
    PROVE  Add(r, s).vec[i] = IF AllKnown(r) /\ AllKnown(s)
                                THEN WordBit(Num(r.vec, W) + Num(s.vec, W), i)
                                ELSE "x"
<1> DEFINE D == Positions(r.width)
           u == [j \in D |-> Bit(TRUE, TRUE)]
           p == [j \in D |-> WordBit(Num(r.vec, W) + Num(s.vec, W), j)]
<1>1. i \in D /\ DOMAIN r.vec = D
  BY VisibleBit DEF IsReg
<1>2. /\ WordUnknown(r.vec, 0) <=> ~AllKnown(r)
      /\ WordUnknown(s.vec, 0) <=> ~AllKnown(s)
  BY OneWordReg
<1>3. u \in [D -> Four] /\ p \in [D -> Four]
  BY BitType DEF WordBit
<1>4. Add(r, s) = IF WordUnknown(r.vec, 0) \/ WordUnknown(s.vec, 0) THEN [r EXCEPT !.vec = u]
                  ELSE [r EXCEPT !.vec = p]
  BY <1>1 DEF Add, IsReg
<1>5. u[i] = "x" /\ p[i] = WordBit(Num(r.vec, W) + Num(s.vec, W), i)
  BY <1>1 DEF Bit
<1> HIDE DEF u, p
<1>6. [r EXCEPT !.vec = u].vec = u /\ [r EXCEPT !.vec = p].vec = p
  BY <1>3, WithVec
<1> QED
  BY <1>2, <1>4, <1>5, <1>6

\* The unused bits of a register, which the sum of ints includes, do not change the
\* bits below the width.
LEMMA SumModulo ==
    ASSUME NEW r, IsReg(r), r.width <= W, NEW n \in Nat, NEW i \in 0 .. r.width - 1
    PROVE  WordBit(Num(r.vec, W) + n, i) = WordBit((Num(r.vec, r.width) + n) % Pow[r.width], i)
<1> DEFINE w == r.width
           a == Num(r.vec, w)
           k == W - w
<1>1. w \in Nat \ {0} /\ w <= W /\ W \in Nat
  BY OneWordReg
<1>2. k \in Nat /\ w + k = W /\ w \in Nat
  BY <1>1
<1> HIDE DEF w, k
<1>3. PICK c \in Nat : Num(r.vec, w + k) = a + c * Pow[w]
  BY <1>2, NumSplit
<1>4. a \in Nat /\ Pow[w] \in Nat
  BY <1>2, NumStep, PowIs
<1> HIDE DEF a
<1>5. a + n \in Nat /\ Num(r.vec, W) + n = (a + n) + c * Pow[w]
  <2>1. c * Pow[w] \in Nat
    BY <1>4
  <2> QED
    BY <1>2, <1>3, <1>4, <2>1
<1>6. i \in 0 .. w - 1
  BY DEF w
<1>7. WordBit((a + n) + c * Pow[w], i) = WordBit(a + n, i)
  BY <1>2, <1>5, <1>6, WordBitLow
<1>8. WordBit((a + n) % Pow[w], i) = WordBit(a + n, i)
  BY <1>2, <1>5, <1>6, WordBitMod
<1> QED
  BY <1>5, <1>7, <1>8 DEF w, a

\* With its unused bits clear, a register of one word has the number of the word.
LEMMA CleanNum ==
    ASSUME NEW r, IsReg(r), r.width <= W, Clean(r)
    PROVE  Num(r.vec, W) = Num(r.vec, r.width)
<1> DEFINE w == r.width
           k == W - w
<1>1. w \in Nat \ {0} /\ w <= W /\ W \in Nat /\ DOMAIN r.vec = 0 .. W - 1
  BY OneWordReg
<1>2. k \in Nat /\ w + k = W /\ w \in Nat
  BY <1>1
<1>3. \A i \in w .. (w + k) - 1 : r.vec[i] # "1"
  <2>1. \A i \in w .. (w + k) - 1 : i \in DOMAIN r.vec /\ i >= w
    BY <1>1, <1>2
  <2>2. \A i \in DOMAIN r.vec : i >= w => r.vec[i] = "0"
    BY DEF Clean
  <2> QED
    BY <2>1, <2>2
<1> HIDE DEF w, k
<1>4. NoOnes(r.vec, w, w + k)
  BY <1>3 DEF NoOnes
<1>5. Num(r.vec, w + k) = Num(r.vec, w)
  BY <1>2, <1>4, NumSplit
<1> QED
  BY <1>2, <1>5 DEF w

\* ~ of a known register is known, and has the number of all ones less its own.
LEMMA NotKnown ==
    ASSUME NEW r, IsReg(r), r.width <= W, AllKnown(r)
    PROVE  LET q == LogicalNot(r)
           IN  /\ IsReg(q) /\ q.width = r.width /\ AllKnown(q)
               /\ Num(q.vec, W) = Pow[r.width] - 1 - Num(r.vec, r.width)
<1> DEFINE q == LogicalNot(r)
           w == r.width
<1>1. IsReg(q) /\ q.width = w
  BY BitwiseReg
<1>2. \A i \in 0 .. w - 1 : q.vec[i] = RefNot(r.vec[i]) /\ r.vec[i] \in Four /\ ~Bval(r.vec[i])
  BY NotBit, VisibleBit DEF AllKnown
<1>3. Clean(q)
  <2> DEFINE n == [i \in Positions(r.width) |-> Bit(~Aval(r.vec[i]) \/ Bval(r.vec[i]), Bval(r.vec[i]))]
  <2>1. DOMAIN r.vec = Positions(r.width)
    BY DEF IsReg
  <2>2. n \in [Positions(r.width) -> Four]
    BY BitType
  <2>3. q = Cleared([r EXCEPT !.vec = n])
    BY <2>1 DEF LogicalNot, IsReg
  <2> HIDE DEF n, q
  <2> QED
    BY <2>2, <2>3, ClearedVec
<1> HIDE DEF q
<1>4. AllKnown(q)
  <2>1. \A i \in 0 .. q.width - 1 : ~Bval(q.vec[i])
    BY <1>1, <1>2 DEF RefNot, Four, Bval
  <2> QED
    BY <1>1, <1>3, <2>1, CleanKnown
<1>5. Num(q.vec, w) + Num(r.vec, w) = Pow[w] - 1
  <2>1. OtherOnes(q.vec, r.vec, w)
    BY <1>2 DEF OtherOnes, RefNot, Four, Bval
  <2>2. w \in Nat
    BY DEF IsReg
  <2> HIDE DEF w
  <2> QED
    BY <2>1, <2>2, NumOther
<1>6. Num(q.vec, W) = Num(q.vec, w)
  BY <1>1, <1>3, CleanNum
<1>7. Num(q.vec, w) \in Nat /\ Num(r.vec, w) \in Nat /\ Pow[w] \in Nat
  <2>1. w \in Nat
    BY DEF IsReg
  <2> HIDE DEF w
  <2> QED
    BY <2>1, NumStep, PowIs
<1> QED
  BY <1>1, <1>4, <1>5, <1>6, <1>7 DEF q

\* The 1 that twos_compliment adds.
LEMMA OneNum ==
    LET q == FromInt(1, One)
    IN  IsReg(q) /\ q.width = 1 /\ q.width <= W /\ AllKnown(q) /\ Num(q.vec, W) = 1
<1> DEFINE q == FromInt(1, One)
<1>1. W \in Nat \ {0} /\ 1 <= W /\ 1 \in Nat \ {0}
  BY SimRegAssumption
<1>2. q = Ones(1, 0)
  BY <1>1, OneIs
<1>3. IsReg(q) /\ q.width = 1 /\ \A i \in Positions(1) : q.vec[i] = IF i <= 0 THEN "1" ELSE "0"
  BY <1>1, <1>2, OnesReg
<1> HIDE DEF q
<1>4. DOMAIN q.vec = Positions(1) /\ Positions(1) = 0 .. W - 1
  BY <1>1, <1>3, OneWordReg
<1>5. AllKnown(q) /\ Clean(q)
  <2>1. AllKnown(q)
    BY <1>3, <1>4 DEF AllKnown, Bval
  <2>2. \A i \in Positions(1) : i >= 1 => ~(i <= 0)
    BY <1>1, <1>4
  <2> QED
    BY <1>3, <1>4, <2>1, <2>2 DEF Clean
<1>6. Num(q.vec, W) = Num(q.vec, 1)
  BY <1>1, <1>3, <1>5, CleanNum
<1>7. Num(q.vec, 0 + 1) = 0 + 1
  <2>1. 0 \in Positions(1) /\ 0 \in Nat
    BY <1>1, <1>4
  <2>2. Num(q.vec, 0 + 1) = Num(q.vec, 0) + (IF q.vec[0] = "1" THEN Pow[0] ELSE 0) /\ Num(q.vec, 0) = 0
    BY <2>1, NumStep
  <2>3. q.vec[0] = "1" /\ Pow[0] = 1
    BY <1>3, <2>1, PowIs
  <2> QED
    BY <2>2, <2>3
<1>8. Num(q.vec, W) = 1
  BY <1>6, <1>7
<1> QED
  BY <1>1, <1>3, <1>5, <1>8 DEF q

\* Addition of registers of one word is addition modulo two to the width, the carry
\* left in the unused bits notwithstanding, and unknown throughout if an operand has
\* an unknown bit; the two's complement is the negation, and for a connected
\* register the successor.
LEMMA ArithmeticHolds == TypeOK => ArithmeticSound
<1> SUFFICES ASSUME TypeOK, NEW d \in Names, NEW s \in Names,
                    reg[d].width <= W, reg[s].width <= W
             PROVE  LET w == reg[d].width
                        Sum(r, n, m) == \A i \in 0 .. w - 1 : r.vec[i] = WordBit((n + m) % Pow[w], i)
                    IN  /\ IF AllKnown(Synced(d)) /\ AllKnown(Synced(s))
                             THEN Clean(Synced(s)) =>
                                    Sum(Add(Synced(d), Synced(s)), Num(Value(d), w), Num(Value(s), reg[s].width))
                             ELSE \A i \in 0 .. w - 1 : Bval(Add(Synced(d), Synced(s)).vec[i])
                        /\ AllKnown(Synced(d)) =>
                             Sum(TwosComplimented(d),
                                 IF d = connected THEN Num(Value(d), w) + 1
                                 ELSE Pow[w] - Num(Value(d), w), 0)
  BY DEF ArithmeticSound
<1> DEFINE r == Synced(d)
           q == Synced(s)
           w == reg[d].width
           m == reg[s].width
<1>1. /\ IsReg(r) /\ r.width = w /\ IsReg(q) /\ q.width = m
      /\ w \in Nat \ {0} /\ m \in Nat \ {0} /\ w <= W /\ m <= W
      /\ \A i \in 0 .. w - 1 : Value(d)[i] = r.vec[i]
      /\ \A i \in 0 .. m - 1 : Value(s)[i] = q.vec[i]
  BY RegIs, ValueBits
<1> HIDE DEF r, q, w, m
<1>2. Num(Value(d), w) = Num(r.vec, w) /\ Num(Value(s), m) = Num(q.vec, m)
  <2>1. SameOnes(Value(d), r.vec, w) /\ SameOnes(Value(s), q.vec, m) /\ w \in Nat /\ m \in Nat
    BY <1>1 DEF SameOnes
  <2> QED
    BY <2>1, NumSame
<1>3. Num(r.vec, w) \in Nat /\ Num(q.vec, m) \in Nat /\ Pow[w] \in Nat
  <2>1. w \in Nat /\ m \in Nat
    BY <1>1
  <2> QED
    BY <2>1, NumStep, PowIs
<1>4. ASSUME AllKnown(r), AllKnown(q), Clean(q), NEW i \in 0 .. w - 1
      PROVE  Add(r, q).vec[i] = WordBit((Num(Value(d), w) + Num(Value(s), m)) % Pow[w], i)
  <2>1. i \in 0 .. r.width - 1 /\ r.width <= W /\ q.width <= W
    BY <1>1
  <2>2. Add(r, q).vec[i] = WordBit(Num(r.vec, W) + Num(q.vec, W), i)
    BY <1>1, <1>4, <2>1, AddBits
  <2>3. Num(q.vec, W) = Num(q.vec, m)
    BY <1>1, <1>4, <2>1, CleanNum
  <2> DEFINE n == Num(q.vec, m)
  <2>4. n \in Nat
    BY <1>3
  <2> HIDE DEF n
  <2>5. WordBit(Num(r.vec, W) + n, i) = WordBit((Num(r.vec, r.width) + n) % Pow[r.width], i)
    BY <1>1, <2>1, <2>4, SumModulo
  <2> QED
    BY <1>1, <1>2, <2>2, <2>3, <2>5 DEF n
<1>5. ASSUME ~(AllKnown(r) /\ AllKnown(q)), NEW i \in 0 .. w - 1
      PROVE  Bval(Add(r, q).vec[i])
  <2>1. i \in 0 .. r.width - 1 /\ r.width <= W /\ q.width <= W
    BY <1>1
  <2>2. Add(r, q).vec[i] = "x"
    BY <1>1, <1>5, <2>1, AddBits
  <2> QED
    BY <2>2 DEF Bval
<1>6. ASSUME AllKnown(r), NEW i \in 0 .. w - 1
      PROVE  Add(LogicalNot(r), FromInt(1, One)).vec[i]
               = WordBit(((Pow[w] - Num(Value(d), w)) + 0) % Pow[w], i)
  <2> DEFINE t == LogicalNot(r)
             o == FromInt(1, One)
  <2>1. IsReg(t) /\ t.width = w /\ AllKnown(t) /\ Num(t.vec, W) = Pow[w] - 1 - Num(r.vec, w)
    BY <1>1, <1>6, NotKnown
  <2>2. IsReg(o) /\ o.width <= W /\ AllKnown(o) /\ Num(o.vec, W) = 1
    BY OneNum
  <2> HIDE DEF t, o
  <2>3. i \in 0 .. t.width - 1 /\ t.width <= W
    BY <1>1, <2>1
  <2>4. Add(t, o).vec[i] = WordBit(Num(t.vec, W) + Num(o.vec, W), i)
    BY <2>1, <2>2, <2>3, AddBits
  <2> DEFINE a == Num(t.vec, W) + Num(o.vec, W)
  <2>5. a \in Nat /\ a = (Pow[w] - Num(Value(d), w)) + 0
    <3>1. Num(t.vec, W) \in Nat
      BY OneWordReg, <2>1, <2>3, NumStep
    <3> QED
      BY <1>2, <1>3, <2>1, <2>2, <3>1
  <2> HIDE DEF a
  <2>6. WordBit(a % Pow[w], i) = WordBit(a, i)
    BY <1>1, <2>5, WordBitMod
  <2> QED
    BY <2>4, <2>5, <2>6 DEF a, t, o
<1>7. ASSUME AllKnown(r), NEW i \in 0 .. w - 1
      PROVE  Add(r, FromInt(1, One)).vec[i] = WordBit(((Num(Value(d), w) + 1) + 0) % Pow[w], i)
  <2> DEFINE o == FromInt(1, One)
  <2>1. IsReg(o) /\ o.width <= W /\ AllKnown(o) /\ Num(o.vec, W) = 1
    BY OneNum
  <2> HIDE DEF o
  <2>2. i \in 0 .. r.width - 1 /\ r.width <= W
    BY <1>1
  <2>3. Add(r, o).vec[i] = WordBit(Num(r.vec, W) + 1, i)
    BY <1>1, <1>7, <2>1, <2>2, AddBits
  <2>4. WordBit(Num(r.vec, W) + 1, i) = WordBit((Num(r.vec, r.width) + 1) % Pow[r.width], i)
    BY <1>1, <2>2, SumModulo
  <2>5. (Num(Value(d), w) + 1) + 0 = Num(r.vec, r.width) + 1
    BY <1>1, <1>2, <1>3
  <2> QED
    BY <1>1, <2>3, <2>4, <2>5 DEF o
<1>8. AllKnown(r) => \A i \in 0 .. w - 1 :
        TwosComplimented(d).vec[i]
          = WordBit(((IF d = connected THEN Num(Value(d), w) + 1
                      ELSE Pow[w] - Num(Value(d), w)) + 0) % Pow[w], i)
  <2>1. CASE d = connected
    <3>1. TwosComplimented(d) = Add(r, FromInt(1, One))
      BY <2>1 DEF TwosComplimented, r
    <3> QED
      BY <1>7, <2>1, <3>1
  <2>2. CASE d # connected
    <3>1. TwosComplimented(d) = Add(LogicalNot(r), FromInt(1, One))
      BY <2>2 DEF TwosComplimented, r
    <3> QED
      BY <1>6, <2>2, <3>1
  <2> QED
    BY <2>1, <2>2
<1> QED
  BY <1>4, <1>5, <1>8 DEF r, q, w, m

-----------------------------------------------------------------------------
(* The program's registers *)

\* v is the value of a signal of w bits, and has no unused bits.
IsSignal(v, w) ==
    /\ v \in [Positions(w) -> Four]
    /\ \A i \in Positions(w) : i >= w => v[i] = "0"

\* TypeOK says so of the signal of a register.
LEMMA SignalIs ==
    ASSUME NEW r, IsReg(r), NEW v
    PROVE  (v \in [DOMAIN r.vec -> Four] /\ Clean([r EXCEPT !.vec = v])) <=> IsSignal(v, r.width)
<1>1. DOMAIN r.vec = Positions(r.width)
  BY DEF IsReg
<1>2. ASSUME v \in [Positions(r.width) -> Four]
      PROVE  Clean([r EXCEPT !.vec = v]) <=> \A i \in Positions(r.width) : i >= r.width => v[i] = "0"
  <2> DEFINE q == [r EXCEPT !.vec = v]
  <2>1. q.width = r.width /\ q.vec = v
    BY <1>2, WithVec
  <2> HIDE DEF q
  <2>2. Clean(q) <=> \A i \in Positions(r.width) : i >= r.width => v[i] = "0"
    BY <1>2, <2>1 DEF Clean
  <2> QED
    BY <2>2 DEF q
<1> QED
  BY <1>1, <1>2 DEF IsSignal

\* TypeOK, in these terms.
LEMMA TypeIs ==
    TypeOK <=> /\ connected \in Names \cup {NoName}
               /\ reg \in [Names -> Regs]
               /\ connected # NoName => IsSignal(sim, reg[connected].width)
<1>1. ASSUME connected \in Names \cup {NoName}, reg \in [Names -> Regs], connected # NoName
      PROVE  (/\ sim \in [DOMAIN reg[connected].vec -> Four]
              /\ Clean([reg[connected] EXCEPT !.vec = sim]))
             <=> IsSignal(sim, reg[connected].width)
  <2>1. IsReg(reg[connected])
    BY <1>1, RegsAre
  <2> QED
    BY <2>1, SignalIs
<1> QED
  BY <1>1 DEF TypeOK

\* The same of the next state.
LEMMA NextTypeIs ==
    TypeOK' <=> /\ connected' \in Names \cup {NoName}
                /\ reg' \in [Names -> Regs]
                /\ connected' # NoName => IsSignal(sim', reg'[connected'].width)
<1>1. ASSUME connected' \in Names \cup {NoName}, reg' \in [Names -> Regs], connected' # NoName
      PROVE  (/\ sim' \in [DOMAIN reg'[connected'].vec -> Four]
              /\ Clean([reg'[connected'] EXCEPT !.vec = sim']))
             <=> IsSignal(sim', reg'[connected'].width)
  <2>1. IsReg(reg'[connected'])
    BY <1>1, RegsAre
  <2> QED
    BY <2>1, SignalIs
<1> QED
  BY <1>1 DEF TypeOK, Regs, Clean

\* After an operator that gives d the value r, the registers are ones, of the widths
\* they had.
LEMMA NewRegs ==
    ASSUME TypeOK, NEW d \in Names, NEW s \in Names, NEW r, IsReg(r), r.width = reg[d].width,
           reg' = [reg EXCEPT ![s] = Synced(s), ![d] = r]
    PROVE  /\ reg' \in [Names -> Regs]
           /\ \A e \in Names : reg'[e].width = reg[e].width
<1>1. reg \in [Names -> Regs]
  BY DEF TypeOK
<1>2. r \in Regs /\ Synced(s) \in Regs /\ Synced(s).width = reg[s].width
  BY RegIs, RegsAre
<1> QED
  BY <1>1, <1>2

\* An operator that keeps its result leaves registers behind.
LEMMA KeptType ==
    ASSUME TypeOK, NEW d \in Names, NEW s \in Names, NEW r, IsReg(r), r.width = reg[d].width,
           Kept(d, s, r)
    PROVE  TypeOK'
<1>1. reg' = [reg EXCEPT ![s] = Synced(s), ![d] = r] /\ connected' = connected /\ sim' = sim
  BY DEF Kept
<1>2. reg' \in [Names -> Regs] /\ \A e \in Names : reg'[e].width = reg[e].width
  BY <1>1, NewRegs
<1>3. /\ connected \in Names \cup {NoName}
      /\ connected # NoName => IsSignal(sim, reg[connected].width)
  BY TypeIs
<1> QED
  BY <1>1, <1>2, <1>3, NextTypeIs

\* One that drives it leaves a signal without unused bits, too.
LEMMA WrittenType ==
    ASSUME TypeOK, NEW d \in Names, NEW s \in Names, NEW r, IsReg(r), r.width = reg[d].width,
           Written(d, s, r)
    PROVE  TypeOK'
<1>1. /\ reg' = [reg EXCEPT ![s] = Synced(s), ![d] = r] /\ connected' = connected
      /\ sim' = IF d = connected THEN Cleared(r).vec ELSE sim
  BY DEF Written
<1>2. reg' \in [Names -> Regs] /\ \A e \in Names : reg'[e].width = reg[e].width
  BY <1>1, NewRegs
<1>3. /\ connected \in Names \cup {NoName}
      /\ connected # NoName => IsSignal(sim, reg[connected].width)
  BY TypeIs
<1>4. IsSignal(Cleared(r).vec, r.width)
  <2>1. IsReg(Cleared(r)) /\ Cleared(r).width = r.width /\ Clean(Cleared(r))
    BY ClearedBits
  <2> QED
    BY <2>1 DEF Clean, IsReg, IsSignal
<1>5. connected # NoName => IsSignal(sim', reg'[connected].width)
  BY <1>1, <1>2, <1>3, <1>4
<1> QED
  BY <1>1, <1>2, <1>3, <1>5, NextTypeIs

\* The registers of the program at first.
LEMMA InitType == Init => TypeOK
<1> SUFFICES ASSUME Init PROVE TypeOK
  OBVIOUS
<1>1. ASSUME NEW d \in Names
      PROVE  IsReg(reg[d]) /\ reg[d].width \in Widths /\ IsSignal(reg[d].vec, reg[d].width)
  <2>1. PICK w \in Widths : reg[d] \in Literals(w)
    BY SimRegAssumption DEF Init
  <2>2. PICK v \in [0 .. w - 1 -> Inputs] :
           reg[d] = [width |-> w, vec |-> [i \in Positions(w) |-> IF i < w THEN v[i] ELSE "0"]]
    BY <2>1 DEF Literals
  <2>3. w \in Nat \ {0} /\ Positions(w) \subseteq Nat /\ Inputs \subseteq Four
    BY PositionsOf, SimRegAssumption DEF Four
  <2>4. \A i \in Positions(w) : i < w => i \in 0 .. w - 1
    BY <2>3
  <2>5. [i \in Positions(w) |-> IF i < w THEN v[i] ELSE "0"] \in [Positions(w) -> Four]
    BY <2>3, <2>4, BitType
  <2>6. \A i \in Positions(w) : i >= w => ~(i < w)
    BY <2>3
  <2> QED
    BY <2>2, <2>3, <2>5, <2>6 DEF IsReg, IsSignal
<1>2. connected \in Names \cup {NoName}
  BY DEF Init
<1>3. reg \in [Names -> Regs]
  <2>1. \A d \in Names : reg[d] \in Regs
    BY <1>1, RegsAre
  <2>2. reg = [d \in Names |-> reg[d]]
    BY DEF Init
  <2> QED
    BY <2>1, <2>2
<1>4. connected # NoName => IsSignal(sim, reg[connected].width)
  BY <1>1, <1>2 DEF Init
<1> QED
  BY <1>2, <1>3, <1>4, TypeIs

\* Literals are vectors of bits, and their digits digits.
LEMMA LiteralTypes ==
    /\ \A w \in Widths : w \in Nat \ {0}
    /\ \A w \in Widths : [0 .. w - 1 -> Inputs] \subseteq [0 .. w - 1 -> Four]
    /\ \A w \in Widths : [0 .. NumDigits(w) - 1 -> Digits]
                         \subseteq [0 .. NumDigits(w) - 1 -> [0 .. H - 1 -> Four]]
<1>1. Inputs \subseteq Four
  BY SimRegAssumption DEF Four
<1>2. Digits \subseteq [0 .. H - 1 -> Four]
  BY DigitTypes
<1> QED
  BY <1>1, <1>2, SimRegAssumption

\* The assignments of a register, of an int and of the literals.
LEMMA AssignTypes ==
    ASSUME TypeOK, NEW d \in Names, NEW s \in Names,
           \/ Assign(d, s) \/ AssignBinary(d) \/ AssignDecimal(d) \/ AssignHex(d)
           \/ \E n \in Ints : AssignInt(d, n)
    PROVE  TypeOK'
<1>1. /\ IsReg(reg[d]) /\ reg[d].width \in Nat \ {0} /\ IsReg(Synced(s))
  BY RegIs
<1>2. CASE Assign(d, s)
  <2>1. IsReg(Assigned(reg[d], Synced(s))) /\ Assigned(reg[d], Synced(s)).width = reg[d].width
    BY <1>1, AssignedBits
  <2> QED
    BY <1>2, <2>1, WrittenType DEF Assign
<1>3. CASE AssignBinary(d)
  <2>0. PICK w \in Widths : \E v \in [0 .. w - 1 -> Inputs] : Written(d, d, FromBinary(reg[d], w, v))
    BY <1>3 DEF AssignBinary
  <2>1. PICK v \in [0 .. w - 1 -> Inputs] : Written(d, d, FromBinary(reg[d], w, v))
    BY <2>0
  <2>2. w \in Nat \ {0} /\ v \in [0 .. w - 1 -> Four]
    BY LiteralTypes
  <2>3. IsReg(FromBinary(reg[d], w, v)) /\ FromBinary(reg[d], w, v).width = reg[d].width
    BY <1>1, <2>2, FromBinaryReg
  <2> QED
    BY <2>1, <2>3, WrittenType
<1>4. CASE AssignDecimal(d)
  <2>1. PICK n \in Ints : Written(d, d, FromDecimal(reg[d], n))
    BY <1>4 DEF AssignDecimal
  <2>2. IsReg(FromInt(reg[d].width, n)) /\ FromInt(reg[d].width, n).width = reg[d].width
    BY <1>1, FromIntBits, IntTypes
  <2>3. IsReg(FromDecimal(reg[d], n)) /\ FromDecimal(reg[d], n).width = reg[d].width
    BY <2>2, ClearedBits DEF FromDecimal
  <2> QED
    BY <2>1, <2>3, WrittenType
<1>5. CASE AssignHex(d)
  <2>0. PICK w \in Widths : \E digits \in [0 .. NumDigits(w) - 1 -> Digits] :
                               Written(d, d, FromHex(reg[d], w, digits))
    BY <1>5 DEF AssignHex
  <2>1. PICK digits \in [0 .. NumDigits(w) - 1 -> Digits] : Written(d, d, FromHex(reg[d], w, digits))
    BY <2>0
  <2>2. w \in Nat \ {0} /\ digits \in [0 .. NumDigits(w) - 1 -> [0 .. H - 1 -> Four]]
    BY LiteralTypes
  <2>3. IsReg(FromHex(reg[d], w, digits)) /\ FromHex(reg[d], w, digits).width = reg[d].width
    BY <1>1, <2>2, FromHexReg
  <2> QED
    BY <2>1, <2>3, WrittenType
<1>6. CASE \E n \in Ints : AssignInt(d, n)
  <2>1. PICK n \in Ints : Written(d, d, FromInt(reg[d].width, n))
    BY <1>6 DEF AssignInt
  <2>2. IsReg(FromInt(reg[d].width, n)) /\ FromInt(reg[d].width, n).width = reg[d].width
    BY <1>1, FromIntBits, IntTypes
  <2> QED
    BY <2>1, <2>2, WrittenType
<1> QED
  BY <1>2, <1>3, <1>4, <1>5, <1>6

\* The bitwise operators, the sum and the two's complement.
LEMMA OperatorTypes ==
    ASSUME TypeOK, NEW d \in Names, NEW s \in Names,
           \/ Not(d) \/ OrInto(d, s) \/ AndInto(d, s) \/ XorInto(d, s)
           \/ AddInto(d, s) \/ TwosCompliment(d)
    PROVE  TypeOK'
<1> DEFINE r == Synced(d)
<1>1. IsReg(r) /\ r.width = reg[d].width
  BY RegIs
<1>2. /\ IsReg(LogicalNot(r)) /\ LogicalNot(r).width = reg[d].width
      /\ IsReg(Or(r, Synced(s))) /\ Or(r, Synced(s)).width = reg[d].width
      /\ IsReg(And(r, Synced(s))) /\ And(r, Synced(s)).width = reg[d].width
      /\ IsReg(Xor(r, Synced(s))) /\ Xor(r, Synced(s)).width = reg[d].width
      /\ IsReg(Add(r, Synced(s))) /\ Add(r, Synced(s)).width = reg[d].width
  <2> HIDE DEF r
  <2> QED
    BY <1>1, BitwiseReg
<1>3. CASE Not(d)
  BY <1>2, <1>3, KeptType DEF Not
<1>4. CASE OrInto(d, s)
  BY <1>2, <1>4, KeptType DEF OrInto
<1>5. CASE AndInto(d, s)
  BY <1>2, <1>5, KeptType DEF AndInto
<1>6. CASE XorInto(d, s)
  BY <1>2, <1>6, KeptType DEF XorInto
<1>7. CASE AddInto(d, s)
  BY <1>2, <1>7, KeptType DEF AddInto
<1>8. CASE TwosCompliment(d)
  <2> DEFINE i == IF d = connected THEN Synced(d) ELSE LogicalNot(Synced(d))
  <2>1. IsReg(i) /\ i.width = reg[d].width
    BY <1>1, <1>2
  <2>2. Kept(d, d, Add(i, FromInt(1, One)))
    BY <1>8 DEF TwosCompliment, TwosComplimented
  <2> HIDE DEF i
  <2>3. IsReg(Add(i, FromInt(1, One))) /\ Add(i, FromInt(1, One)).width = reg[d].width
    BY <2>1, BitwiseReg
  <2> QED
    BY <2>2, <2>3, KeptType
<1> QED
  BY <1>3, <1>4, <1>5, <1>6, <1>7, <1>8

\* The shifts.
LEMMA ShiftTypes ==
    ASSUME TypeOK, NEW d \in Names, NEW n \in 1 .. reg[d].width, ShiftRight(d, n) \/ ShiftLeft(d, n)
    PROVE  TypeOK'
<1> DEFINE r == Synced(d)
<1>1. IsReg(r) /\ r.width = reg[d].width /\ n \in Nat
  BY RegIs
<1>2. /\ IsReg(RightShifted(r, n)) /\ RightShifted(r, n).width = reg[d].width
      /\ IsReg(LeftShifted(r, n)) /\ LeftShifted(r, n).width = reg[d].width
  <2> HIDE DEF r
  <2> QED
    BY <1>1, RightShiftedBits, LeftShiftedBits
<1> QED
  BY <1>2, WrittenType DEF ShiftRight, ShiftLeft

\* The assignment of a register to a slice.
LEMMA StoreSliceType ==
    ASSUME TypeOK, NEW d \in Names, NEW s \in Names, NEW sl \in Slices(d), NEW value, IsReg(value),
           StoreSlice(d, sl[1], sl[2], s, value)
    PROVE  TypeOK'
<1> DEFINE m == IF d = connected THEN Synced(d)
                ELSE And(Synced(d), LogicalNot(SliceMask(reg[d].width, sl[1], sl[2])))
           c == SliceCopy(reg[d].width, sl[1], sl[2], value)
<1>1. IsReg(m) /\ m.width = reg[d].width
  <2>1. IsReg(Synced(d)) /\ Synced(d).width = reg[d].width
    BY RegIs
  <2> QED
    BY <2>1, BitwiseReg
<1>2. Kept(d, s, Or(m, c))
  BY DEF StoreSlice
<1> HIDE DEF m, c
<1>3. IsReg(Or(m, c)) /\ Or(m, c).width = reg[d].width
  BY <1>1, BitwiseReg
<1> QED
  BY <1>2, <1>3, KeptType

\* The assignments to and from slices.
LEMMA SliceTypes ==
    ASSUME TypeOK, NEW d \in Names, NEW s \in Names,
           SliceInto(d, s) \/ SliceFromSlice(d, s) \/ SliceFromInt(d) \/ AssignSlice(d, s)
    PROVE  TypeOK'
<1>1. IsReg(Synced(s)) /\ Synced(s).width = reg[s].width /\ IsReg(reg[s]) /\ IsReg(reg[d])
  BY RegIs
<1>2. CASE SliceInto(d, s)
  BY <1>1, <1>2, StoreSliceType DEF SliceInto
<1>3. CASE SliceFromSlice(d, s)
  <2>1. PICK sl \in Slices(d) \cap Slices(s) :
           StoreSlice(d, sl[1], sl[2], s, FromSlice(Synced(s), sl[1], sl[2]))
    BY <1>3 DEF SliceFromSlice
  <2>2. sl[1] \in 0 .. Synced(s).width - 1 /\ sl[2] \in 0 .. sl[1]
    BY <1>1, SliceOf
  <2>3. IsReg(FromSlice(Synced(s), sl[1], sl[2]))
    BY <1>1, <2>2, FromSliceReg
  <2> QED
    BY <2>1, <2>3, StoreSliceType
<1>4. CASE SliceFromInt(d)
  <2>1. PICK sl \in Slices(d), n \in Ints :
           StoreSlice(d, sl[1], sl[2], d, FromInt(sl[1] - sl[2] + 1, n))
    BY <1>4 DEF SliceFromInt
  <2>2. sl[1] - sl[2] + 1 \in Nat \ {0} /\ n \in [0 .. W - 1 -> Four]
    BY SliceOf, IntTypes
  <2>3. IsReg(FromInt(sl[1] - sl[2] + 1, n))
    BY <2>2, FromIntBits
  <2> QED
    BY <2>1, <2>3, StoreSliceType
<1>5. CASE AssignSlice(d, s)
  <2> DEFINE value(sl) == IF d = connected THEN FromSlice(Synced(s), sl[1], sl[2])
                          ELSE RightShifted(Assigned(reg[s], Synced(s)), sl[2])
  <2>1. PICK sl \in Slices(s) : Written(d, s, Assigned(reg[d], value(sl)))
    BY <1>5 DEF AssignSlice
  <2> DEFINE a == Assigned(reg[s], Synced(s))
             q == value(sl)
  <2>2. IsReg(a) /\ sl[2] \in Nat
    BY <1>1, AssignedBits, SliceOf
  <2>3. IsReg(q)
    <3>1. IsReg(RightShifted(a, sl[2]))
      <4> HIDE DEF a
      <4> QED
        BY <2>2, RightShiftedBits
    <3>2. sl[1] \in 0 .. Synced(s).width - 1 /\ sl[2] \in 0 .. sl[1]
      BY <1>1, SliceOf
    <3>3. IsReg(FromSlice(Synced(s), sl[1], sl[2]))
      BY <1>1, <3>2, FromSliceReg
    <3> QED
      BY <3>1, <3>3
  <2>4. Written(d, s, Assigned(reg[d], q))
    BY <2>1 DEF q
  <2> HIDE DEF q
  <2>5. IsReg(Assigned(reg[d], q)) /\ Assigned(reg[d], q).width = reg[d].width
    BY <1>1, <2>3, AssignedBits
  <2> QED
    BY <2>4, <2>5, WrittenType
<1> QED
  BY <1>2, <1>3, <1>4, <1>5

\* The concatenation.
LEMMA ConcatType ==
    ASSUME TypeOK, NEW d \in Names, NEW s \in Names, ConcatInto(d, s)
    PROVE  TypeOK'
<1>1. IsReg(Synced(d)) /\ IsReg(Synced(s)) /\ IsReg(reg[d])
  BY RegIs
<1>2. IsReg(Concat(Synced(d), Synced(s)))
  BY <1>1, ConcatReg
<1> DEFINE c == Concat(Synced(d), Synced(s))
<1> HIDE DEF c
<1>3. IsReg(Assigned(reg[d], c)) /\ Assigned(reg[d], c).width = reg[d].width
  BY <1>1, <1>2, AssignedBits DEF c
<1>4. Written(d, s, Assigned(reg[d], c))
  BY DEF ConcatInto, c
<1> QED
  BY <1>3, <1>4, WrittenType

\* The conversion to an int and the comparisons.
LEMMA ReadTypes ==
    ASSUME TypeOK, NEW d \in Names, NEW s \in Names, ToInt(d) \/ Compare(d, s)
    PROVE  TypeOK'
<1>1. /\ IsReg(Synced(d)) /\ Synced(d).width = reg[d].width
      /\ IsReg(Synced(s)) /\ Synced(s).width = reg[s].width
  BY RegIs
<1>2. CASE ToInt(d)
  <2> DEFINE r == IF WordUnknown(Synced(d).vec, 0) THEN Synced(d) ELSE Cleared(Synced(d))
  <2>1. IsReg(r) /\ r.width = reg[d].width
    BY <1>1, ClearedBits
  <2>2. reg' = [reg EXCEPT ![d] = r] /\ UNCHANGED <<connected, sim>>
    BY <1>2 DEF ToInt
  <2> HIDE DEF r
  <2>3. reg' = [reg EXCEPT ![d] = Synced(d), ![d] = r]
    BY <2>2 DEF TypeOK
  <2> QED
    BY <2>1, <2>2, <2>3, KeptType DEF Kept
<1>3. CASE Compare(d, s)
  <2>1. Kept(s, d, Synced(s))
    BY <1>3 DEF Compare, Kept
  <2> QED
    BY <1>1, <2>1, KeptType
<1> QED
  BY <1>2, <1>3

\* The design drives the signal.
LEMMA SignalType == ASSUME TypeOK, SimChanges PROVE TypeOK'
<1>1. /\ connected \in Names \cup {NoName} /\ reg \in [Names -> Regs]
      /\ connected # NoName /\ IsSignal(sim, reg[connected].width)
  BY TypeIs DEF SimChanges
<1> DEFINE w == reg[connected].width
<1>2. PICK v \in [0 .. w - 1 -> Inputs] : sim' = [i \in DOMAIN sim |-> IF i \in DOMAIN v THEN v[i] ELSE "0"]
  BY DEF SimChanges
<1>3. w \in Nat \ {0} /\ Positions(w) \subseteq Nat /\ Inputs \subseteq Four /\ DOMAIN sim = Positions(w)
  BY <1>1, RegIs, PositionsOf, SimRegAssumption DEF Four, IsSignal
<1>4. reg' = reg /\ connected' = connected
  BY DEF SimChanges
<1> HIDE DEF w
<1>5. IsSignal(sim', w)
  <2>1. \A i \in Positions(w) : i >= w => i \notin 0 .. w - 1
    BY <1>3
  <2> QED
    BY <1>2, <1>3, <2>1, BitType DEF IsSignal
<1> QED
  BY <1>1, <1>4, <1>5, NextTypeIs DEF w

\* Every operator, and the design, leaves registers behind, and a signal without
\* unused bits.
LEMMA StepType == TypeOK /\ [Next]_vars => TypeOK'
<1> SUFFICES ASSUME TypeOK, [Next]_vars PROVE TypeOK'
  OBVIOUS
<1>1. CASE UNCHANGED vars
  <2>1. reg' = reg /\ connected' = connected /\ sim' = sim
    BY <1>1 DEF vars
  <2> QED
    BY <2>1, TypeIs, NextTypeIs
<1>2. CASE SimChanges
  BY <1>2, SignalType
<1>3. ASSUME NEW d \in Names, NEW s \in Names, Operate(d, s) PROVE TypeOK'
  BY <1>3, AssignTypes, OperatorTypes, ShiftTypes, SliceTypes, ConcatType, ReadTypes DEF Operate
<1> QED
  BY <1>1, <1>2, <1>3 DEF Next

\* The registers keep the words of their widths, whatever operators the program
\* applies in whatever order, and the signal of a connected one never has a bit
\* beyond its width.
THEOREM TypeTheorem == Spec => []TypeOK
<1>1. Init => TypeOK
  BY InitType
<1>2. TypeOK /\ [Next]_vars => TypeOK'
  BY StepType
<1> QED
  BY <1>1, <1>2, PTL DEF Spec

-----------------------------------------------------------------------------
(* What holds whatever operators the program applies, in whatever order *)

\* ~, |=, &= and ^= never give a wrong 0 or 1.
THEOREM BitwiseTheorem == Spec => []BitwiseSound
  BY TypeTheorem, BitwiseHolds, PTL

\* Registers compare equal exactly if their values do, as long as their unused bits
\* are clear, and with an int as far as the code looks at them.
THEOREM EqualTheorem == Spec => []EqualExact
  BY TypeTheorem, EqualHolds, PTL

\* The shifts move every bit to its place, across the words.
THEOREM ShiftTheorem == Spec => []ShiftExact
  BY TypeTheorem, ShiftHolds, PTL

\* A slice is read and written as a whole and alone, and concatenation keeps both
\* its operands.
THEOREM SliceTheorem == Spec => []SliceSound
  BY TypeTheorem, SliceHolds, PTL

\* What hexString writes is read back, and so is a binary literal of a word.
THEOREM LiteralTheorem == Spec => []ReadsBack
  BY TypeTheorem, LiteralHolds, PTL

\* Addition is addition modulo two to the width; the two's complement is the
\* negation, but the successor for a register that is connected to a signal.
THEOREM ArithmeticTheorem == Spec => []ArithmeticSound
  BY TypeTheorem, ArithmeticHolds, PTL
=============================================================================
