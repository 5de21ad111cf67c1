------------------------------- MODULE SimReg -------------------------------
(***************************************************************************)
(* FrSimReg, FrSimRegSlice and FrSimCReg (libfrsim): four-state registers  *)
(* of any width, and the connected ones that mirror a signal.              *)
(*                                                                         *)
(* A register is an array of words of W bits (32 in the code); a bit is a  *)
(* pair of an aval and a bval bit, encoded as the simulator encodes it and *)
(* operator<< prints it: (1,1) is x and (0,1) is z.                        *)
(* The bits of the top word beyond the width are "unused": some operators  *)
(* clear them and some do not.  A connected register samples its signal at *)
(* the start of an operator (readSync) and, in some operators, drives it   *)
(* at the end (writeSync).                                                 *)
(***************************************************************************)
EXTENDS Integers

CONSTANTS
    W,         \* bits of a word
    H,         \* bits of a digit of a hexadecimal literal
    Names,     \* registers of the user program
    Widths,    \* widths they may have
    Mirrored,  \* bound: widths they have when one of them is connected
    Inputs,    \* bits that string literals and signals bring in
    NoName     \* no register is connected

ASSUME SimRegAssumption ==
    /\ W \in Nat \ {0}
    /\ H \in 1 .. W /\ W % H = 0
    /\ Widths \subseteq Nat \ {0}
    /\ Mirrored \subseteq Widths
    /\ Inputs \subseteq {"0", "1", "x", "z"}
    /\ NoName \notin Names

VARIABLES
    reg,        \* the registers: width and vecval
    connected,  \* the FrSimCReg among them, or NoName
    sim         \* value of its signal in the simulator

vars == <<reg, connected, sim>>

-----------------------------------------------------------------------------
(* Bits and words *)

Four == {"0", "1", "x", "z"}
Aval(f) == f \in {"1", "x"}
Bval(f) == f \in {"x", "z"}
Bit(a, b) == IF b THEN (IF a THEN "x" ELSE "z") ELSE (IF a THEN "1" ELSE "0")

\* getWidthWordsFromBits, and the positions allocVecValArray provides.
WidthWords(w) == (w - 1) \div W + 1
Positions(w) == 0 .. WidthWords(w) * W - 1

Regs == UNION {[width : {w}, vec : [Positions(w) -> Four]] : w \in Widths}
Ints == [0 .. W - 1 -> {"0", "1"}]
One == [i \in 0 .. W - 1 |-> IF i = 0 THEN "1" ELSE "0"]
Zero == [i \in 0 .. W - 1 |-> "0"]

\* Is any bit of the word of i x or z?
WordUnknown(vec, i) ==
    \E j \in (i \div W) * W .. (i \div W) * W + W - 1 : Bval(vec[j])

\* clearUnusedBits
Cleared(r) ==
    [r EXCEPT !.vec = [i \in DOMAIN @ |-> IF i < r.width THEN @[i] ELSE "0"]]

Clean(r) == \A i \in DOMAIN r.vec : i >= r.width => r.vec[i] = "0"

\* The number in a word, and the word of a number modulo 2^W.
Pow[n \in Nat] == IF n = 0 THEN 1 ELSE 2 * Pow[n - 1]
Num(vec, n) ==
    LET sum[i \in 0 .. n] ==
          IF i = 0 THEN 0
          ELSE sum[i - 1] + (IF vec[i - 1] = "1" THEN Pow[i - 1] ELSE 0)
    IN  sum[n]
WordBit(n, i) == IF (n \div Pow[i]) % 2 = 1 THEN "1" ELSE "0"

-----------------------------------------------------------------------------
(* The operators, as functions of the register and the right-hand side *)

\* FrSimReg(w, v) and operator=(int): the low word is the int, as it is.
FromInt(w, n) ==
    [width |-> w,
     vec |-> [i \in Positions(w) |-> IF i < W THEN n[i] ELSE "0"]]

\* Mutant: the words of the right-hand side, however many there are.
Assigned_NoResize(r, s) == [r EXCEPT !.vec = s.vec]

\* operator=(FrSimReg): truncated or padded with zeros.
Assigned(r, s) ==
    Cleared([r EXCEPT !.vec = [i \in DOMAIN @ |->
                                  IF i \in DOMAIN s.vec THEN s.vec[i] ELSE "0"]])

\* Mutant: the unknown bits are inverted as well.
LogicalNot_KeepsNothing(r) ==
    Cleared([r EXCEPT !.vec = [i \in DOMAIN @ |-> Bit(~Aval(@[i]), FALSE)]])

LogicalNot(r) ==
    Cleared([r EXCEPT !.vec = [i \in DOMAIN @ |->
                                  Bit(~Aval(@[i]) \/ Bval(@[i]), Bval(@[i]))]])

\* operator|=: both branches of the code come to this.
Or(r, s) ==
    [r EXCEPT !.vec = [i \in DOMAIN @ |->
        LET b == Bval(@[i]) \/ Bval(s.vec[i])
        IN  Bit(Aval(@[i]) \/ Aval(s.vec[i]) \/ b, b)]]

\* operator&= and operator^=: an unknown bit turns its whole word, the unused
\* bits too, into aval 0 and bval 1.
And(r, s) ==
    [r EXCEPT !.vec = [i \in DOMAIN @ |->
        IF WordUnknown(@, i) \/ WordUnknown(s.vec, i) THEN Bit(FALSE, TRUE)
        ELSE Bit(Aval(@[i]) /\ Aval(s.vec[i]), FALSE)]]

Xor(r, s) ==
    [r EXCEPT !.vec = [i \in DOMAIN @ |->
        IF WordUnknown(@, i) \/ WordUnknown(s.vec, i) THEN Bit(FALSE, TRUE)
        ELSE Bit(Aval(@[i]) # Aval(s.vec[i]), FALSE)]]

\* operator+=, for registers of one word: a sum of ints, the unused bits included.
Add(r, s) ==
    IF WordUnknown(r.vec, 0) \/ WordUnknown(s.vec, 0)
      THEN [r EXCEPT !.vec = [i \in DOMAIN @ |-> Bit(TRUE, TRUE)]]
      ELSE [r EXCEPT !.vec = [i \in DOMAIN @ |-> WordBit(Num(@, W) + Num(s.vec, W), i)]]

\* One pass of rightShiftVecval: word after word in place, from the lowest up,
\* each taking the bit it shifts in from the word above.
RightPass(vec, words) ==
    LET pass[k \in 0 .. words] ==
          IF k = 0 THEN vec
          ELSE LET v == pass[k - 1]
               IN  [i \in DOMAIN vec |->
                      IF i \div W # k - 1 THEN v[i]
                      ELSE IF i + 1 \in DOMAIN vec THEN v[i + 1] ELSE "0"]
    IN  pass[words]

\* Mutant: the words are taken from the lowest up here too.
LeftPass_Upward(vec, words) ==
    LET pass[k \in 0 .. words] ==
          IF k = 0 THEN vec
          ELSE LET v == pass[k - 1]
               IN  [i \in DOMAIN vec |->
                      IF i \div W # k - 1 THEN v[i]
                      ELSE IF i = 0 THEN "0" ELSE v[i - 1]]
    IN  pass[words]

\* One pass of leftShiftVecval, from the highest word down.
LeftPass(vec, words) ==
    LET pass[k \in 0 .. words] ==
          IF k = 0 THEN vec
          ELSE LET v == pass[k - 1]
               IN  [i \in DOMAIN vec |->
                      IF i \div W # words - k THEN v[i]
                      ELSE IF i = 0 THEN "0" ELSE v[i - 1]]
    IN  pass[words]

RightShifted(r, n) ==
    LET shift[k \in 0 .. n] ==
          IF k = 0 THEN r.vec ELSE RightPass(shift[k - 1], WidthWords(r.width))
    IN  Cleared([r EXCEPT !.vec = shift[n]])

LeftShifted(r, n) ==
    LET shift[k \in 0 .. n] ==
          IF k = 0 THEN r.vec ELSE LeftPass(shift[k - 1], WidthWords(r.width))
    IN  Cleared([r EXCEPT !.vec = shift[n]])

\* Mutant: one bit too many in the mask.
SliceMask_OffByOne(w, u, l) ==
    LET mask[k \in 0 .. u - l + 1] ==
          IF k = 0 THEN Or(FromInt(w, Zero), FromInt(w, One))
          ELSE Or(LeftShifted(mask[k - 1], 1), FromInt(w, One))
    IN  LeftShifted(mask[u - l + 1], l)

\* The mask of the slice (u, l) of a register of width w, built bit by bit.
SliceMask(w, u, l) ==
    LET mask[k \in 0 .. u - l] ==
          IF k = 0 THEN Or(FromInt(w, Zero), FromInt(w, One))
          ELSE Or(LeftShifted(mask[k - 1], 1), FromInt(w, One))
    IN  LeftShifted(mask[u - l], l)

\* FrSimRegSlice::operator=: what is or-ed into the register r after its slice
\* has been masked out.
SliceCopy(w, u, l, s) ==
    And(LeftShifted(Assigned(FromInt(w, One), s), l), SliceMask(w, u, l))

SliceAssigned(r, u, l, s) ==
    Or(And(r, LogicalNot(SliceMask(r.width, u, l))), SliceCopy(r.width, u, l, s))

\* FrSimReg(slice): the width of the slice, and then operator=(slice), which
\* shifts a copy of the whole register.
FromSlice(r, u, l) ==
    Assigned(FromInt(u - l + 1, Zero), RightShifted(Assigned(r, r), l))

\* operator, puts r above s.
Concat(r, s) ==
    LET w == r.width + s.width
    IN  SliceAssigned(Assigned(FromInt(w, Zero), s), w - 1, s.width, r)

\* Mutant: only the low word is compared.
Equal_LowWord(r, s) ==
    /\ r.width = s.width
    /\ \A i \in 0 .. W - 1 :
          Aval(r.vec[i]) = Aval(s.vec[i]) /\ ~Bval(r.vec[i]) /\ ~Bval(s.vec[i])

\* operator==(FrSimReg)
Equal(r, s) ==
    /\ r.width = s.width
    /\ \A i \in DOMAIN r.vec :
          Aval(r.vec[i]) = Aval(s.vec[i]) /\ ~Bval(r.vec[i]) /\ ~Bval(s.vec[i])

\* exactlyEqual, x and z and the unused bits included.
ExactlyEqual(r, s) == r = s

\* operator==(int): of a register of several words the low one must be zero, and
\* the upper ones are not looked at.
EqualInt(r, n) ==
    /\ WidthWords(r.width) > 1 => \A i \in 0 .. W - 1 : r.vec[i] = "0"
    /\ \A i \in 0 .. W - 1 : r.vec[i] = n[i]

-----------------------------------------------------------------------------
(* String literals: v is the literal's bits, digits its digits from the left *)

\* setToString, 'b: each word is filled from the left, the low word first, and
\* the words of r that the literal has not are cleared.
FromBinary(r, w, v) ==
    LET start(k) == IF (k + 1) * W > w THEN (w % W) - 1 ELSE W - 1
        char(i) == start(i \div W) - (i % W) + W * (i \div W)
    IN  Cleared([r EXCEPT !.vec = [i \in DOMAIN @ |->
            IF i \in Positions(w) /\ i % W <= start(i \div W) THEN v[w - 1 - char(i)] ELSE "0"]])

\* setToString, 'd
FromDecimal(r, n) == Cleared(FromInt(r.width, n))

\* A digit is a number, or x or z in all its bits.
Digits == {g \in [0 .. H - 1 -> Inputs] :
              \A i, j \in 0 .. H - 1 : Bval(g[i]) => g[j] = g[i]}
NumDigits(w) == (w - 1) \div H + 1

\* A digit goes into the low bits, which are 0; a z clears the avals of the
\* upper half of the low word.
SetDigit(vec, g) ==
    [i \in DOMAIN vec |->
        IF i < H THEN g[i]
        ELSE IF g[0] = "z" /\ i \in W \div 2 .. W - 1 THEN Bit(FALSE, Bval(vec[i]))
        ELSE vec[i]]

\* Shifted left by a digit.
DigitLeft(vec, words) ==
    LET shift[k \in 0 .. H] == IF k = 0 THEN vec ELSE LeftPass(shift[k - 1], words)
    IN  shift[H]

\* setVecvalFromHexString: the first chars digits, each after a shift of those
\* before it.
FromDigits(vec, words, digits, chars) ==
    LET fill[k \in 0 .. chars] ==
          IF k = 0 THEN vec
          ELSE SetDigit(IF k = 1 THEN vec ELSE DigitLeft(fill[k - 1], words), digits[k - 1])
    IN  fill[chars]

\* Mutant: the words above those of the literal are not cleared afterwards.
FromHex_NoPad(r, w, digits) ==
    Cleared([r EXCEPT !.vec =
        FromDigits([i \in DOMAIN @ |-> IF i \in Positions(w) THEN "0" ELSE @[i]],
                   WidthWords(r.width), digits, w \div H)])

\* setToString, 'h: the words the literal and r share are cleared, then all the
\* words are shifted, and those that only r has are cleared.
FromHex(r, w, digits) ==
    LET start == [i \in DOMAIN r.vec |-> IF i \in Positions(w) THEN "0" ELSE r.vec[i]]
        vec == FromDigits(start, WidthWords(r.width), digits, w \div H)
    IN  Cleared([r EXCEPT !.vec = [i \in DOMAIN @ |-> IF i \in Positions(w) THEN vec[i] ELSE "0"]])

\* operator<< and convertNibToHex: the digit of the bits from l up.
PrintedDigit(r, l) ==
    LET nib == Assigned(FromInt(H, Zero), RightShifted(Assigned(r, r), l)).vec
    IN  [i \in 0 .. H - 1 |->
            IF \A j \in 0 .. H - 1 : ~Bval(nib[j]) THEN nib[i]
            ELSE IF \A j \in 0 .. H - 1 : nib[j] = "z" THEN "z" ELSE "x"]

\* hexString: the digits, from the left.
hexString(r) ==
    [k \in 0 .. NumDigits(r.width) - 1 |-> PrintedDigit(r, (NumDigits(r.width) - 1 - k) * H)]

-----------------------------------------------------------------------------
(* The operators on the registers of the program *)

\* readSync: a connected register takes the value of its signal.
Synced(d) == IF d = connected THEN [reg[d] EXCEPT !.vec = sim] ELSE reg[d]

\* d takes the value r after s was sampled; d is not driven.
Kept(d, s, r) ==
    /\ reg' = [reg EXCEPT ![s] = Synced(s), ![d] = r]
    /\ UNCHANGED <<connected, sim>>

\* The same, and writeSync drives the signal of d, which has no unused bits.
Written(d, s, r) ==
    /\ reg' = [reg EXCEPT ![s] = Synced(s), ![d] = r]
    /\ sim' = IF d = connected THEN Cleared(r).vec ELSE sim
    /\ UNCHANGED connected

Assign(d, s) == Written(d, s, Assigned(reg[d], Synced(s)))

\* Registers of width w of any visible value.
Literals(w) ==
    {[width |-> w, vec |-> [i \in Positions(w) |-> IF i < w THEN v[i] ELSE "0"]] :
        v \in [0 .. w - 1 -> Inputs]}

\* setToString; a decimal literal of more than a word exits.
AssignBinary(d) ==
    \E w \in Widths : \E v \in [0 .. w - 1 -> Inputs] : Written(d, d, FromBinary(reg[d], w, v))
AssignDecimal(d) == \E n \in Ints : Written(d, d, FromDecimal(reg[d], n))
AssignHex(d) ==
    \E w \in Widths : \E digits \in [0 .. NumDigits(w) - 1 -> Digits] :
        Written(d, d, FromHex(reg[d], w, digits))

\* No readSync, no clearUnusedBits.
AssignInt(d, n) == Written(d, d, FromInt(reg[d].width, n))

Not(d) == Kept(d, d, LogicalNot(Synced(d)))

\* The loops run over the words of d: s must have as many.
OrInto(d, s) ==
    /\ WidthWords(reg[d].width) <= WidthWords(reg[s].width)
    /\ Kept(d, s, Or(Synced(d), Synced(s)))

AndInto(d, s) ==
    /\ WidthWords(reg[d].width) <= WidthWords(reg[s].width)
    /\ Kept(d, s, And(Synced(d), Synced(s)))

XorInto(d, s) ==
    /\ WidthWords(reg[d].width) <= WidthWords(reg[s].width)
    /\ Kept(d, s, Xor(Synced(d), Synced(s)))

\* With a wider register the program exits.
AddInto(d, s) ==
    /\ reg[d].width <= W /\ reg[s].width <= W
    /\ Kept(d, s, Add(Synced(d), Synced(s)))

\* Mutant: the inversion is forgotten.
TwosComplimented_NotInverted(d) == Add(Synced(d), FromInt(1, One))

\* logical_not and += 1.  operator+= samples d again, and so undoes the inversion
\* if d is connected, since logical_not does not drive the signal.
TwosComplimented(d) ==
    Add(IF d = connected THEN Synced(d) ELSE LogicalNot(Synced(d)), FromInt(1, One))

TwosCompliment(d) ==
    /\ reg[d].width <= W
    /\ Kept(d, d, TwosComplimented(d))

ShiftRight(d, n) == Written(d, d, RightShifted(Synced(d), n))
ShiftLeft(d, n) == Written(d, d, LeftShifted(Synced(d), n))

\* d(u,l) = value; operator|= samples d again, and so undoes operator&=.
StoreSlice(d, u, l, s, value) ==
    LET masked == IF d = connected THEN Synced(d)
                  ELSE And(Synced(d), LogicalNot(SliceMask(reg[d].width, u, l)))
    IN  Kept(d, s, Or(masked, SliceCopy(reg[d].width, u, l, value)))

Slices(d) == {sl \in (0 .. reg[d].width - 1) \X (0 .. reg[d].width - 1) : sl[2] <= sl[1]}

\* d(u,l) = s
SliceInto(d, s) ==
    \E sl \in Slices(d) : StoreSlice(d, sl[1], sl[2], s, Synced(s))

\* d(u,l) = s(u,l)
SliceFromSlice(d, s) ==
    \E sl \in Slices(d) \cap Slices(s) :
        StoreSlice(d, sl[1], sl[2], s, FromSlice(Synced(s), sl[1], sl[2]))

\* d(u,l) = n, by way of a register as wide as the slice.
SliceFromInt(d) ==
    \E sl \in Slices(d), n \in Ints :
        StoreSlice(d, sl[1], sl[2], d, FromInt(sl[1] - sl[2] + 1, n))

\* d = s(u,l): a plain register takes as many bits as it has, whatever u is.  The
\* operators of a connected one hide operator=(slice): the slice becomes a register
\* of its own width first.
AssignSlice(d, s) ==
    \E sl \in Slices(s) :
        LET value == IF d = connected THEN FromSlice(Synced(s), sl[1], sl[2])
                     ELSE RightShifted(Assigned(reg[s], Synced(s)), sl[2])
        IN  Written(d, s, Assigned(reg[d], value))

\* d = (d, s)
ConcatInto(d, s) == Written(d, s, Assigned(reg[d], Concat(Synced(d), Synced(s))))

\* to_int clears the unused bits, unless the low word has an unknown bit.
ToInt(d) ==
    /\ reg' = [reg EXCEPT ![d] = IF WordUnknown(Synced(d).vec, 0) THEN Synced(d)
                                 ELSE Cleared(Synced(d))]
    /\ UNCHANGED <<connected, sim>>

\* A comparison samples both sides; -= does nothing else.
Compare(d, s) ==
    /\ reg' = [reg EXCEPT ![d] = Synced(d), ![s] = Synced(s)]
    /\ UNCHANGED <<connected, sim>>

\* The design drives the signal.
SimChanges ==
    /\ connected # NoName
    /\ \E v \in [0 .. reg[connected].width - 1 -> Inputs] :
          sim' = [i \in DOMAIN sim |-> IF i \in DOMAIN v THEN v[i] ELSE "0"]
    /\ UNCHANGED <<reg, connected>>

-----------------------------------------------------------------------------
\* Registers made from literals, and at most one connected to a signal.
Init ==
    /\ connected \in Names \cup {NoName}
    /\ reg \in [Names -> UNION {Literals(w) :
                                w \in IF connected = NoName THEN Widths ELSE Mirrored}]
    /\ sim = IF connected = NoName THEN <<>> ELSE reg[connected].vec

Operate(d, s) ==
    \/ Assign(d, s)
    \/ AssignBinary(d)
    \/ AssignDecimal(d)
    \/ AssignHex(d)
    \/ \E n \in Ints : AssignInt(d, n)
    \/ Not(d)
    \/ OrInto(d, s)
    \/ AndInto(d, s)
    \/ XorInto(d, s)
    \/ AddInto(d, s)
    \/ TwosCompliment(d)
    \/ \E n \in 1 .. reg[d].width : ShiftRight(d, n)
    \/ \E n \in 1 .. reg[d].width : ShiftLeft(d, n)
    \/ SliceInto(d, s)
    \/ SliceFromSlice(d, s)
    \/ SliceFromInt(d)
    \/ AssignSlice(d, s)
    \/ ConcatInto(d, s)
    \/ ToInt(d)
    \/ Compare(d, s)

Next == SimChanges \/ \E d, s \in Names : Operate(d, s)

Spec == Init /\ [][Next]_vars

-----------------------------------------------------------------------------
(* Properties *)

\* The registers keep their widths' words; the signal has no unused bits.
TypeOK ==
    /\ connected \in Names \cup {NoName}
    /\ reg \in [Names -> Regs]
    /\ connected # NoName => /\ sim \in [DOMAIN reg[connected].vec -> Four]
                            /\ Clean([reg[connected] EXCEPT !.vec = sim])

\* What a register stands for: the signal's bits if it is connected.
Value(d) ==
    [i \in 0 .. reg[d].width - 1 |-> IF d = connected THEN sim[i] ELSE reg[d].vec[i]]
AllKnown(r) == \A i \in DOMAIN r.vec : ~Bval(r.vec[i])

\* The four-state tables of Verilog.
RefNot(f) == CASE f = "0" -> "1" [] f = "1" -> "0" [] OTHER -> "x"
RefAnd(f, g) == IF "0" \in {f, g} THEN "0" ELSE IF f = "1" /\ g = "1" THEN "1" ELSE "x"
RefOr(f, g) == RefNot(RefAnd(RefNot(f), RefNot(g)))
RefXor(f, g) == IF Bval(f) \/ Bval(g) THEN "x" ELSE IF f = g THEN "0" ELSE "1"

\* The visible bits of r never claim a 0 or a 1 that ref denies, and are
\* exactly ref's where no operand (exact) has an unknown bit.
Agrees(r, ref, exact) ==
    \A i \in DOMAIN ref : ~Bval(r.vec[i]) \/ exact => r.vec[i] = ref[i]

\* The bitwise operators may lose information (an unknown bit spoils its whole
\* word) but never give a wrong 0 or 1, whatever the unused bits hold and
\* however stale the copy of a connected register is.
BitwiseSound ==
    \A d, s \in Names :
        LET exact == AllKnown(Synced(d)) /\ AllKnown(Synced(s))
            Ref(Op(_, _)) == [i \in DOMAIN Value(d) |-> Op(Value(d)[i], Value(s)[i])]
        IN  /\ Agrees(LogicalNot(Synced(d)), [i \in DOMAIN Value(d) |-> RefNot(Value(d)[i])], TRUE)
            /\ reg[d].width = reg[s].width =>
                 /\ Agrees(Or(Synced(d), Synced(s)), Ref(RefOr), exact)
                 /\ Agrees(And(Synced(d), Synced(s)), Ref(RefAnd), exact)
                 /\ Agrees(Xor(Synced(d), Synced(s)), Ref(RefXor), exact)

\* A shift moves every bit, x and z included, across the words in the right
\* direction; a right shift does so if the unused bits are clear.
ShiftExact ==
    \A d \in Names : \A n \in 1 .. reg[d].width :
        /\ Clean(Synced(d)) =>
              Agrees(RightShifted(Synced(d), n),
                     [i \in DOMAIN Value(d) |->
                         IF i + n < reg[d].width THEN Value(d)[i + n] ELSE "0"], TRUE)
        /\ Agrees(LeftShifted(Synced(d), n),
                  [i \in DOMAIN Value(d) |-> IF i >= n THEN Value(d)[i - n] ELSE "0"], TRUE)

\* Addition is addition modulo two to the width of the register, the carry
\* left in the unused bits of it notwithstanding, and is unknown throughout
\* if an operand has an unknown bit.  The two's complement of a register that is
\* not connected is its negation; that of a connected one is its signal plus one.
ArithmeticSound ==
    \A d, s \in Names :
        LET w == reg[d].width
            Sum(r, n, m) == \A i \in 0 .. w - 1 : r.vec[i] = WordBit((n + m) % Pow[w], i)
        IN  w <= W /\ reg[s].width <= W =>
              /\ IF AllKnown(Synced(d)) /\ AllKnown(Synced(s))
                   THEN Clean(Synced(s)) =>
                          Sum(Add(Synced(d), Synced(s)), Num(Value(d), w), Num(Value(s), reg[s].width))
                   ELSE \A i \in 0 .. w - 1 : Bval(Add(Synced(d), Synced(s)).vec[i])
              /\ AllKnown(Synced(d)) =>
                   Sum(TwosComplimented(d),
                       IF d = connected THEN Num(Value(d), w) + 1 ELSE Pow[w] - Num(Value(d), w), 0)

\* Writing a slice of a register that is not connected changes the bits of the
\* slice and no other as long as all bits are known (an unknown one spoils its
\* word), reading one gives its bits, and a concatenation has the one operand above
\* the other; no unknown bit is turned into a 0 or a 1.
SliceSound ==
    \A d, s \in Names :
        LET exact == AllKnown(Synced(d)) /\ AllKnown(Synced(s))
        IN  /\ \A sl \in Slices(d) :
                  LET Part(r, n) == [i \in 0 .. n |-> r[i + sl[2]]]
                      Copied(i) == IF i - sl[2] < reg[s].width THEN Value(s)[i - sl[2]] ELSE "0"
                  IN  /\ Agrees(FromSlice(Synced(d), sl[1], sl[2]),
                                Part(Value(d), sl[1] - sl[2]), TRUE)
                      /\ d # connected /\ (sl[1] - sl[2] < reg[s].width \/ Clean(Synced(s))) =>
                           Agrees(SliceAssigned(Synced(d), sl[1], sl[2], Synced(s)),
                                  [i \in DOMAIN Value(d) |->
                                      IF i \in sl[2] .. sl[1] THEN Copied(i) ELSE Value(d)[i]],
                                  exact)
            /\ Agrees(Concat(Synced(d), Synced(s)),
                      [i \in 0 .. reg[d].width + reg[s].width - 1 |->
                          IF i < reg[s].width THEN Value(s)[i] ELSE Value(d)[i - reg[s].width]],
                      exact)

\* d has the value of the int n, which is not negative.
IsInt(d, n) ==
    /\ \A i \in DOMAIN Value(d) : Value(d)[i] = IF i < W THEN n[i] ELSE "0"
    /\ \A i \in 0 .. W - 1 : i >= reg[d].width => n[i] = "0"

\* Registers compare equal only if they have the same width and the same known
\* value, exactly equal if unknown bits agree too; and always then, if their
\* unused bits are clear.  A register of one word compares with an int likewise.
\* "make sure upper bits are set to zero" (FrSimReg.cpp:475) is not what the code
\* does for a wider one: it tests the low word again, so that the register equals
\* no int but 0, and that one whatever its upper words hold.
EqualExact ==
    /\ \A d, s \in Names :
        LET alike == Value(d) = Value(s)
            same == alike /\ \A i \in DOMAIN Value(d) : ~Bval(Value(d)[i])
        IN  /\ Equal(Synced(d), Synced(s)) => same
            /\ ExactlyEqual(Synced(d), Synced(s)) => alike
            /\ Clean(Synced(d)) /\ Clean(Synced(s)) =>
                  /\ same => Equal(Synced(d), Synced(s))
                  /\ alike => ExactlyEqual(Synced(d), Synced(s))
    /\ \A d \in Names : reg[d].width <= W /\ Clean(Synced(d)) =>
          \A n \in Ints : EqualInt(Synced(d), n) <=> IsInt(d, n)
    /\ \A d \in Names : reg[d].width > W =>
          \A n \in Ints : EqualInt(Synced(d), n) <=>
                              \A i \in 0 .. W - 1 : Value(d)[i] = "0" /\ n[i] = "0"

\* The hexadecimal literal that hexString writes for a register of whole digits
\* gives any register that value, truncated or padded, whatever it held before,
\* unless it has a z, and with all of a digit unknown that was so in part; and a
\* binary literal of at most a word does, too.
ReadsBack ==
    \A d, s \in Names :
        LET w == reg[s].width
            bits == [i \in 0 .. w - 1 |-> Value(s)[i]]
            IsRead(r, exact) ==
                Agrees(r, [i \in DOMAIN Value(d) |-> IF i < w THEN bits[i] ELSE "0"], exact)
        IN  /\ w % H = 0 /\ (\A i \in DOMAIN bits : bits[i] # "z") =>
                  IsRead(FromHex(Synced(d), w, hexString(Synced(s))), H = 1 \/ AllKnown(Synced(s)))
            /\ w <= W => IsRead(FromBinary(Synced(d), w, bits), TRUE)

\* rightShiftVecval assumes (FrSimReg.cpp:791) that unused bits are zero.
\* +=, &=, ^= and the assignment of an int leave bits there: it fails.
UnusedBitsClear == \A d \in Names : Clean(reg[d])

\* "Operators that modify this reg: call readSync() to start and writeSync()"
\* (FrSimReg.h:124): an operator that gives a connected register a value other
\* than its signal's drives the signal.  The bitwise ones, += and the
\* assignment to a slice do not: it fails.
SyncedAfterModify ==
    [][connected # NoName /\ reg'[connected] # reg[connected] /\ reg'[connected].vec # sim
          => Cleared(reg'[connected]).vec = sim']_vars
=============================================================================
