------------------------------ MODULE BigInt ------------------------------
(***************************************************************************)
(* Mouse::bigint (src/bigint/bigint.h, bigint.cpp): a sign_ (0 plus, 1     *)
(* minus) and num_, the decimal digits least significant first.  A value   *)
(* is the record [sign, num], num[i + 1] holding num_[i].  The operators   *)
(* translate the library's functions; operator< reads past the end of      *)
(* num_ when the top digits are equal (++i where --i was meant), which is  *)
(* undefined behaviour: the bytes read decide, so its result is any        *)
(* boolean.  The operators that can reach it return the set of their       *)
(* possible results, Crash among them when the recursion between        *)
(* operator- calls goes deeper than the stack allows (MaxDepth).           *)
(* Below the operators, a client holds values in registers and applies    *)
(* the operations to them, next to the integers the registers should hold.*)
(***************************************************************************)
EXTENDS Integers, Sequences

CONSTANTS
    IntBits,   \* width of int
    MaxDepth,  \* nested operator- calls before the stack overflows
    Regs,      \* the client's bigint variables
    Inputs,    \* ints the client constructs bigints from
    Strings,   \* strings the client reads, as tuples of one-char strings
    Ops,       \* the operations the client calls, among those below
    MaxVal     \* bound on the magnitude of the integers the client computes

-----------------------------------------------------------------------------
(* Reference: the integer a value denotes.                                *)

RECURSIVE Magnitude(_)
Magnitude(num) == IF num = <<>> THEN 0 ELSE Head(num) + 10 * Magnitude(Tail(num))

Val(b) == IF b.sign = 1 THEN -Magnitude(b.num) ELSE Magnitude(b.num)

-----------------------------------------------------------------------------
(* The library                                                             *)

\* bigint(): sign_ 0, num_ one zero digit; also what bigint(0) builds.
Zero == [sign |-> 0, num |-> <<0>>]

\* C's / and % on int: the quotient truncated toward zero.
CDiv(a, b) == IF a >= 0 THEN a \div b ELSE -((-a) \div b)
CMod(a, b) == a - b * CDiv(a, b)

\* -rhs on int: -INT_MIN overflows; the two's complement build gives
\* INT_MIN back (written as -2^(w-2) - 2^(w-2) to stay within TLC's ints).
IntNeg(n) == IF n = -(2^(IntBits - 2)) - 2^(IntBits - 2) THEN n ELSE -n

\* The do-while of bigint(int): push rhs % 10, rhs /= 10, while rhs.
RECURSIVE IntDigits(_)
IntDigits(n) ==
    <<CMod(n, 10)>> \o (IF CDiv(n, 10) = 0 THEN <<>> ELSE IntDigits(CDiv(n, 10)))

\* bigint(int rhs), lines 7-20.
FromInt(n) ==
    [sign |-> IF n < 0 THEN 1 ELSE 0,
     num |-> IntDigits(IF n < 0 THEN IntNeg(n) ELSE n)]

DigitChars == {"0", "1", "2", "3", "4", "5", "6", "7", "8", "9"}
DigitOf == [c \in DigitChars |->
              CHOOSE d \in 0 .. 9 :
                 <<"0", "1", "2", "3", "4", "5", "6", "7", "8", "9">>[d + 1] = c]

\* bigint(const std::string&) throws invalid_argument: a non-digit other
\* than a '-' in front.
Throws(s) == \E i \in 1 .. Len(s) : s[i] \notin DigitChars /\ ~(i = 1 /\ s[i] = "-")

\* bigint(const std::string&), lines 22-40, for a non-empty string that
\* does not throw: the characters from the back are the digits, a '-' in
\* front the sign.  Leading zeros are kept.
FromString(s) ==
    LET neg == s[1] = "-"
        digits == IF neg THEN Tail(s) ELSE s
    IN  [sign |-> IF neg THEN 1 ELSE 0,
         num |-> [i \in 1 .. Len(digits) |-> DigitOf[digits[Len(digits) + 1 - i]]]]

\* operator== and operator!=, lines 71-82: sign_ and num_ both equal.
Eq(a, b) == a.sign = b.sign /\ a.num = b.num

\* bigint::operator-() (bigint.h lines 32-38): flips the sign of a value
\* other than bigint(0).
Neg(b) == IF Eq(b, Zero) THEN b ELSE [b EXCEPT !.sign = 1 - b.sign]

\* The outcome of a call that overflows the stack, shaped as a value so
\* that sets of outcomes compare.
Crash == [sign |-> 2, num |-> <<>>]

NegAll(S) == {IF x = Crash THEN x ELSE Neg(x) : x \in S}

\* operator<, lines 84-120: the signs, then the lengths, then the loop from
\* the top digit, which moves up (++i): a tie on the top digit reads
\* num_[llen], past the end.  Both negative inverts the answer.
LessSet(a, b) ==
    IF a.sign = 0 /\ b.sign = 1 THEN {FALSE}
    ELSE IF a.sign = 1 /\ b.sign = 0 THEN {TRUE}
    ELSE LET la == Len(a.num)
             lb == Len(b.num)
             rnt == IF la > lb THEN {FALSE}
                    ELSE IF la < lb THEN {TRUE}
                    ELSE IF la = 0 THEN {FALSE}
                    ELSE IF a.num[la] # b.num[la] THEN {a.num[la] < b.num[la]}
                    ELSE BOOLEAN
         IN  IF a.sign = 1 /\ b.sign = 1 THEN {~r : r \in rnt} ELSE rnt

\* operator>, lines 122-125: !(lhs < rhs).
GreaterSet(a, b) == {~r : r \in LessSet(a, b)}

\* The carry loop of operator+ and operator*: each digit takes the carry,
\* keeps % 10 and passes / 10 on; a carry left over is pushed as it is.
RECURSIVE Carry(_, _)
Carry(s, c) ==
    IF s = <<>> THEN (IF c > 0 THEN <<c>> ELSE <<>>)
    ELSE <<(Head(s) + c) % 10>> \o Carry(Tail(s), (Head(s) + c) \div 10)

\* The borrow loop of operator-, lines 187-195: borrow is set to 1 by a
\* negative digit and never set back to 0.
RECURSIVE Borrow(_, _)
Borrow(s, borrow) ==
    IF s = <<>> THEN <<>>
    ELSE IF Head(s) - borrow < 0
         THEN <<Head(s) - borrow + 10>> \o Borrow(Tail(s), 1)
         ELSE <<Head(s) - borrow>> \o Borrow(Tail(s), borrow)

\* Lines 197-201: drop the zero digits above the highest non-zero one,
\* keeping at least num_[0].
Trim(s) ==
    LET nz == {i \in 2 .. Len(s) : s[i] # 0}
    IN  SubSeq(s, 1, IF nz = {} THEN 1 ELSE CHOOSE i \in nz : \A j \in nz : j <= i)

\* Digit i of num, 0 past its end.
DigitAt(num, i) == IF i <= Len(num) THEN num[i] ELSE 0

\* operator+ and operator-, lines 127-207, with the depth of nested
\* operator- calls d.  operator- reaches its digit loop only when its lhs
\* is at least as long as its rhs (the branches before see to it).
RECURSIVE AddSet(_, _, _), SubSet(_, _, _)
AddSet(a, b, d) ==
    IF a.sign = 0 /\ b.sign = 1 THEN SubSet(a, Neg(b), d)
    ELSE IF b.sign = 0 /\ a.sign = 1 THEN SubSet(b, Neg(a), d)
    ELSE LET len == IF Len(a.num) > Len(b.num) THEN Len(a.num) ELSE Len(b.num)
             sum == [sign |-> 0,
                     num |-> Carry([i \in 1 .. len |->
                                     DigitAt(a.num, i) + DigitAt(b.num, i)], 0)]
         IN  {IF a.sign = 1 /\ b.sign = 1 THEN Neg(sum) ELSE sum}

SubSet(a, b, d) ==
    IF d = 0 THEN {Crash}
    ELSE IF a.sign = 0 /\ b.sign = 1 THEN AddSet(a, Neg(b), d)
    ELSE IF b.sign = 0 /\ a.sign = 1 THEN NegAll(AddSet(b, Neg(a), d))
    ELSE LET diff == [sign |-> a.sign,
                      num |-> Trim(Borrow([i \in 1 .. Len(a.num) |->
                                              a.num[i] - DigitAt(b.num, i)], 0))]
             digitLoop == {IF a.sign = 1 /\ b.sign = 1 THEN Neg(diff) ELSE diff}
             \* lhs.sign_ == 0 && lhs < rhs, else lhs.sign_ == 1 && rhs < lhs
             swap == IF a.sign = 0 THEN LessSet(a, b) ELSE LessSet(b, a)
         IN  (IF TRUE \in swap THEN NegAll(SubSet(b, a, d - 1)) ELSE {})
             \cup (IF FALSE \in swap THEN digitLoop ELSE {})

\* The column sums of operator*'s double loop, lines 222-229.
Column(a, b, k) ==
    LET S[i \in 0 .. Len(a)] ==
            IF i = 0 THEN 0
            ELSE S[i - 1] + (IF k - i + 1 \in 1 .. Len(b) THEN a[i] * b[k - i + 1] ELSE 0)
    IN  S[Len(a)]

\* operator*, lines 209-247: zero if either is bigint(0); else the column
\* sums carried; minus when the signs differ.
Mul(a, b) ==
    IF Eq(a, Zero) \/ Eq(b, Zero) THEN Zero
    ELSE [sign |-> IF a.sign # b.sign THEN 1 ELSE 0,
          num |-> Carry([k \in 1 .. Len(a.num) + Len(b.num) - 1 |->
                            Column(a.num, b.num, k)], 0)]

-----------------------------------------------------------------------------
(* A client: bigint variables Regs, the integers they should hold (ref),  *)
(* and the answers of the last comparison next to the integer ones.       *)

VARIABLES
    reg,      \* the bigint variables
    ref,      \* the integer each should hold
    answer,   \* [eq, ne, lt, gt] of the last comparison, or <<>>
    expect,   \* the same comparisons on the integers
    crashed   \* the program died (stack overflow in operator-)

vars == <<reg, ref, answer, expect, crashed>>

TypeOK ==
    /\ \A r \in Regs : reg[r].sign \in {0, 1} /\ reg[r].num \in Seq(Int)
    /\ ref \in [Regs -> -MaxVal .. MaxVal]
    /\ answer \in {<<>>} \cup [eq : BOOLEAN, ne : BOOLEAN, lt : BOOLEAN, gt : BOOLEAN]
    /\ expect \in {<<>>} \cup [eq : BOOLEAN, ne : BOOLEAN, lt : BOOLEAN, gt : BOOLEAN]
    /\ crashed \in BOOLEAN

\* bigint x; for every variable.
Init ==
    /\ reg = [r \in Regs |-> Zero]
    /\ ref = [r \in Regs |-> 0]
    /\ answer = <<>> /\ expect = <<>>
    /\ crashed = FALSE

\* Store out (or die with it) in register t, which should hold want.
Store(t, out, want) ==
    /\ IF out = Crash
       THEN crashed' = TRUE /\ UNCHANGED <<reg, ref>>
       ELSE /\ reg' = [reg EXCEPT ![t] = out]
            /\ ref' = [ref EXCEPT ![t] = want]
            /\ UNCHANGED crashed
    /\ UNCHANGED <<answer, expect>>

\* t = n: operator=(bigint(n)), lines 42-48.
Assign(t, n) ==
    /\ ~crashed /\ n \in -MaxVal .. MaxVal
    /\ Store(t, FromInt(n), n)

\* The integer a decimal string denotes, read from the front.
RECURSIVE Decimal(_)
Decimal(d) == IF d = <<>> THEN 0
              ELSE 10 * Decimal(SubSeq(d, 1, Len(d) - 1)) + DigitOf[d[Len(d)]]

StrVal(s) == IF s[1] = "-" THEN -Decimal(Tail(s)) ELSE Decimal(s)

\* is >> t: operator>>, lines 61-69; a string that throws leaves t as it was.
Read(t, s) ==
    /\ ~crashed /\ "read" \in Ops /\ ~Throws(s)
    /\ StrVal(s) \in -MaxVal .. MaxVal
    /\ Store(t, FromString(s), StrVal(s))

\* The integer result of an operation.
IntOp(op, x, y) ==
    CASE op = "add" -> x + y
      [] op = "sub" -> x - y
      [] op = "mul" -> x * y

\* The bigint results it can give.
BigOp(op, a, b) ==
    CASE op = "add" -> AddSet(a, b, MaxDepth)
      [] op = "sub" -> SubSet(a, b, MaxDepth)
      [] op = "mul" -> {Mul(a, b)}

\* t = x op y.
Arith(op, t, x, y) ==
    /\ ~crashed /\ op \in Ops
    /\ IntOp(op, ref[x], ref[y]) \in -MaxVal .. MaxVal
    /\ \E out \in BigOp(op, reg[x], reg[y]) :
          Store(t, out, IntOp(op, ref[x], ref[y]))

\* t = -x: bigint::operator-().
Negate(t, x) ==
    /\ ~crashed /\ "neg" \in Ops
    /\ Store(t, Neg(reg[x]), -ref[x])

\* x == y, x != y, x < y, x > y.
Compare(x, y) ==
    /\ ~crashed /\ "cmp" \in Ops
    /\ \E lt \in LessSet(reg[x], reg[y]), gt \in GreaterSet(reg[x], reg[y]) :
          answer' = [eq |-> Eq(reg[x], reg[y]), ne |-> ~Eq(reg[x], reg[y]),
                     lt |-> lt, gt |-> gt]
    /\ expect' = [eq |-> ref[x] = ref[y], ne |-> ref[x] # ref[y],
                  lt |-> ref[x] < ref[y], gt |-> ref[x] > ref[y]]
    /\ UNCHANGED <<reg, ref, crashed>>

Next ==
    \/ \E t \in Regs, n \in Inputs : Assign(t, n)
    \/ \E t \in Regs, s \in Strings : Read(t, s)
    \/ \E op \in {"add", "sub", "mul"}, t, x, y \in Regs : Arith(op, t, x, y)
    \/ \E t, x \in Regs : Negate(t, x)
    \/ \E x, y \in Regs : Compare(x, y)

Spec == Init /\ [][Next]_vars

-----------------------------------------------------------------------------
(* Properties                                                              *)

\* Every bigint variable holds the integer that integer arithmetic gives for
\* the same constructions, reads, +, -, * and unary - (bigint.cpp), and the
\* last ==, !=, < and > answered as the integers compare.
ResultsAgree ==
    /\ \A r \in Regs : Val(reg[r]) = ref[r]
    /\ answer = expect
====
