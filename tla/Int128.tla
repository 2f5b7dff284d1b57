------------------------------- MODULE Int128 -------------------------------
(***************************************************************************)
(* int128 of int128.hpp: a signed number in two halves.  The model is in   *)
(* the width of a half, 64 in the code; that of a half of a half is the    *)
(* width of int32_t.  A signed half wraps as GCC compiles it.  A double is *)
(* an integer of few significant bits.                                     *)
(***************************************************************************)
EXTENDS Integers, Sequences

CONSTANTS W,         \* bits of a half, an even number
          Mantissa,  \* bits of a double behind its highest one
          Operands   \* right hand sides

VARIABLES lhs, op, rhs, result

int128Vars == <<lhs, op, rhs, result>>

Half == 2 ^ W
HighBit == 2 ^ (W - 1)
Word == 2 ^ (W \div 2)
Highs == -HighBit .. HighBit - 1
Lows == 0 .. Half - 1
Numbers == [high : Highs, low : Lows]

Signed(h) == ((h + HighBit) % Half) - HighBit
Unsigned(l) == l % Half
Int128(h, l) == [high |-> Signed(h), low |-> Unsigned(l)]

\* From the signed types, which extend the sign, and from the unsigned ones.
FromSigned(x) == Int128(IF x < 0 THEN -1 ELSE 0, x)
FromUnsigned(x) == Int128(0, x)

\* The number two halves stand for.
Value(x) == x.high * Half + x.low
Lowest == -(Half * HighBit)
Fits(v) == v \in Lowest .. Half * HighBit - 1

\* Assignment drops the sign.
Set(t) == Int128(0, t)

\* Casts: the low bits; the one to int64_t takes the sign bit of high.
ToUint64(x) == x.low
ToInt64(x) == (x.low % HighBit) - (IF x.high < 0 THEN HighBit ELSE 0)
ToInt(x) == ((x.low + Word \div 2) % Word) - (Word \div 2)
-----------------------------------------------------------------------------
(* Comparison *)
Less(x, y) == \/ x.high < y.high
              \/ x.high = y.high /\ x.low < y.low
LessEqual(x, y) == (x.high = y.high /\ x.low = y.low) \/ Less(x, y)
Equal(x, y) == x.high = y.high /\ x.low = y.low
NotEqual(x, y) == x.high # y.high \/ x.low # y.low
Greater(x, y) == \/ x.high > y.high
                 \/ x.high = y.high /\ x.low > y.low
GreaterEqual(x, y) == (x.high = y.high /\ x.low = y.low) \/ Greater(x, y)
-----------------------------------------------------------------------------
(* Addition and subtraction *)

\* Mutant: the carry is missed when the low half comes out as zero.
MutAdd(x, y) == LET low == Unsigned(x.low + y.low)
                IN Int128(x.high + y.high + (IF low < y.low /\ low # 0 THEN 1 ELSE 0), low)

\* A carry shows in a low half that is less than what was added.
Add(x, y) == LET low == Unsigned(x.low + y.low)
             IN Int128(x.high + y.high + (IF low < y.low THEN 1 ELSE 0), low)
\* For int64_t and int32_t a borrow comes first when they are negative; they are
\* compared as unsigned numbers.
AddSigned(x, r) == LET low == Unsigned(x.low + r)
                   IN Int128((IF r < 0 THEN x.high - 1 ELSE x.high) + (IF low < Unsigned(r) THEN 1 ELSE 0), low)
AddUnsigned(x, r) == LET low == Unsigned(x.low + r)
                     IN Int128(x.high + (IF low < r THEN 1 ELSE 0), low)

Sub(x, y) == LET low == Unsigned(x.low - y.low)
             IN Int128(x.high - y.high - (IF low > x.low THEN 1 ELSE 0), low)
Negate(x) == LET low == Unsigned(Half - 1 - x.low + 1)
             IN Int128(-x.high - 1 + (IF low = 0 THEN 1 ELSE 0), low)
-----------------------------------------------------------------------------
(* Multiplication and division *)
int128_shr(x) == Int128(x.high \div 2, x.low \div 2 + (x.high % 2) * HighBit)
int128_shl(x) == Int128(2 * x.high + x.low \div HighBit, 2 * x.low)

\* mult1(): the four words of each, summed up by columns in unsigned halves.
mult1(xi, yi) ==
    LET Lo(h) == Unsigned(h) % Word
        Hi(h) == Unsigned(h) \div Word
        d == Lo(xi.low)   c == Hi(xi.low)   b == Lo(xi.high)   a == Hi(xi.high)
        h == Lo(yi.low)   g == Hi(yi.low)   f == Lo(yi.high)   e == Hi(yi.high)
        \* a sum and the carries of the column so far
        Plus(s, p) == LET acc == Unsigned(s.acc + p)
                      IN [acc |-> acc, carry |-> s.carry + (IF acc < s.acc THEN 1 ELSE 0)]
        Next(s) == [acc |-> Unsigned(s.acc \div Word + s.carry * Word), carry |-> 0]
        first == d * h
        column2 == Plus(Plus([acc |-> first \div Word, carry |-> 0], c * h), d * g)
        column3 == Plus(Plus(Plus(Next(column2), b * h), c * g), d * f)
        column4 == Plus(Plus(Plus(Plus(Next(column3), a * h), b * g), c * f), d * e)
    IN Int128(column4.acc * Word + (column3.acc % Word), (first % Word) + column2.acc * Word)

\* div1() behind the signs: multiples of d, doubled while they go into x, are
\* taken from x on the way back.
RECURSIVE Doubled(_, _, _), Halved(_, _, _, _)
Doubled(x, d1, p2) == IF GreaterEqual(x, d1) THEN Doubled(Sub(x, d1), Add(d1, d1), Add(p2, p2))
                      ELSE [x |-> Add(x, d1), d1 |-> d1, p2 |-> p2]
Halved(x, d1, p2, rv) ==
    IF Equal(p2, FromSigned(0)) THEN [quotient |-> rv, rest |-> x]
    ELSE LET goes == GreaterEqual(x, d1)
         IN Halved(IF goes THEN Sub(x, d1) ELSE x, int128_shr(d1), int128_shr(p2),
                   IF goes THEN Add(rv, p2) ELSE rv)
div1(x, d) ==
    LET zero == FromSigned(0)
        px == IF Less(x, zero) THEN Negate(x) ELSE x
        pd == IF Less(d, zero) THEN Negate(d) ELSE d
        up == Doubled(Sub(px, pd), pd, FromSigned(1))
        rv == IF Equal(pd, FromSigned(1)) THEN px
              ELSE IF Less(px, pd) THEN zero
              ELSE Halved(up.x, up.d1, up.p2, zero).quotient
    IN IF Less(x, zero) # Less(d, zero) THEN Negate(rv) ELSE rv
Modulo(x, d) == Sub(x, mult1(d, div1(x, d)))

\* pow(): one factor more for each round; a power below one is that of one.
RECURSIVE Times(_, _, _)
Times(r, x, t) == IF Greater(t, FromSigned(1)) THEN Times(mult1(r, x), x, Sub(t, FromSigned(1))) ELSE r
Pow(x, t) == LET negative == Less(x, FromSigned(0))
                 r == Times(IF negative THEN mult1(x, FromSigned(-1)) ELSE x, x, t)
             IN IF negative THEN mult1(r, FromSigned(-1)) ELSE r
-----------------------------------------------------------------------------
(* Text and doubles *)

\* int128_str(): "-" and the digits, as many as powers of ten go into x.
TenTimes(p) == LET two == Add(p, p) eight == Add(Add(two, two), Add(two, two))
               IN [p10 |-> Add(eight, two),
                   going |-> \A q \in {two, Add(two, two), eight, Add(eight, two)} : ~Less(q, FromSigned(0))]
RECURSIVE DigitCount(_, _, _), Power(_), DigitOf(_, _), DigitsOf(_, _)
DigitCount(x, p10, going) ==
    IF LessEqual(p10, x) /\ going THEN 1 + DigitCount(x, TenTimes(p10).p10, TenTimes(p10).going) ELSE 0
Power(n) == IF n = 0 THEN FromSigned(1) ELSE TenTimes(Power(n - 1)).p10
DigitOf(x, p10) == IF GreaterEqual(x, p10) THEN 1 + DigitOf(Sub(x, p10), p10) ELSE 0
DigitsOf(x, nd) ==
    IF nd = 0 THEN <<>>
    ELSE LET d == DigitOf(x, Power(nd - 1))
         IN <<d>> \o DigitsOf(Sub(x, mult1(FromSigned(d), Power(nd - 1))), nd - 1)
int128_str(x) ==
    LET px == IF Less(x, FromSigned(0)) THEN Negate(x) ELSE x
    IN [minus |-> Less(x, FromSigned(0)),
        digits |-> IF Equal(px, FromSigned(0)) THEN <<0>> ELSE DigitsOf(px, DigitCount(px, FromSigned(1), TRUE))]

\* int128(double): the mantissa is shifted into place from half a low half on;
\* a shift by a whole half is undefined and leaves the mantissa or nothing.
Doubles == {x \in -(Half * Half) .. Half * Half :
                \E m \in 0 .. 2 ^ (Mantissa + 1) - 1, e \in 0 .. 2 * W : x \in {m * 2 ^ e, -m * 2 ^ e}}
FromDouble(x) ==
    LET p == IF x < 0 THEN -x ELSE x
        t == CHOOSE e \in 0 .. 2 * W : 2 ^ (e + Mantissa) <= p /\ p < 2 ^ (e + Mantissa + 1)
        m == p \div 2 ^ t
        Shifted == IF t > W THEN {[h |-> m * 2 ^ (t - W), l |-> 0]}
                   ELSE IF t = W THEN {[h |-> h, l |-> l] : h \in {m}, l \in {0, m}}
                   ELSE {[h |-> m \div 2 ^ (W - t), l |-> m * 2 ^ t]}
    IN IF x < -(Half * HighBit) THEN {Int128(HighBit, 0)}
       ELSE IF x < -HighBit THEN {Int128(-s.h - 1, Half - 1 - Unsigned(s.l)) : s \in Shifted}
       ELSE IF x < HighBit THEN {FromSigned(x)}
       ELSE IF x < Half * HighBit THEN {Int128(s.h, s.l) : s \in Shifted}
       ELSE {Int128(HighBit - 1, Half - 1)}
\* operator double(), before it is rounded: the low half of a negative number
\* keeps its sign.
ToDouble(x) == IF x.high >= 0 THEN x.high * Half + x.low
               ELSE LET n == Negate(x) IN -n.high * Half + n.low
-----------------------------------------------------------------------------
Int128Init == /\ lhs \in Numbers
              /\ op = "none" /\ rhs = 0 /\ result = 0

\* One operation on each pair; += and the others assign what these return.
Calculates(name, r, outcome) == op' = name /\ rhs' = r /\ result' = outcome /\ UNCHANGED lhs
Number(v) == Int128(v \div Half, v)

\* A division by zero traps, and one by the lowest number never ends: doubled,
\* it is zero.
WithNumber == \E v \in Operands :
    \/ Calculates("+", v, Add(lhs, Number(v)))
    \/ Calculates("-", v, Sub(lhs, Number(v)))
    \/ Calculates("*", v, mult1(lhs, Number(v)))
    \/ v \notin {0, Lowest} /\ Calculates("/", v, div1(lhs, Number(v)))
    \/ v \notin {0, Lowest} /\ Calculates("%", v, Modulo(lhs, Number(v)))
WithSigned == \E r \in Highs :
    \/ Calculates("+", r, AddSigned(lhs, r))
    \/ Calculates("+", r, Add(FromSigned(r), lhs))
    \/ Calculates("-", r, Sub(lhs, FromSigned(r)))
    \/ r \in -1 .. 4 /\ Calculates("pow", r, Pow(lhs, FromSigned(r)))
WithUnsigned == \E r \in Lows :
    \/ Calculates("+", r, AddUnsigned(lhs, r))
    \/ Calculates("*", r, mult1(lhs, FromUnsigned(r)))
    \/ r # 0 /\ Calculates("/", r, div1(lhs, FromUnsigned(r)))
Compare == \E v \in Operands : Calculates("compare", v,
    [op_lt |-> Less(lhs, Number(v)), op_le |-> LessEqual(lhs, Number(v)), op_eq |-> Equal(lhs, Number(v)),
     op_ne |-> NotEqual(lhs, Number(v)), op_gt |-> Greater(lhs, Number(v)), op_ge |-> GreaterEqual(lhs, Number(v))])
Alone == \/ Calculates("negate", 0, Negate(lhs))
         \/ Calculates("text", 0, int128_str(lhs))
         \/ Calculates("shl", 0, int128_shl(lhs))
         \/ Calculates("casts", 0, <<ToInt64(lhs), ToUint64(lhs), ToInt(lhs), ToDouble(lhs)>>)
         \/ \E x \in Highs : Calculates("=", x, Set(x))
         \/ \E x \in Doubles : \E n \in FromDouble(x) : Calculates("double", x, n)

Int128Next == op = "none" /\ (WithNumber \/ WithSigned \/ WithUnsigned \/ Compare \/ Alone)
-----------------------------------------------------------------------------
Int128TypeOK == /\ lhs \in Numbers
                /\ op \in {"+", "-", "*", "/", "%", "pow", "=", "double", "negate", "shl"} => result \in Numbers

\* What the integers give; division goes towards zero.
Abs(v) == IF v < 0 THEN -v ELSE v
Quotient(x, y) == IF (x < 0) # (y < 0) THEN -(Abs(x) \div Abs(y)) ELSE Abs(x) \div Abs(y)
Power10(digits) == LET P[n \in 0 .. Len(digits)] == IF n = 0 THEN 0 ELSE 10 * P[n - 1] + digits[n]
                   IN P[Len(digits)]
Is(v) == Fits(v) => Value(result) = v

\* Every operator gives what the integers give, when that fits: the carries
\* between the halves and the words, the borrow of a negative int64_t, the
\* doubling loop of the division at the highest numbers.  Not so: the lowest
\* number, whose negative is itself, is divided as if it were none and has no
\* text; a power below one; an assigned negative number; a double that is
\* negative and large, or whose mantissa falls on the upper half; a negative
\* number as a double (int128.hpp 80-325, 427-875).
Int128IsExact ==
    LET x == Value(lhs)
    IN CASE op = "+" -> Is(x + rhs)
         [] op = "-" -> Is(x - rhs)
         [] op = "*" -> Is(x * rhs)
         [] op = "/" -> x # Lowest => Value(result) = Quotient(x, rhs)
         [] op = "%" -> x # Lowest => Value(result) = x - rhs * Quotient(x, rhs)
         [] op = "pow" -> rhs >= 1 => Is(x ^ rhs)
         [] op = "negate" -> x # Lowest => Value(result) = -x
         [] op = "shl" -> Is(2 * x)
         [] op = "=" -> rhs >= 0 => Value(result) = rhs
         [] op = "double" -> Is(rhs) \/ rhs < -HighBit \/ rhs \in 2 ^ (W + Mantissa) .. 2 ^ (W + Mantissa + 1) - 1
         [] op = "compare" -> result = [op_lt |-> x < rhs, op_le |-> x <= rhs, op_eq |-> x = rhs,
                                        op_ne |-> x # rhs, op_gt |-> x > rhs, op_ge |-> x >= rhs]
         [] op = "text" -> x # Lowest => /\ result.minus = (x < 0)
                                         /\ Power10(result.digits) = Abs(x)
                                         /\ result.digits # <<>> /\ (result.digits[1] = 0 => x = 0)
         [] op = "casts" -> /\ x \in Highs => result[1] = x
                            /\ x \in Lows => result[2] = x
                            /\ x \in -(Word \div 2) .. Word \div 2 - 1 => result[3] = x
                            /\ x >= 0 => result[4] = x
         [] OTHER -> TRUE
=============================================================================
