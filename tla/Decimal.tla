------------------------------- MODULE Decimal -------------------------------
(***************************************************************************)
(* Decimal of decimal.hpp: an integer and a fraction, the latter a number  *)
(* of parts.  Each step assigns to number, and exact holds what it stands  *)
(* for, in parts, as long as that is known.  A double is given in halves   *)
(* of a part.                                                              *)
(***************************************************************************)
EXTENDS Integers

CONSTANTS fractionLength,  \* parts of a whole
          MaxFixed         \* numbers grow no further

VARIABLES number, exact

decimalVars == <<number, exact>>

Decimals == [fixed : -MaxFixed .. MaxFixed, fraction : -fractionLength .. fractionLength]

Magnitude(n) == IF n < 0 THEN -n ELSE n
Truncated(n, d) == IF n < 0 THEN -(-n \div d) ELSE n \div d
Parts(d) == d.fixed * fractionLength + d.fraction
-----------------------------------------------------------------------------
\* set().
FromIntegral(t) == [fixed |-> t, fraction |-> 0]
FromDouble(halves) == LET whole == Truncated(halves, 2 * fractionLength)
                      IN [fixed |-> whole, fraction |-> Truncated(halves - whole * 2 * fractionLength, 2)]

\* Mutant: one is carried when the fraction gets as large as a whole, but the
\* fraction stays.
MutAdd(d, t) == LET fraction == d.fraction + t.fraction
                IN IF fraction > fractionLength THEN [fixed |-> d.fixed + t.fixed + 1, fraction |-> fractionLength]
                   ELSE [fixed |-> d.fixed + t.fixed, fraction |-> fraction]

\* add(): a fraction of exactly a whole is not carried.
add(d, t) == LET fraction == d.fraction + t.fraction
             IN IF fraction > fractionLength
                THEN [fixed |-> d.fixed + t.fixed + 1, fraction |-> fraction - fractionLength]
                ELSE [fixed |-> d.fixed + t.fixed, fraction |-> fraction]
\* minus(): what the fraction borrows is not taken from the integer; an integral
\* leaves the fraction alone, also one below zero.
Borrows(d, t, kind) == kind # "integral" /\ d.fraction < t.fraction
minus(d, t, kind) == [fixed |-> d.fixed - t.fixed,
                      fraction |-> d.fraction - t.fraction + (IF Borrows(d, t, kind) THEN fractionLength ELSE 0)]
\* multiply(): of a Decimal it is the number itself; of the others a sum.
multiply(d, t, kind) == IF kind = "Decimal" THEN d ELSE add(d, t)

compare(d, t) == LET order(a, b) == IF a = b THEN 0 ELSE IF a < b THEN -1 ELSE 1
                     fi == order(d.fixed, t.fixed)
                 IN IF fi = 0 THEN order(d.fraction, t.fraction) ELSE fi

Operands == {[kind |-> "Decimal", value |-> d] : d \in {x \in Decimals : x.fraction \in 0 .. fractionLength - 1 /\ x.fixed >= 0}}
            \cup {[kind |-> "integral", value |-> FromIntegral(t)] : t \in -MaxFixed .. MaxFixed}
            \cup {[kind |-> "double", value |-> FromDouble(h)] : h \in -2 * fractionLength .. 3 * fractionLength}
-----------------------------------------------------------------------------
DecimalInit == number = FromIntegral(0) /\ exact = {0}

Becomes(d, e) == /\ d \in Decimals
                 /\ number' = d /\ exact' = e

Assign == \E x \in Operands : Becomes(x.value, {Parts(x.value)})
Plus == \E x \in Operands : Becomes(add(number, x.value), {e + Parts(x.value) : e \in exact})
Minus == \E x \in Operands :
             Becomes(minus(number, x.value, x.kind),
                     {e - Parts(x.value) : e \in IF Borrows(number, x.value, x.kind) THEN {} ELSE exact})
Multiply == \E x \in Operands : Becomes(multiply(number, x.value, x.kind), {})

DecimalNext == Assign \/ Plus \/ Minus \/ Multiply
-----------------------------------------------------------------------------
DecimalTypeOK == number \in Decimals

\* A number keeps its value through any sums, and through the differences that
\* borrow nothing, also after its fraction has grown to a whole that was not
\* carried; numbers above zero compare as their values do unless one has such a
\* fraction (decimal.hpp 159-245).
DecimalIsExact ==
    \A e \in exact :
        /\ Parts(number) = e
        /\ \A x \in Operands :
               number.fraction \in 0 .. fractionLength - 1 /\ x.value.fraction \in 0 .. fractionLength - 1
                   => compare(number, x.value) = (IF e < Parts(x.value) THEN -1
                                                  ELSE IF e = Parts(x.value) THEN 0 ELSE 1)
=============================================================================
