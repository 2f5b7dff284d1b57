-------------------------------- MODULE Fixed --------------------------------
(***************************************************************************)
(* Fixed of fixed.hpp: one signed integer, the lower half of whose bits is *)
(* behind the point.  Each step assigns to number, and exact holds what it *)
(* stands for, counted in the lowest bit, as long as that is known.  A     *)
(* double is given in halves of that bit.                                  *)
(***************************************************************************)
EXTENDS Integers

CONSTANTS Shift   \* bits behind the point, and before it

VARIABLES number, exact

fixedVars == <<number, exact>>

ShiftValue == 2 ^ Shift
Top == 2 ^ (2 * Shift - 1)
Int64s == -Top .. Top - 1
Integrals == -(ShiftValue \div 2) .. ShiftValue \div 2 - 1

\* The integer has so many bits, and division goes towards zero.
Wrapped(v) == ((v + Top) % (2 * Top)) - Top
Magnitude(n) == IF n < 0 THEN -n ELSE n
Truncated(n, d) == IF (n < 0) # (d < 0) THEN -(Magnitude(n) \div Magnitude(d)) ELSE Magnitude(n) \div Magnitude(d)
-----------------------------------------------------------------------------
\* set() of an integer, and of a double, to which the half that would round it
\* is added as an integer.
FromIntegral(t) == Wrapped(t * ShiftValue)
FromDouble(halves) == Truncated(halves + 2 * Truncated(IF halves >= 0 THEN 1 ELSE -1, 2), 2)

\* Mutant: the part behind the point is kept off the sign.
MutText(v) == [whole |-> Truncated(v, ShiftValue), fraction |-> v % ShiftValue]

\* operator<<, and setString(): what is behind the point is a number of its own.
Text(v) == [whole |-> v \div ShiftValue, fraction |-> v % ShiftValue]
setString(text) == Wrapped(text.whole * ShiftValue + text.fraction)

add(v, t) == Wrapped(v + t)
minus(v, t) == Wrapped(v - t)
multiply(v, t) == Wrapped(v * t)
div(v, t) == Wrapped(Truncated(v, t))
compare(v, t) == IF v < t THEN -1 ELSE IF v = t THEN 0 ELSE 1
castImpl(v) == Truncated(v, ShiftValue)

\* An operand becomes a Fixed first: [value, of], the bits it has then and what
\* it is.
Operands == {[value |-> v, of |-> v] : v \in {-Top, -ShiftValue - 1, -1, 0, 1, ShiftValue + 1, Top - 1}}
            \cup {[value |-> FromIntegral(t), of |-> t * ShiftValue] : t \in Integrals}
            \cup {[value |-> FromDouble(h), of |-> h \div 2] : h \in {-2 * ShiftValue, -6, 2, 2 * ShiftValue + 2}}
Texts == {Text(v) : v \in Int64s}
-----------------------------------------------------------------------------
FixedInit == number = 0 /\ exact = {0}

Becomes(v, e) == number' = v /\ exact' = e

Assign == \E x \in Operands : Becomes(x.value, {x.of})
AssignText == \E t \in Texts : Becomes(setString(t), {t.whole * ShiftValue + t.fraction})
\* operator+= and operator+.
Plus == \E x \in Operands : Becomes(add(number, x.value), {e + x.of : e \in exact} \cap Int64s)
Minus == \E x \in Operands : Becomes(minus(number, x.value), {e - x.of : e \in exact} \cap Int64s)
\* operator*, operator*= and operator/ multiply the integers, operator/= divides
\* them; nothing is shifted back.
Multiply == \E x \in Operands : Becomes(multiply(number, x.value), {})
Divide == \E x \in Operands : x.value # 0 /\ Becomes(div(number, x.value), {})

FixedNext == Assign \/ AssignText \/ Plus \/ Minus \/ Multiply \/ Divide
-----------------------------------------------------------------------------
FixedTypeOK == number \in Int64s /\ exact \subseteq Int64s

\* Whatever has been calculated, the number that is printed is read back as the
\* same one, also a negative one, whose fraction is printed upwards from the
\* next lower integer; sums are exact until they leave the range, and the order
\* is that of what the numbers stand for.  Not so: products and quotients, and a
\* text that was not printed by this class (fixed.hpp 135-347, 367-370).
FixedIsExact == /\ setString(Text(number)) = number
                /\ \A e \in exact :
                       /\ number = e
                       /\ castImpl(number) * ShiftValue \in e - ShiftValue + 1 .. e + ShiftValue - 1
                       /\ \A x \in Operands : (compare(number, x.value) = -1) = (e < x.of)
=============================================================================
