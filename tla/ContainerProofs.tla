--------------------------- MODULE ContainerProofs ---------------------------
(***************************************************************************)
(* What is proved of Fector, Fap and marble's client, for every capacity   *)
(* and key set: Fector implements a bounded sequence, Fap a map, and what  *)
(* a request returns is the reply to it.                                   *)
(***************************************************************************)
EXTENDS SequentialProofs
-----------------------------------------------------------------------------
(***************************************************************************)
(* Fector                                                                  *)
(***************************************************************************)
\* The first n places of an array as a sequence.
FirstOf(s, n) == [i \in 1..n |-> s[i - 1]]
Repeated(v, n) == [i \in 1..n |-> v]
Arrays == [0..Capacity -> Values]

VectorInv == /\ slots \in Arrays /\ idx \in 0..(Capacity + 1)
             /\ threw \in BOOLEAN /\ outside \in BOOLEAN
             /\ idx > Capacity => outside

LEMMA FirstOfProperties ==
    ASSUME NEW s \in Arrays, NEW n \in 0..Capacity
    PROVE  /\ FirstOf(s, n) \in Seq(Values) /\ Len(FirstOf(s, n)) = n
           /\ DOMAIN FirstOf(s, n) = 1..n
           /\ \A i \in 1..n : FirstOf(s, n)[i] = s[i - 1]
  <1>1. n \in Nat /\ n <= Capacity
    BY VectorAssumption
  <1>2. \A i \in 1..n : s[i - 1] \in Values
    <2> SUFFICES ASSUME NEW i \in 1..n PROVE s[i - 1] \in Values
      OBVIOUS
    <2>1. i - 1 \in 0..Capacity
      BY <1>1, VectorAssumption
    <2> QED
      BY <2>1 DEF Arrays
  <1>3. FirstOf(s, n) \in [1..n -> Values]
    BY <1>2 DEF FirstOf
  <1>4. FirstOf(s, n) \in Seq(Values) /\ DOMAIN FirstOf(s, n) = 1..n
    BY <1>1, <1>3, SeqDef
  <1>5. Len(FirstOf(s, n)) = n
    BY <1>1, <1>4, LenProperties
  <1> QED
    BY <1>4, <1>5 DEF FirstOf

\* What a step of the array is for the sequence.
LEMMA GrownSequence ==
    ASSUME NEW s \in Arrays, NEW t \in Arrays, NEW n \in 0..Capacity, NEW m \in 0..Capacity,
           n <= m, NEW v \in Values,
           \A p \in 0..(m - 1) : t[p] = IF p < n THEN s[p] ELSE v
    PROVE  FirstOf(t, m) = FirstOf(s, n) \o Repeated(v, m - n)
  <1> DEFINE x == FirstOf(s, n)
             y == FirstOf(t, m)
             more == Repeated(v, m - n)
  <1>1. n \in Nat /\ m \in Nat /\ m - n \in Nat
    BY VectorAssumption
  <1>2. /\ x \in Seq(Values) /\ Len(x) = n /\ \A i \in 1..n : x[i] = s[i - 1]
        /\ y \in Seq(Values) /\ Len(y) = m /\ \A i \in 1..m : y[i] = t[i - 1]
    BY FirstOfProperties
  <1>3. more \in Seq(Values) /\ Len(more) = m - n /\ \A i \in 1..(m - n) : more[i] = v
    <2>1. more \in [1..(m - n) -> Values]
          /\ \A i \in 1..(m - n) : more[i] = v
      BY DEF Repeated
    <2>2. more \in Seq(Values)
      BY <1>1, <2>1, SeqDef
    <2>3. DOMAIN more = 1..Len(more) /\ DOMAIN more = 1..(m - n) /\ Len(more) \in Nat
      <3>1. DOMAIN more = 1..Len(more) /\ Len(more) \in Nat
        BY <2>2, LenProperties
      <3>2. DOMAIN more = 1..(m - n)
        BY DEF Repeated
      <3> QED
        BY <3>1, <3>2
    <2> HIDE DEF more
    <2>4. Len(more) = m - n
      BY <1>1, <2>3
    <2> QED
      BY <2>1, <2>2, <2>4
  <1> HIDE DEF x, y, more
  <1>4. /\ x \o more \in Seq(Values) /\ Len(x \o more) = m
        /\ \A i \in 1..m : (x \o more)[i] = IF i <= n THEN x[i] ELSE more[i - n]
    <2>1. /\ x \o more \in Seq(Values) /\ Len(x \o more) = Len(x) + Len(more)
          /\ \A i \in 1..(Len(x) + Len(more)) :
                (x \o more)[i] = IF i <= Len(x) THEN x[i] ELSE more[i - Len(x)]
      BY <1>2, <1>3, ConcatProperties, SMTT(60)
    <2>2. Len(x) + Len(more) = m
      BY <1>1, <1>2, <1>3
    <2> QED
      BY <1>2, <2>1, <2>2
  <1>5. ASSUME NEW i \in 1..m PROVE y[i] = (x \o more)[i]
    <2>1. i - 1 \in 0..(m - 1) /\ y[i] = t[i - 1] /\ i - 1 \in Nat
      BY <1>1, <1>2
    <2>2. CASE i <= n
      <3>1. i \in 1..n /\ i - 1 < n
        BY <1>1, <2>2
      <3> QED
        BY <1>2, <1>4, <2>1, <2>2, <3>1
    <2>3. CASE ~(i <= n)
      <3>1. i - n \in 1..(m - n) /\ ~(i - 1 < n)
        BY <1>1, <2>3
      <3> QED
        BY <1>3, <1>4, <2>1, <2>3, <3>1
    <2> QED
      BY <2>2, <2>3
  <1>6. y = x \o more
    BY <1>2, <1>4, <1>5, SeqEqual
  <1> QED
    BY <1>6 DEF x, y, more

LEMMA ShrunkSequence ==
    ASSUME NEW s \in Arrays, NEW t \in Arrays, NEW n \in 0..Capacity, NEW k \in 0..n,
           NEW i \in 0..(n - k),
           \A p \in 0..(n - k - 1) : t[p] = IF p < i THEN s[p] ELSE s[p + k]
    PROVE  FirstOf(t, n - k) = SubSeq(FirstOf(s, n), 1, i)
                               \o SubSeq(FirstOf(s, n), i + k + 1, Len(FirstOf(s, n)))
  <1> DEFINE x == FirstOf(s, n)
             y == FirstOf(t, n - k)
             front == SubSeq(x, 1, i)
             back == SubSeq(x, i + k + 1, n)
  <1>1. n \in Nat /\ k \in Nat /\ n - k \in 0..Capacity /\ n - k \in Nat /\ i \in Nat /\ i <= n - k
        /\ n <= Capacity
    BY VectorAssumption
  <1>2. /\ x \in Seq(Values) /\ Len(x) = n /\ \A j \in 1..n : x[j] = s[j - 1]
        /\ y \in Seq(Values) /\ Len(y) = n - k /\ \A j \in 1..(n - k) : y[j] = t[j - 1]
    BY <1>1, FirstOfProperties
  <1> HIDE DEF x, y
  <1>3. front \in Seq(Values) /\ Len(front) = i /\ \A j \in 1..i : front[j] = x[j]
    BY <1>1, <1>2
  <1>4. /\ back \in Seq(Values) /\ Len(back) = n - k - i
        /\ \A j \in 1..(n - k - i) : back[j] = x[i + k + j]
    BY <1>1, <1>2
  <1> HIDE DEF front, back
  <1>5. /\ front \o back \in Seq(Values) /\ Len(front \o back) = n - k
        /\ \A j \in 1..(n - k) : (front \o back)[j] = IF j <= i THEN front[j] ELSE back[j - i]
    <2>1. /\ front \o back \in Seq(Values) /\ Len(front \o back) = Len(front) + Len(back)
          /\ \A j \in 1..(Len(front) + Len(back)) :
                (front \o back)[j] = IF j <= Len(front) THEN front[j] ELSE back[j - Len(front)]
      BY <1>3, <1>4, ConcatProperties, ZenonT(60)
    <2>2. Len(front) + Len(back) = n - k
      BY <1>1, <1>3, <1>4
    <2> QED
      BY <1>3, <2>1, <2>2
  <1>6. ASSUME NEW j \in 1..(n - k) PROVE y[j] = (front \o back)[j]
    <2>1. j - 1 \in 0..(n - k - 1) /\ y[j] = t[j - 1] /\ j - 1 \in Nat /\ j \in Nat
      BY <1>1, <1>2
    <2>2. CASE j <= i
      <3>1. j \in 1..i /\ j - 1 < i /\ j \in 1..n
        BY <1>1, <2>1, <2>2
      <3> QED
        BY <1>2, <1>3, <1>5, <2>1, <2>2, <3>1
    <2>3. CASE ~(j <= i)
      <3>1. /\ j - i \in 1..(n - k - i) /\ ~(j - 1 < i) /\ i + k + (j - i) = j + k
            /\ j + k \in 1..n /\ (j - 1) + k = (j + k) - 1
        BY <1>1, <2>1, <2>3
      <3>2. (front \o back)[j] = x[j + k]
        BY <1>4, <1>5, <2>3, <3>1
      <3>3. x[j + k] = s[(j + k) - 1]
        BY <1>2, <3>1
      <3>4. t[j - 1] = s[(j - 1) + k]
        BY <2>1, <3>1
      <3> QED
        BY <2>1, <3>1, <3>2, <3>3, <3>4
    <2> QED
      BY <2>2, <2>3
  <1>7. y = front \o back
    BY <1>2, <1>5, <1>6, SeqEqual
  <1> QED
    BY <1>2, <1>7 DEF x, y, front, back

LEMMA LongerSequence ==
    ASSUME NEW s \in Arrays, NEW t \in Arrays, NEW n \in 0..Capacity, n + 1 <= Capacity,
           NEW i \in 1..n, NEW v \in Values,
           \A p \in 0..n : t[p] = IF p = i - 1 THEN v ELSE IF p < i - 1 THEN s[p] ELSE s[p - 1]
    PROVE  FirstOf(t, n + 1) = BoundedSequence!InsertAt(FirstOf(s, n), i, v)
  <1> DEFINE x == FirstOf(s, n)
             y == FirstOf(t, n + 1)
             front == SubSeq(x, 1, i - 1)
             back == SubSeq(x, i, n)
             half == front \o <<v>>
  <1>1. n \in Nat /\ i \in Nat /\ i >= 1 /\ i <= n /\ n + 1 \in 0..Capacity /\ n + 1 \in Nat
    BY VectorAssumption
  <1>2. /\ x \in Seq(Values) /\ Len(x) = n /\ \A j \in 1..n : x[j] = s[j - 1]
        /\ y \in Seq(Values) /\ Len(y) = n + 1 /\ \A j \in 1..(n + 1) : y[j] = t[j - 1]
    BY <1>1, FirstOfProperties
  <1> HIDE DEF x, y
  <1>3. front \in Seq(Values) /\ Len(front) = i - 1 /\ \A j \in 1..(i - 1) : front[j] = x[j]
    BY <1>1, <1>2
  <1>4. /\ back \in Seq(Values) /\ Len(back) = n - i + 1
        /\ \A j \in 1..(n - i + 1) : back[j] = x[i + j - 1]
    BY <1>1, <1>2
  <1>5. <<v>> \in Seq(Values) /\ Len(<<v>>) = 1 /\ <<v>>[1] = v
    OBVIOUS
  <1> HIDE DEF front, back
  <1>6. /\ half \in Seq(Values) /\ Len(half) = i
        /\ \A j \in 1..i : half[j] = IF j <= i - 1 THEN front[j] ELSE v
    <2>1. /\ half \in Seq(Values) /\ Len(half) = Len(front) + 1
          /\ \A j \in 1..(Len(front) + 1) :
                half[j] = IF j <= Len(front) THEN front[j] ELSE <<v>>[j - Len(front)]
      BY <1>3, <1>5, ConcatProperties
    <2>2. Len(front) + 1 = i
      BY <1>1, <1>3
    <2>3. \A j \in 1..i : ~(j <= i - 1) => j - (i - 1) = 1
      BY <1>1
    <2> QED
      BY <1>3, <1>5, <2>1, <2>2, <2>3
  <1> HIDE DEF half
  <1>7. /\ half \o back \in Seq(Values) /\ Len(half \o back) = n + 1
        /\ \A j \in 1..(n + 1) : (half \o back)[j] = IF j <= i THEN half[j] ELSE back[j - i]
    <2>1. /\ half \o back \in Seq(Values) /\ Len(half \o back) = Len(half) + Len(back)
          /\ \A j \in 1..(Len(half) + Len(back)) :
                (half \o back)[j] = IF j <= Len(half) THEN half[j] ELSE back[j - Len(half)]
      BY <1>4, <1>6, ConcatProperties
    <2>2. Len(half) + Len(back) = n + 1
      BY <1>1, <1>4, <1>6
    <2> QED
      BY <1>6, <2>1, <2>2
  <1>8. ASSUME NEW j \in 1..(n + 1) PROVE y[j] = (half \o back)[j]
    <2>1. j - 1 \in 0..n /\ y[j] = t[j - 1] /\ j \in Nat /\ j - 1 \in Nat /\ j <= n + 1
      BY <1>1, <1>2
    <2>2. CASE j < i
      <3>1. j \in 1..i /\ j \in 1..(i - 1) /\ j <= i /\ j <= i - 1 /\ j \in 1..n
            /\ j - 1 # i - 1 /\ j - 1 < i - 1
        BY <1>1, <2>1, <2>2
      <3>2. (half \o back)[j] = x[j]
        BY <1>3, <1>6, <1>7, <3>1
      <3>3. x[j] = s[j - 1] /\ t[j - 1] = s[j - 1]
        BY <1>2, <2>1, <3>1
      <3> QED
        BY <2>1, <3>2, <3>3
    <2>3. CASE j = i
      <3>1. j \in 1..i /\ ~(j <= i - 1) /\ j <= i /\ j - 1 = i - 1
        BY <1>1, <2>1, <2>3
      <3> QED
        BY <1>6, <1>7, <2>1, <3>1
    <2>4. CASE j > i
      <3>1. /\ j - i \in 1..(n - i + 1) /\ ~(j <= i) /\ i + (j - i) - 1 = j - 1
            /\ j - 1 \in 1..n /\ j - 1 # i - 1 /\ ~(j - 1 < i - 1)
        BY <1>1, <2>1, <2>4
      <3>2. (half \o back)[j] = x[j - 1]
        BY <1>4, <1>7, <3>1
      <3>3. x[j - 1] = s[(j - 1) - 1]
        BY <1>2, <3>1
      <3>4. t[j - 1] = s[(j - 1) - 1]
        BY <2>1, <3>1
      <3> QED
        BY <2>1, <3>2, <3>3, <3>4
    <2>5. j < i \/ j = i \/ j > i
      BY <1>1, <2>1
    <2> QED
      BY <2>2, <2>3, <2>4, <2>5
  <1>9. y = half \o back
    BY <1>2, <1>7, <1>8, SeqEqual, SMTT(30)
  <1> QED
    BY <1>2, <1>9 DEF x, y, half, front, back, BoundedSequence!InsertAt

\* What the operations make of the array, as sequences.
LEMMA CutSequence ==
    ASSUME NEW s \in Arrays, NEW t \in Arrays, NEW n \in 0..Capacity, NEW m \in 0..n,
           \A p \in 0..(m - 1) : t[p] = s[p]
    PROVE  FirstOf(t, m) = SubSeq(FirstOf(s, n), 1, m)
  <1> DEFINE x == FirstOf(s, n)
             y == FirstOf(t, m)
             front == SubSeq(x, 1, m)
  <1>1. n \in Nat /\ m \in Nat /\ m <= n /\ m \in 0..Capacity
    BY VectorAssumption
  <1>2. /\ x \in Seq(Values) /\ Len(x) = n /\ \A j \in 1..n : x[j] = s[j - 1]
        /\ y \in Seq(Values) /\ Len(y) = m /\ \A j \in 1..m : y[j] = t[j - 1]
    BY <1>1, FirstOfProperties
  <1> HIDE DEF x, y
  <1>3. front \in Seq(Values) /\ Len(front) = m /\ \A j \in 1..m : front[j] = x[j]
    BY <1>1, <1>2
  <1> HIDE DEF front
  <1>4. ASSUME NEW j \in 1..m PROVE y[j] = front[j]
    <2>1. j - 1 \in 0..(m - 1) /\ j \in 1..n
      BY <1>1
    <2> QED
      BY <1>2, <1>3, <2>1
  <1>5. y = front
    BY <1>2, <1>3, <1>4, SeqEqual
  <1> QED
    BY <1>5 DEF x, y, front

LEMMA AppendedSequence ==
    ASSUME NEW s \in Arrays, NEW t \in Arrays, NEW n \in 0..Capacity, n < Capacity,
           NEW v \in Values, \A p \in 0..n : t[p] = IF p < n THEN s[p] ELSE v
    PROVE  FirstOf(t, n + 1) = Append(FirstOf(s, n), v)
  <1> DEFINE x == FirstOf(s, n)
             y == FirstOf(t, n + 1)
             z == Append(x, v)
  <1>1. n \in Nat /\ n + 1 \in 0..Capacity /\ n + 1 \in Nat
    BY VectorAssumption
  <1>2. /\ x \in Seq(Values) /\ Len(x) = n /\ \A j \in 1..n : x[j] = s[j - 1]
        /\ y \in Seq(Values) /\ Len(y) = n + 1 /\ \A j \in 1..(n + 1) : y[j] = t[j - 1]
    BY <1>1, FirstOfProperties
  <1> HIDE DEF x, y
  <1>3. /\ z \in Seq(Values) /\ Len(z) = n + 1 /\ z[n + 1] = v
        /\ \A j \in 1..n : z[j] = x[j]
    BY <1>1, <1>2, AppendProperties
  <1> HIDE DEF z
  <1>4. ASSUME NEW j \in 1..(n + 1) PROVE y[j] = z[j]
    <2>1. j \in Nat /\ j - 1 \in 0..n /\ (j \in 1..n => j - 1 < n) /\ ~(n + 1 - 1 < n)
          /\ (j \in 1..n \/ j = n + 1)
      BY <1>1
    <2> QED
      BY <1>2, <1>3, <2>1
  <1>5. y = z
    BY <1>2, <1>3, <1>4, SeqEqual
  <1> QED
    BY <1>5 DEF x, y, z

\* The number of elements does not wrap while there is room.
LEMMA IncrementedIs ==
    ASSUME NEW c \in Nat, c < IdxRange, NEW n \in 0..c
    PROVE  /\ (n + 1) % IdxRange \in 0..(c + 1)
           /\ n < c => (n + 1) % IdxRange = n + 1
  <1>1. n \in Nat /\ n <= c /\ IdxRange \in Nat
    BY VectorAssumption
  <1>2. CASE n + 1 < IdxRange
    <2>1. (n + 1) % IdxRange = n + 1
      BY <1>1, <1>2, SMTT(30)
    <2> QED
      BY <1>1, <2>1
  <1>3. CASE ~(n + 1 < IdxRange)
    <2>1. n = c /\ n + 1 = IdxRange
      BY <1>1, <1>3
    <2>2. IdxRange % IdxRange = 0
      BY <1>1, <2>1, SMTT(30)
    <2> QED
      BY <1>1, <2>1, <2>2
  <1> QED
    BY <1>2, <1>3

\* The sequence the array makes before and after a step of a Fector.
BarElems == IF IsFector THEN Vector!Elements ELSE <<>>

LEMMA BarsAre ==
    ASSUME VectorInv, IsFector, IsFector'
    PROVE  /\ BarElems = FirstOf(slots, idx) /\ BarElems' = FirstOf(slots', idx')
           /\ (IsFector /\ threw) = threw /\ (IsFector /\ outside) = outside
  BY DEF VectorInv, Vector!Elements, FirstOf, BarElems

VectorStep == /\ VectorInv /\ outside = FALSE /\ IsFector /\ IsFector'
              /\ slots \in Arrays /\ idx \in 0..Capacity /\ idx \in Nat /\ Capacity \in Nat
              /\ BarElems = FirstOf(slots, idx) /\ Len(BarElems) = idx
              /\ BarElems' = FirstOf(slots', idx')

LEMMA VectorSteps ==
    ASSUME VectorInv, ~outside, IsFector, IsFector'
    PROVE  VectorStep
  <1>1. /\ idx \in 0..Capacity /\ slots \in Arrays /\ Capacity \in Nat /\ idx \in Nat
        /\ outside = FALSE
    BY VectorAssumption DEF VectorInv
  <1>2. BarElems = FirstOf(slots, idx) /\ BarElems' = FirstOf(slots', idx')
    BY BarsAre
  <1>3. Len(BarElems) = idx
    BY <1>1, <1>2, FirstOfProperties
  <1> QED
    BY <1>1, <1>2, <1>3 DEF VectorStep

\* A step that leaves the array alone outside of its bounds.
LEMMA BecomesIs ==
    ASSUME VectorStep, NEW s, BarElems' = s, threw' \in BOOLEAN, outside' = outside
    PROVE  /\ threw' = FALSE => BoundedSequence!Becomes(s)
           /\ threw' = TRUE => BoundedSequence!Throws(s)
  BY DEF VectorStep, BarElems, BoundedSequence!Becomes, BoundedSequence!Throws

LEMMA VectorKept ==
    ASSUME slots' \in Arrays, idx' \in 0..Capacity, threw' \in BOOLEAN, outside' \in BOOLEAN
    PROVE  VectorInv'
  <1>1. idx' \in 0..(Capacity + 1) /\ ~(idx' > Capacity)
    BY VectorAssumption
  <1> QED
    BY <1>1 DEF VectorInv

LEMMA PushBackOK ==
    ASSUME VectorStep, NEW v \in Values, Vector!PushBack(v)
    PROVE  VectorInv' /\ BoundedSequence!PushBack(v)
  <1>a. /\ slots \in Arrays /\ idx \in 0..Capacity /\ idx \in Nat /\ Capacity \in Nat
        /\ outside = FALSE
    BY DEF VectorStep
  <1>b. /\ BarElems = FirstOf(slots, idx) /\ Len(BarElems) = idx
        /\ BarElems' = FirstOf(slots', idx')
    BY DEF VectorStep
  <1>1. CASE idx >= Capacity /\ threw' = TRUE /\ UNCHANGED <<slots, idx, outside>>
    <2>1. VectorInv'
      BY <1>a, <1>1, VectorKept
    <2>2. idx = Capacity /\ BarElems' = BarElems
      BY <1>a, <1>b, <1>1
    <2>3. BoundedSequence!Throws(BarElems)
      BY <1>a, <1>b, <1>1, <2>2, BecomesIs
    <2> QED
      BY <1>a, <1>b, <2>1, <2>2, <2>3 DEF BoundedSequence!PushBack, BarElems
  <1>2. CASE /\ idx < Capacity /\ slots' = [slots EXCEPT ![idx] = v]
             /\ idx' = (idx + 1) % IdxRange /\ threw' = FALSE /\ UNCHANGED outside
    <2>1. idx' = idx + 1
      BY <1>a, <1>2, IncrementedIs, VectorAssumption
    <2>2. slots' \in Arrays /\ idx' \in 0..Capacity
      BY <1>a, <1>2, <2>1, VectorAssumption DEF Arrays
    <2>3. \A p \in 0..idx : slots'[p] = IF p < idx THEN slots[p] ELSE v
      BY <1>a, <1>2, VectorAssumption DEF Arrays
    <2>4. BarElems' = Append(BarElems, v)
      <3>1. FirstOf(slots', idx + 1) = Append(FirstOf(slots, idx), v)
        BY <1>a, <1>2, <2>2, <2>3, AppendedSequence
      <3> QED
        BY <1>b, <2>1, <3>1
    <2>5. BoundedSequence!Becomes(Append(BarElems, v))
      BY <1>a, <1>b, <1>2, <2>4, BecomesIs
    <2>6. VectorInv'
      BY <1>a, <1>2, <2>2, VectorKept
    <2> QED
      BY <1>a, <1>b, <1>2, <2>5, <2>6 DEF BoundedSequence!PushBack, BarElems
  <1> QED
    BY <1>a, <1>1, <1>2 DEF Vector!PushBack, Vector!Incremented

LEMMA ResizeOK ==
    ASSUME VectorStep, NEW v \in Values, NEW cnt \in 0..(Capacity + 1), Vector!Resize(cnt, v)
    PROVE  VectorInv' /\ BoundedSequence!Resize(cnt, v)
  <1>a. /\ slots \in Arrays /\ idx \in 0..Capacity /\ idx \in Nat /\ Capacity \in Nat
        /\ outside = FALSE
    BY DEF VectorStep
  <1>b. /\ BarElems = FirstOf(slots, idx) /\ Len(BarElems) = idx
        /\ BarElems' = FirstOf(slots', idx')
    BY DEF VectorStep
  <1>1. /\ cnt \in Nat
        /\ slots' = [p \in 0..Capacity |-> IF p \in idx..(cnt - 1) /\ p < Capacity
                                          THEN v ELSE slots[p]]
        /\ \/ cnt <= Capacity /\ idx' = cnt /\ threw' = FALSE
           \/ cnt > Capacity /\ idx' = Capacity /\ threw' = TRUE
        /\ UNCHANGED outside
    BY DEF Vector!Resize, Vector!Positions
  <1>2. PICK m \in Nat : m = IF cnt <= Capacity THEN cnt ELSE Capacity
    BY <1>a, <1>1
  <1>3. idx' = m /\ m \in 0..Capacity /\ cnt >= m
    BY <1>a, <1>1, <1>2
  <1>4. slots' \in Arrays
    BY <1>a, <1>1 DEF Arrays
  <1>5. (cnt > Capacity => threw' = TRUE) /\ (~(cnt > Capacity) => threw' = FALSE)
    BY <1>a, <1>1
  <1>6. VectorInv'
    BY <1>a, <1>1, <1>3, <1>4, <1>5, VectorKept
  <1>7. CASE cnt <= idx
    <2>1. m = cnt /\ m \in 0..idx /\ cnt <= Capacity
      BY <1>a, <1>1, <1>2, <1>7
    <2>2. \A p \in 0..(m - 1) : slots'[p] = slots[p]
      BY <1>a, <1>1, <1>3, <2>1
    <2>3. BarElems' = SubSeq(BarElems, 1, cnt)
      BY <1>a, <1>b, <1>3, <1>4, <2>1, <2>2, CutSequence
    <2>4. BoundedSequence!Becomes(SubSeq(BarElems, 1, cnt))
      <3>1. threw' = FALSE /\ outside' = outside
        BY <1>a, <1>1, <2>1
      <3> QED
        BY <2>3, <3>1, BecomesIs
    <2> QED
      BY <1>a, <1>b, <1>6, <1>7, <2>4 DEF BoundedSequence!Resize, BarElems
  <1>8. CASE cnt > idx
    <2>1. idx <= m /\ \A p \in 0..(m - 1) : slots'[p] = IF p < idx THEN slots[p] ELSE v
      BY <1>a, <1>1, <1>2, <1>3, <1>8
    <2>2. BarElems' = BarElems \o Repeated(v, m - idx)
      BY <1>a, <1>b, <1>3, <1>4, <2>1, GrownSequence
    <2>3. BarElems' = BoundedSequence!With(m - Len(BarElems), v)
      BY <1>a, <1>b, <2>2 DEF BoundedSequence!With, BarElems, Repeated
    <2>4. CASE cnt <= Capacity
      <3>1. BoundedSequence!Becomes(BoundedSequence!With(m - Len(BarElems), v))
        <4>1. threw' = FALSE /\ outside' = outside
          BY <1>a, <1>1, <2>4
        <4> QED
          BY <2>3, <4>1, BecomesIs
      <3> QED
        BY <1>a, <1>b, <1>2, <1>6, <1>8, <2>4, <3>1 DEF BoundedSequence!Resize, BarElems
    <2>5. CASE cnt > Capacity
      <3>1. BoundedSequence!Throws(BoundedSequence!With(m - Len(BarElems), v))
        BY <1>a, <1>b, <1>1, <1>5, <2>3, <2>5, BecomesIs
      <3>2. m = Capacity
        BY <1>a, <1>1, <1>2, <2>5
      <3> QED
        BY <1>a, <1>b, <1>6, <1>8, <2>5, <3>1, <3>2 DEF BoundedSequence!Resize, BarElems
    <2> QED
      BY <1>a, <1>1, <2>4, <2>5
  <1> QED
    BY <1>a, <1>1, <1>7, <1>8

LEMMA PopBackOK ==
    ASSUME VectorStep, NEW k \in Nat, Vector!PopBack(k)
    PROVE  VectorInv' /\ BoundedSequence!PopBack(k)
  <1>a. /\ slots \in Arrays /\ idx \in 0..Capacity /\ idx \in Nat /\ Capacity \in Nat
        /\ outside = FALSE
    BY DEF VectorStep
  <1>b. /\ BarElems = FirstOf(slots, idx) /\ Len(BarElems) = idx
        /\ BarElems' = FirstOf(slots', idx')
    BY DEF VectorStep
  <1>1. /\ k <= idx /\ idx' = idx - k /\ slots' = slots /\ threw' = FALSE
        /\ outside' = outside
    BY DEF Vector!PopBack
  <1>2. idx - k \in 0..idx /\ idx - k \in 0..Capacity
    BY <1>a, <1>1
  <1>3. BarElems' = SubSeq(BarElems, 1, Len(BarElems) - k)
    BY <1>a, <1>b, <1>1, <1>2, CutSequence
  <1>4. BoundedSequence!Becomes(SubSeq(BarElems, 1, Len(BarElems) - k))
    BY <1>a, <1>b, <1>1, <1>3, BecomesIs
  <1>5. VectorInv'
    BY <1>a, <1>1, <1>2, VectorKept
  <1> QED
    BY <1>a, <1>b, <1>1, <1>4, <1>5 DEF BoundedSequence!PopBack, BarElems

LEMMA ClearOK ==
    ASSUME VectorStep, Vector!Clear
    PROVE  VectorInv' /\ BoundedSequence!Clear
  <1>a. /\ slots \in Arrays /\ idx \in 0..Capacity /\ idx \in Nat /\ Capacity \in Nat
        /\ outside = FALSE
    BY DEF VectorStep
  <1>b. /\ BarElems = FirstOf(slots, idx) /\ Len(BarElems) = idx
        /\ BarElems' = FirstOf(slots', idx')
    BY DEF VectorStep
  <1>1. idx' = 0 /\ slots' = slots /\ threw' = FALSE /\ outside' = outside
    BY DEF Vector!Clear
  <1>2. 0 \in 0..Capacity
    BY <1>a
  <1>3. BarElems' = <<>>
    <2>1. FirstOf(slots, 0) \in Seq(Values) /\ Len(FirstOf(slots, 0)) = 0
      BY <1>a, <1>b, <1>2, FirstOfProperties
    <2> QED
      BY <1>a, <1>b, <1>1, <2>1, EmptySeq
  <1>4. VectorInv'
    BY <1>a, <1>1, <1>2, VectorKept
  <1> QED
    BY <1>a, <1>b, <1>1, <1>3, <1>4, BecomesIs DEF BoundedSequence!Clear

LEMMA InsertOK ==
    ASSUME VectorStep, NEW v \in Values, NEW it \in 0..idx, Vector!Insert(it, v)
    PROVE  VectorInv' /\ BoundedSequence!Insert(it, v)
  <1>a. /\ slots \in Arrays /\ idx \in 0..Capacity /\ idx \in Nat /\ Capacity \in Nat
        /\ outside = FALSE
    BY DEF VectorStep
  <1>b. /\ BarElems = FirstOf(slots, idx) /\ Len(BarElems) = idx
        /\ BarElems' = FirstOf(slots', idx')
    BY DEF VectorStep
  <1>1. it \in Nat /\ it <= idx /\ BarElems \in Seq(Values) /\ (BarElems = <<>> <=> idx = 0)
    <2>1. BarElems \in Seq(Values)
      BY <1>a, <1>b, FirstOfProperties
    <2> QED
      BY <1>a, <1>b, <2>1, EmptySeq
  <1>2. CASE idx = 0 /\ Vector!PushBack(v)
    <2>1. VectorInv' /\ BoundedSequence!PushBack(v)
      BY <1>a, <1>2, PushBackOK
    <2> QED
      BY <1>a, <1>b, <1>1, <1>2, <2>1 DEF BoundedSequence!Insert, BarElems
  <1>3. CASE /\ it < idx
             /\ slots' = [p \in 0..Capacity |-> IF p = it THEN v
                                               ELSE IF it < p /\ p <= idx THEN slots[p - 1]
                                               ELSE slots[p]]
             /\ idx' = (idx + 1) % IdxRange /\ threw' = FALSE
             /\ \/ idx < Capacity /\ UNCHANGED outside
                \/ idx = Capacity /\ outside' = TRUE
    <2>1. slots' \in Arrays
      <3>1. \A p \in 0..Capacity : (IF p = it THEN v ELSE IF it < p /\ p <= idx
                                    THEN slots[p - 1] ELSE slots[p]) \in Values
        BY <1>a, <1>1 DEF Arrays
      <3> QED
        BY <1>a, <1>3, <3>1 DEF Arrays
    <2>2. idx' \in 0..(Capacity + 1) /\ (idx < Capacity => idx' = idx + 1)
      BY <1>a, <1>3, IncrementedIs, VectorAssumption
    <2>3. VectorInv'
      <3>1. CASE idx < Capacity
        <4>1. idx' \in 0..Capacity /\ threw' = FALSE /\ outside' = FALSE
          BY <1>a, <1>3, <2>2, <3>1
        <4> QED
          BY <2>1, <4>1, VectorKept
      <3>2. CASE idx = Capacity
        <4>1. outside' = TRUE /\ threw' = FALSE
          BY <1>a, <1>3, <3>2
        <4> QED
          BY <2>1, <2>2, <4>1 DEF VectorInv
      <3> QED
        BY <1>a, <3>1, <3>2
    <2>4. CASE idx = Capacity
      <3>1. BarElems # <<>> /\ Len(BarElems) = Capacity /\ outside' = TRUE
        BY <1>a, <1>b, <1>1, <1>3, <2>4
      <3>2. IsFector'
        BY DEF VectorStep
      <3> QED
        BY <2>3, <3>1, <3>2 DEF BoundedSequence!Insert, BarElems
    <2>5. CASE idx # Capacity
      <3>1. idx < Capacity /\ idx' = idx + 1 /\ outside' = outside
        BY <1>a, <1>3, <2>2, <2>5
      <3>2. /\ it + 1 \in 1..idx /\ idx + 1 <= Capacity /\ (it + 1) - 1 = it
        BY <1>a, <1>1, <1>3, <3>1
      <3>3. \A p \in 0..idx : slots'[p] = IF p = (it + 1) - 1 THEN v
                              ELSE IF p < (it + 1) - 1 THEN slots[p] ELSE slots[p - 1]
        BY <1>a, <1>1, <1>3, <3>2
      <3>4. BarElems' = BoundedSequence!InsertAt(BarElems, it + 1, v)
        BY <1>a, <1>b, <2>1, <3>1, <3>2, <3>3, LongerSequence
      <3>5. BoundedSequence!Becomes(BoundedSequence!InsertAt(BarElems, it + 1, v))
        BY <1>a, <1>b, <1>3, <3>1, <3>4, BecomesIs
      <3> QED
        BY <1>a, <1>b, <1>3, <2>3, <3>1, <3>5 DEF BoundedSequence!Insert, BarElems
    <2> QED
      BY <1>a, <2>4, <2>5
  <1>4. CASE it = idx /\ idx # 0 /\ outside' = TRUE /\ UNCHANGED <<slots, idx, threw>>
    <2>1. VectorInv'
      <3>1. threw \in BOOLEAN
        BY DEF VectorStep, VectorInv
      <3> QED
        BY <1>a, <1>4, <3>1, VectorKept
    <2>2. BarElems # <<>> /\ it = Len(BarElems)
      BY <1>a, <1>b, <1>1, <1>4
    <2> QED
      BY <1>a, <1>b, <1>4, <2>1, <2>2 DEF BoundedSequence!Insert, BarElems
  <1> QED
    BY <1>a, <1>2, <1>3, <1>4 DEF Vector!Insert, Vector!Positions, Vector!Incremented

LEMMA VectorEraseOK ==
    ASSUME VectorStep, NEW pos \in Nat, NEW k \in Nat, Vector!Erase(pos, k)
    PROVE  VectorInv' /\ BoundedSequence!Erase(pos, k)
  <1>a. /\ slots \in Arrays /\ idx \in 0..Capacity /\ idx \in Nat /\ Capacity \in Nat
        /\ outside = FALSE
    BY DEF VectorStep
  <1>b. /\ BarElems = FirstOf(slots, idx) /\ Len(BarElems) = idx
        /\ BarElems' = FirstOf(slots', idx')
    BY DEF VectorStep
  <1>1. /\ k <= idx /\ pos <= idx
        /\ slots' = [p \in 0..Capacity |-> IF pos <= p /\ p + k < idx
                                          THEN slots[p + k] ELSE slots[p]]
        /\ idx' = idx - k /\ threw' = FALSE /\ outside' = outside
    BY DEF Vector!Erase, Vector!Positions
  <1>2. slots' \in Arrays /\ idx - k \in 0..Capacity /\ idx - k \in 0..idx
    <2>1. \A p \in 0..Capacity : p + k < idx => p + k \in 0..Capacity
      BY <1>a
    <2>2. \A p \in 0..Capacity :
             (IF pos <= p /\ p + k < idx THEN slots[p + k] ELSE slots[p]) \in Values
      BY <1>a, <2>1 DEF Arrays
    <2>3. slots' \in Arrays
      BY <1>a, <1>1, <2>2 DEF Arrays
    <2> QED
      BY <1>a, <1>1, <2>3
  <1>3. VectorInv'
    BY <1>a, <1>1, <1>2, VectorKept
  <1>4. CASE pos + k <= idx
    <2>1. k \in 0..idx /\ pos \in 0..(idx - k)
      BY <1>a, <1>1, <1>4
    <2>2. \A p \in 0..(idx - k - 1) : slots'[p] = IF p < pos THEN slots[p] ELSE slots[p + k]
      BY <1>a, <1>1, <1>4
    <2>3. BarElems' = SubSeq(BarElems, 1, pos) \o SubSeq(BarElems, pos + k + 1, Len(BarElems))
      BY <1>a, <1>b, <1>1, <1>2, <2>1, <2>2, ShrunkSequence
    <2>4. BoundedSequence!Becomes(SubSeq(BarElems, 1, pos)
                                  \o SubSeq(BarElems, pos + k + 1, Len(BarElems)))
      BY <1>a, <1>b, <1>1, <2>3, BecomesIs
    <2> QED
      BY <1>a, <1>b, <1>3, <1>4, <2>4 DEF BoundedSequence!Erase, BarElems
  <1>5. CASE pos + k > idx
    <2>1. \A p \in 0..(idx - k - 1) : slots'[p] = slots[p]
      BY <1>a, <1>1, <1>5
    <2>2. BarElems' = SubSeq(BarElems, 1, Len(BarElems) - k)
      <3>1. FirstOf(slots', idx - k) = SubSeq(FirstOf(slots, idx), 1, idx - k)
        BY <1>a, <1>2, <2>1, CutSequence
      <3> QED
        BY <1>1, <1>b, <3>1
    <2>3. BoundedSequence!Becomes(SubSeq(BarElems, 1, Len(BarElems) - k))
      BY <1>a, <1>b, <1>1, <2>2, BecomesIs
    <2> QED
      BY <1>a, <1>b, <1>1, <1>3, <1>5, <2>3 DEF BoundedSequence!Erase, BarElems
  <1> QED
    BY <1>a, <1>1, <1>4, <1>5

\* Every operation is that of its name, and each step is one of them.
LEMMA VectorNextOK ==
    ASSUME VectorInv, IsFector, IsFector', Vector!Next
    PROVE  VectorInv' /\ BoundedSequence!Next /\ VectorOperations
  <1>1. VectorStep
    BY VectorSteps DEF Vector!Next
  <1>2. idx \in Nat /\ idx <= Capacity /\ Capacity \in Nat /\ Len(BarElems) = idx /\ ~outside
    BY <1>1 DEF VectorStep
  <1>3. \A n \in 0..idx : n \in Nat
    OBVIOUS
  <1>4. VectorOperations
    BY <1>1, <1>3, PushBackOK, ResizeOK, PopBackOK, ClearOK, InsertOK, VectorEraseOK
       DEF VectorOperations
  <1>5. CASE \E v \in Values : Vector!PushBack(v)
    BY <1>1, <1>2, <1>4, <1>5, PushBackOK DEF BoundedSequence!Next
  <1>6. CASE \E v \in Values, cnt \in 0..(Capacity + 1) : Vector!Resize(cnt, v)
    BY <1>1, <1>2, <1>4, <1>6, ResizeOK DEF BoundedSequence!Next
  <1>7. CASE \E cnt \in 1..Capacity : Vector!PopBack(cnt)
    <2>1. PICK k \in 1..Capacity : Vector!PopBack(k)
      BY <1>7
    <2>2. k \in Nat
      BY <1>2
    <2>3. VectorInv' /\ BoundedSequence!PopBack(k)
      BY <1>1, <2>1, <2>2, PopBackOK
    <2> QED
      BY <1>2, <1>4, <2>3 DEF BoundedSequence!Next
  <1>8. CASE Vector!Clear
    BY <1>1, <1>2, <1>4, <1>8, ClearOK DEF BoundedSequence!Next
  <1>9. CASE \E v \in Values, it \in 0..Capacity : it <= idx /\ Vector!Insert(it, v)
    <2>1. PICK v \in Values, it \in 0..Capacity : it <= idx /\ Vector!Insert(it, v)
      BY <1>9
    <2>2. it \in 0..idx /\ it \in 0..Len(BarElems)
      BY <1>2, <2>1
    <2>3. VectorInv' /\ BoundedSequence!Insert(it, v)
      BY <1>1, <2>1, <2>2, InsertOK
    <2> QED
      BY <1>2, <1>4, <2>2, <2>3 DEF BoundedSequence!Next, BarElems
  <1>10. CASE \E pos \in 0..Capacity, cnt \in 0..Capacity : Vector!Erase(pos, cnt)
    <2>1. PICK pos \in 0..Capacity, k \in 0..Capacity : Vector!Erase(pos, k)
      BY <1>10
    <2>2. pos \in Nat /\ k \in Nat /\ pos \in 0..Len(BarElems) /\ k \in 0..Len(BarElems)
      BY <1>2, <2>1 DEF Vector!Erase
    <2>3. VectorInv' /\ BoundedSequence!Erase(pos, k)
      BY <1>1, <2>1, <2>2, VectorEraseOK
    <2> QED
      BY <1>2, <1>4, <2>2, <2>3 DEF BoundedSequence!Next, BarElems
  <1> QED
    BY <1>5, <1>6, <1>7, <1>8, <1>9, <1>10 DEF Vector!Next

LEMMA VectorTakes ==
    ASSUME SequentialNext, IsFector
    PROVE  Vector!Next /\ UNCHANGED part
  <1>1. UNCHANGED part /\ part = "Fector"
    BY DEF SequentialNext, IsFector
  <1> QED
    BY <1>1 DEF SequentialNext, ContainersNext, IsFector, IsFap, IsCache, IsCombinations,
                IsBllocator, IsBits, IsSqlite, IsClient

LEMMA VectorStarts ==
    ASSUME SequentialInit, IsFector
    PROVE  Vector!Init
  <1>1. part = "Fector"
    BY DEF IsFector
  <1> QED
    BY <1>1 DEF SequentialInit, ContainersInit, IsFector, IsFap, IsCache, IsCombinations,
                IsBllocator, IsBits, IsSqlite, IsClient

\* Every operation of a Fector does to its elements what the operation of the same
\* name does to a sequence of at most Capacity elements: one that throws changes
\* nothing, but for resize(), which keeps what it has added, and only insert()
\* with a full array or at end() leaves the array (fector.hpp 83-262).
THEOREM FectorIsSequence == SequentialSpec => ImplementsVector
  <1> DEFINE Inv == IsFector => VectorInv
             Bars == <<BarElems, IsFector /\ threw, IsFector /\ outside>>
  <1>1. SequentialInit => Inv /\ BoundedSequence!Init
    <2> SUFFICES ASSUME SequentialInit PROVE Inv /\ BoundedSequence!Init
      OBVIOUS
    <2>1. CASE IsFector
      <3>1. slots \in Arrays /\ idx = 0 /\ threw = FALSE /\ outside = FALSE
        BY <2>1, VectorStarts DEF Vector!Init, Vector!Positions, Arrays
      <3>2. 0 \in 0..Capacity /\ 0 \in 0..(Capacity + 1) /\ ~(0 > Capacity)
        BY VectorAssumption
      <3>3. VectorInv
        BY <3>1, <3>2 DEF VectorInv
      <3>4. Vector!Elements = <<>>
        <4>1. FirstOf(slots, 0) \in Seq(Values) /\ Len(FirstOf(slots, 0)) = 0
          BY <3>1, <3>2, FirstOfProperties
        <4>2. FirstOf(slots, 0) = <<>>
          BY <4>1, EmptySeq
        <4> QED
          BY <3>1, <4>2 DEF Vector!Elements, FirstOf
      <3> QED
        BY <2>1, <3>1, <3>3, <3>4 DEF BoundedSequence!Init
    <2>2. CASE ~IsFector
      BY <2>2 DEF BoundedSequence!Init
    <2> QED
      BY <2>1, <2>2
  <1>2. Inv /\ [SequentialNext]_sequentialVars
        => /\ Inv' /\ [BoundedSequence!Next]_(BoundedSequence!vars)
           /\ [VectorOperations]_sequentialVars
    <2> SUFFICES ASSUME Inv, [SequentialNext]_sequentialVars
                 PROVE  /\ Inv' /\ (BoundedSequence!Next \/ UNCHANGED BoundedSequence!vars)
                        /\ (VectorOperations \/ UNCHANGED sequentialVars)
      OBVIOUS
    <2>1. UNCHANGED part
      BY DEF SequentialNext, sequentialVars
    <2>2. CASE ~IsFector
      BY <2>1, <2>2 DEF IsFector, VectorOperations, BoundedSequence!vars
    <2>3. CASE UNCHANGED sequentialVars
      BY <2>3 DEF sequentialVars, containerVars, arrayVars, IsFector, VectorInv,
                  Vector!Elements, BoundedSequence!vars
    <2>4. CASE IsFector /\ SequentialNext
      BY <2>1, <2>4, VectorTakes, VectorNextOK DEF IsFector
    <2> QED
      BY <2>2, <2>3, <2>4
  <1> QED
    BY <1>1, <1>2, PTL DEF SequentialSpec, ImplementsVector, BoundedSequence!Spec
-----------------------------------------------------------------------------
(***************************************************************************)
(* Fap                                                                     *)
(***************************************************************************)
Pairs == [0..Size -> SortedMap!value_type]

\* The first n pairs: in order, their keys, and the map they make.
SortedTo(s, n) == \A p, q \in 0..(n - 1) : p < q => s[p].first < s[q].first
KeysTo(s, n) == {s[p].first : p \in 0..(n - 1)}
PlaceOf(s, n, k) == CHOOSE p \in 0..(n - 1) : s[p].first = k
MapTo(s, n) == [k \in KeysTo(s, n) |-> s[PlaceOf(s, n, k)].second]

MapInv == /\ slots \in Pairs /\ idx \in 0..(Size + 1)
          /\ threw \in BOOLEAN /\ outside \in BOOLEAN
          /\ idx > Size => outside
          /\ ~outside => SortedTo(slots, idx)

LEMMA PairsHave ==
    ASSUME NEW s \in Pairs, NEW p \in 0..Size
    PROVE  /\ s[p] \in SortedMap!value_type
           /\ s[p].first \in Keys /\ s[p].first \in Nat /\ s[p].second \in Vals
  <1>1. s[p] \in SortedMap!value_type
    BY DEF Pairs
  <1>2. s[p].first \in Keys /\ s[p].second \in Vals
    BY <1>1 DEF SortedMap!value_type
  <1> QED
    BY <1>1, <1>2, MapAssumption

\* No key is there twice.
LEMMA KeysApart ==
    ASSUME NEW s \in Pairs, NEW n \in 0..Size, SortedTo(s, n),
           NEW p \in 0..(n - 1), NEW q \in 0..(n - 1), s[p].first = s[q].first
    PROVE  p = q
  <1>1. n \in Nat /\ p \in 0..Size /\ q \in 0..Size /\ p \in Nat /\ q \in Nat
    BY MapAssumption
  <1>2. s[p].first \in Nat /\ s[q].first \in Nat
    BY <1>1, PairsHave
  <1>3. ~(p < q) /\ ~(q < p)
    BY <1>2 DEF SortedTo
  <1> QED
    BY <1>1, <1>3

LEMMA MapToIs ==
    ASSUME NEW s \in Pairs, NEW n \in 0..Size, SortedTo(s, n)
    PROVE  /\ DOMAIN MapTo(s, n) = KeysTo(s, n)
           /\ \A p \in 0..(n - 1) : /\ s[p].first \in KeysTo(s, n)
                                    /\ MapTo(s, n)[s[p].first] = s[p].second
  <1>1. DOMAIN MapTo(s, n) = KeysTo(s, n)
    BY DEF MapTo
  <1>2. ASSUME NEW p \in 0..(n - 1)
        PROVE  s[p].first \in KeysTo(s, n) /\ MapTo(s, n)[s[p].first] = s[p].second
    <2> DEFINE k == s[p].first
               c == PlaceOf(s, n, k)
    <2>1. k \in KeysTo(s, n)
      BY DEF KeysTo
    <2>2. c \in 0..(n - 1) /\ s[c].first = k
      BY DEF PlaceOf
    <2>3. c = p
      BY <2>2, KeysApart
    <2>4. MapTo(s, n)[k] = s[c].second
      BY <2>1 DEF MapTo
    <2> QED
      BY <2>1, <2>3, <2>4
  <1> QED
    BY <1>1, <1>2

\* The search ends before the first pair whose key is not less, and the pairs
\* before that are those with a lesser key.
LEMMA LowerBound ==
    ASSUME NEW s \in Pairs, NEW n \in 0..Size, SortedTo(s, n), NEW k \in Keys
    PROVE  \E l \in 0..n : /\ Cardinality({p \in 0..(n - 1) : s[p].first < k}) = l
                           /\ \A p \in 0..(n - 1) : s[p].first < k <=> p < l
  <1> DEFINE less == {p \in 0..(n - 1) : s[p].first < k}
             ends == {p \in 0..n : p = n \/ ~(s[p].first < k)}
  <1>1. n \in Nat /\ n <= Size /\ k \in Nat /\ Size \in Nat
    BY MapAssumption
  <1>2. ends \in SUBSET Nat /\ ends # {}
    <2>1. n \in ends
      BY <1>1
    <2> QED
      BY <1>1, <2>1
  <1>3. PICK l \in ends : \A m \in ends : l <= m
    BY <1>2, Least
  <1>4. l \in Nat /\ l \in 0..n
    BY <1>1, <1>2, <1>3
  <1>5. ASSUME NEW p \in 0..(n - 1) PROVE s[p].first < k <=> p < l
    <2>1. p \in Nat /\ p \in 0..n /\ p \in 0..Size /\ s[p].first \in Nat /\ p # n
      BY <1>1, PairsHave
    <2>2. p < l => s[p].first < k
      <3>1. p < l => p \notin ends
        BY <1>3, <1>4, <2>1
      <3> QED
        BY <2>1, <3>1
    <2>3. CASE ~(p < l)
      <3>1. l <= p /\ l # n /\ l \in 0..(n - 1) /\ l \in 0..Size
        BY <1>1, <1>4, <2>1, <2>3
      <3>2. ~(s[l].first < k) /\ s[l].first \in Nat
        BY <1>3, <3>1, PairsHave
      <3>3. l = p \/ s[l].first < s[p].first
        BY <1>4, <2>1, <3>1 DEF SortedTo
      <3> QED
        BY <1>1, <2>1, <2>3, <3>2, <3>3
    <2> QED
      BY <2>2, <2>3
  <1>6. less = 0..(l - 1)
    <2>1. ASSUME NEW p \in less PROVE p \in 0..(l - 1)
      BY <1>1, <1>4, <1>5
    <2>2. ASSUME NEW p \in 0..(l - 1) PROVE p \in less
      <3>1. p \in 0..(n - 1) /\ p < l
        BY <1>1, <1>4
      <3> QED
        BY <1>5, <3>1
    <2> HIDE DEF less
    <2> QED
      BY <2>1, <2>2
  <1>7. Cardinality(0..(l - 1)) = l
    <2>1. 0 \in Int /\ l - 1 \in Int
      BY <1>4
    <2>2. Cardinality(0..(l - 1)) = IF 0 > l - 1 THEN 0 ELSE (l - 1) - 0 + 1
      BY <2>1, FS_Interval
    <2> QED
      BY <1>4, <2>2
  <1> QED
    BY <1>4, <1>5, <1>6, <1>7

\* What a map is with a key it has not, and without one it has.
With(x, k, v) == [j \in DOMAIN x \cup {k} |-> IF j = k THEN v ELSE x[j]]
Without(x, k) == [j \in DOMAIN x \ {k} |-> x[j]]

\* The pairs make a map that has what they have.
LEMMA MapToMade ==
    ASSUME NEW s \in Pairs, NEW n \in 0..Size, SortedTo(s, n), NEW y,
           y = [j \in DOMAIN y |-> y[j]], DOMAIN y = KeysTo(s, n),
           \A p \in 0..(n - 1) : y[s[p].first] = s[p].second
    PROVE  MapTo(s, n) = y
  <1> DEFINE x == MapTo(s, n)
  <1>1. x = [j \in DOMAIN x |-> x[j]]
    BY DEF MapTo
  <1>2. DOMAIN x = KeysTo(s, n) /\ \A p \in 0..(n - 1) : x[s[p].first] = s[p].second
    BY MapToIs
  <1> HIDE DEF x
  <1>3. ASSUME NEW j \in KeysTo(s, n) PROVE x[j] = y[j]
    <2>1. PICK p \in 0..(n - 1) : j = s[p].first
      BY DEF KeysTo
    <2> QED
      BY <1>2, <2>1
  <1>4. x = y
    BY <1>1, <1>2, <1>3
  <1> QED
    BY <1>4 DEF x

LEMMA InsertedPairs ==
    ASSUME NEW s \in Pairs, NEW t \in Pairs, NEW n \in 0..Size, n + 1 \in 0..Size, SortedTo(s, n),
           NEW v \in SortedMap!value_type, NEW l \in 0..n,
           \A p \in 0..(n - 1) : s[p].first < v.first <=> p < l,
           v.first \notin KeysTo(s, n),
           \A p \in 0..n : t[p] = IF p = l THEN v ELSE IF p < l THEN s[p] ELSE s[p - 1]
    PROVE  /\ SortedTo(t, n + 1)
           /\ MapTo(t, n + 1) = With(MapTo(s, n), v.first, v.second)
  <1>1. n \in Nat /\ l \in Nat /\ l <= n /\ n <= Size /\ Size \in Nat /\ (n + 1) - 1 = n
    BY MapAssumption
  <1>2. v.first \in Nat
    BY MapAssumption DEF SortedMap!value_type
  <1>3. \A p \in 0..(n - 1) : /\ p \in Nat /\ s[p].first \in Nat /\ s[p].first \in KeysTo(s, n)
                              /\ p >= l => v.first < s[p].first
    <2> SUFFICES ASSUME NEW p \in 0..(n - 1)
                 PROVE  /\ p \in Nat /\ s[p].first \in Nat /\ s[p].first \in KeysTo(s, n)
                        /\ p >= l => v.first < s[p].first
      OBVIOUS
    <2>1. p \in Nat /\ p \in 0..Size
      BY <1>1
    <2>2. s[p].first \in Nat /\ s[p].first \in KeysTo(s, n)
      BY <2>1, PairsHave DEF KeysTo
    <2>3. p >= l => ~(s[p].first < v.first) /\ s[p].first # v.first
      BY <1>1, <2>1, <2>2
    <2> QED
      BY <1>2, <2>1, <2>2, <2>3
  <1>4. ASSUME NEW p \in 0..n
        PROVE  \/ p = l /\ t[p] = v
               \/ p < l /\ p \in 0..(n - 1) /\ t[p] = s[p]
               \/ p > l /\ p - 1 \in 0..(n - 1) /\ p - 1 >= l /\ t[p] = s[p - 1]
    BY <1>1
  <1>5. SortedTo(t, n + 1)
    <2> SUFFICES ASSUME NEW p \in 0..n, NEW q \in 0..n, p < q
                 PROVE  t[p].first < t[q].first
      BY <1>1 DEF SortedTo
    <2>1. p \in Nat /\ q \in Nat
      OBVIOUS
    <2>2. CASE q < l
      <3>1. p \in 0..(n - 1) /\ q \in 0..(n - 1) /\ t[p] = s[p] /\ t[q] = s[q]
        BY <1>1, <1>4, <2>1, <2>2
      <3> QED
        BY <3>1 DEF SortedTo
    <2>3. CASE q = l
      <3>1. p < l /\ p \in 0..(n - 1) /\ t[p] = s[p] /\ t[q] = v
        BY <1>1, <1>4, <2>1, <2>3
      <3> QED
        BY <3>1
    <2>4. CASE q > l
      <3>1. q - 1 \in 0..(n - 1) /\ q - 1 >= l /\ t[q] = s[q - 1] /\ q - 1 \in Nat
        BY <1>1, <1>4, <2>1, <2>4
      <3>2. CASE p = l
        BY <1>3, <1>4, <2>1, <3>1, <3>2
      <3>3. CASE p < l
        <4>1. p \in 0..(n - 1) /\ t[p] = s[p] /\ p < q - 1
          BY <1>1, <1>4, <2>1, <2>4, <3>3
        <4> QED
          BY <3>1, <4>1 DEF SortedTo
      <3>4. CASE p > l
        <4>1. p - 1 \in 0..(n - 1) /\ t[p] = s[p - 1] /\ p - 1 < q - 1
          BY <1>1, <1>4, <2>1, <3>4
        <4> QED
          BY <3>1, <4>1 DEF SortedTo
      <3> QED
        BY <1>1, <2>1, <3>2, <3>3, <3>4
    <2> QED
      BY <1>1, <2>1, <2>2, <2>3, <2>4
  <1> DEFINE x == MapTo(s, n)
             y == With(x, v.first, v.second)
  <1>6. /\ DOMAIN x = KeysTo(s, n)
        /\ \A p \in 0..(n - 1) : x[s[p].first] = s[p].second
    BY MapToIs
  <1> HIDE DEF x
  <1>7. KeysTo(t, n + 1) = KeysTo(s, n) \cup {v.first}
    <2>1. ASSUME NEW k \in KeysTo(t, n + 1) PROVE k \in KeysTo(s, n) \cup {v.first}
      <3>1. PICK p \in 0..n : k = t[p].first
        BY <1>1 DEF KeysTo
      <3> QED
        BY <1>3, <1>4, <3>1
    <2>2. v.first \in KeysTo(t, n + 1)
      <3>1. l \in 0..((n + 1) - 1) /\ t[l].first = v.first
        BY <1>1, <1>4
      <3> QED
        BY <3>1 DEF KeysTo
    <2>3. ASSUME NEW k \in KeysTo(s, n) PROVE k \in KeysTo(t, n + 1)
      <3>1. PICK p \in 0..(n - 1) : k = s[p].first
        BY DEF KeysTo
      <3>2. CASE p < l
        <4>1. p \in 0..((n + 1) - 1) /\ t[p].first = k
          BY <1>1, <3>1, <3>2
        <4> QED
          BY <4>1 DEF KeysTo
      <3>3. CASE ~(p < l)
        <4>1. p + 1 \in 0..n /\ p + 1 # l /\ ~(p + 1 < l) /\ (p + 1) - 1 = p
          BY <1>1, <3>3
        <4>2. p + 1 \in 0..((n + 1) - 1) /\ t[p + 1].first = k
          BY <1>1, <3>1, <4>1
        <4> QED
          BY <4>2 DEF KeysTo
      <3> QED
        BY <3>2, <3>3
    <2> QED
      BY <2>1, <2>2, <2>3
  <1>8. /\ y = [j \in DOMAIN y |-> y[j]]
        /\ DOMAIN y = KeysTo(t, n + 1)
        /\ y[v.first] = v.second
        /\ \A k \in KeysTo(s, n) : k # v.first => y[k] = x[k]
    BY <1>6, <1>7 DEF With
  <1> HIDE DEF y
  <1>9. ASSUME NEW p \in 0..n PROVE y[t[p].first] = t[p].second
    <2>1. CASE p = l
      BY <1>4, <1>8, <2>1
    <2>2. CASE p # l
      <3>1. PICK q \in 0..(n - 1) : t[p] = s[q]
        BY <1>4, <2>2
      <3>2. s[q].first \in KeysTo(s, n) /\ s[q].first # v.first
        BY <1>3
      <3> QED
        BY <1>6, <1>8, <3>1, <3>2
    <2> QED
      BY <2>1, <2>2
  <1>10. MapTo(t, n + 1) = y
    <2>1. \A p \in 0..((n + 1) - 1) : y[t[p].first] = t[p].second
      BY <1>1, <1>9
    <2> QED
      BY <1>5, <1>8, <2>1, MapToMade
  <1> QED
    BY <1>5, <1>10 DEF y, x

LEMMA ErasedPairs ==
    ASSUME NEW s \in Pairs, NEW t \in Pairs, NEW n \in 1..Size, SortedTo(s, n),
           NEW i \in 0..(n - 1),
           \A p \in 0..(n - 2) : t[p] = IF p < i THEN s[p] ELSE s[p + 1]
    PROVE  /\ SortedTo(t, n - 1)
           /\ s[i].first \in DOMAIN MapTo(s, n)
           /\ MapTo(t, n - 1) = Without(MapTo(s, n), s[i].first)
  <1> DEFINE k == s[i].first
             x == MapTo(s, n)
             y == Without(x, k)
  <1>1. /\ n \in Nat /\ n \in 0..Size /\ n - 1 \in 0..Size /\ i \in Nat /\ n <= Size /\ Size \in Nat
        /\ (n - 1) - 1 = n - 2 /\ i <= n - 1
    BY MapAssumption
  <1>2. /\ DOMAIN x = KeysTo(s, n)
        /\ \A p \in 0..(n - 1) : /\ s[p].first \in KeysTo(s, n)
                                 /\ x[s[p].first] = s[p].second
    BY <1>1, MapToIs
  <1>3. \A p \in 0..(n - 1) : p # i => s[p].first # k
    BY <1>1, KeysApart
  <1> HIDE DEF k, x
  <1>4. ASSUME NEW p \in 0..(n - 2)
        PROVE  \/ p < i /\ p \in 0..(n - 1) /\ t[p] = s[p]
               \/ ~(p < i) /\ p + 1 \in 0..(n - 1) /\ p + 1 > i /\ t[p] = s[p + 1]
    BY <1>1
  <1>5. SortedTo(t, n - 1)
    <2> SUFFICES ASSUME NEW p \in 0..(n - 2), NEW q \in 0..(n - 2), p < q
                 PROVE  t[p].first < t[q].first
      BY <1>1 DEF SortedTo
    <2>1. p \in Nat /\ q \in Nat
      OBVIOUS
    <2>2. PICK a \in 0..(n - 1) : t[p] = s[a] /\ a = IF p < i THEN p ELSE p + 1
      BY <1>4
    <2>3. PICK b \in 0..(n - 1) : t[q] = s[b] /\ b = IF q < i THEN q ELSE q + 1
      BY <1>4
    <2>4. a < b
      BY <1>1, <2>1, <2>2, <2>3
    <2> QED
      BY <2>2, <2>3, <2>4 DEF SortedTo
  <1>6. KeysTo(t, n - 1) = KeysTo(s, n) \ {k}
    <2>1. ASSUME NEW j \in KeysTo(t, n - 1) PROVE j \in KeysTo(s, n) \ {k}
      <3>1. PICK p \in 0..(n - 2) : j = t[p].first
        BY <1>1 DEF KeysTo
      <3>2. PICK a \in 0..(n - 1) : t[p] = s[a] /\ a # i
        BY <1>1, <1>4
      <3> QED
        BY <1>2, <1>3, <3>1, <3>2
    <2>2. ASSUME NEW j \in KeysTo(s, n), j # k PROVE j \in KeysTo(t, n - 1)
      <3>1. PICK p \in 0..(n - 1) : j = s[p].first
        BY DEF KeysTo
      <3>2. p # i
        BY <2>2, <3>1 DEF k
      <3>3. PICK a \in 0..(n - 2) : t[a] = s[p]
        <4>1. CASE p < i
          <5>1. p \in 0..(n - 2) /\ t[p] = s[p]
            BY <1>1, <4>1
          <5> QED
            BY <5>1
        <4>2. CASE ~(p < i)
          <5>1. p - 1 \in 0..(n - 2) /\ ~(p - 1 < i) /\ (p - 1) + 1 = p
            BY <1>1, <3>2, <4>2
          <5>2. t[p - 1] = s[p]
            BY <5>1
          <5> QED
            BY <5>1, <5>2
        <4> QED
          BY <4>1, <4>2
      <3>4. a \in 0..((n - 1) - 1) /\ t[a].first = j
        BY <1>1, <3>1, <3>3
      <3> QED
        BY <3>4 DEF KeysTo
    <2> QED
      BY <2>1, <2>2
  <1>7. /\ y = [j \in DOMAIN y |-> y[j]]
        /\ DOMAIN y = KeysTo(t, n - 1)
        /\ \A j \in KeysTo(s, n) : j # k => y[j] = x[j]
    BY <1>2, <1>6 DEF Without
  <1> HIDE DEF y
  <1>8. ASSUME NEW p \in 0..(n - 2) PROVE y[t[p].first] = t[p].second
    <2>1. PICK a \in 0..(n - 1) : t[p] = s[a] /\ a # i
      BY <1>1, <1>4
    <2> QED
      BY <1>2, <1>3, <1>7, <2>1
  <1>9. MapTo(t, n - 1) = y
    <2>1. \A p \in 0..((n - 1) - 1) : y[t[p].first] = t[p].second
      BY <1>1, <1>8
    <2> QED
      BY <1>1, <1>5, <1>7, <2>1, MapToMade
  <1>10. k \in DOMAIN x
    BY <1>2 DEF k
  <1> QED
    BY <1>5, <1>9, <1>10 DEF y, x, k

\* There are as many keys as pairs.
LEMMA KeysCounted ==
    ASSUME NEW s \in Pairs, NEW n \in 0..Size, SortedTo(s, n)
    PROVE  Cardinality(KeysTo(s, n)) = n
  <1> DEFINE f == [i \in 1..n |-> s[i - 1].first]
  <1>1. n \in Nat /\ \A i \in 1..n : i - 1 \in 0..(n - 1)
    BY MapAssumption
  <1>2. f \in [1..n -> KeysTo(s, n)]
    BY <1>1 DEF KeysTo
  <1>3. ASSUME NEW i \in 1..n, NEW j \in 1..n, f[i] = f[j] PROVE i = j
    <2>1. i - 1 \in 0..(n - 1) /\ j - 1 \in 0..(n - 1)
          /\ s[i - 1].first = s[j - 1].first
      BY <1>1, <1>3
    <2>2. i - 1 = j - 1
      BY <2>1, KeysApart
    <2> QED
      BY <1>1, <2>2
  <1>4. ASSUME NEW k \in KeysTo(s, n) PROVE \E i \in 1..n : f[i] = k
    <2>1. PICK p \in 0..(n - 1) : k = s[p].first
      BY DEF KeysTo
    <2>2. p + 1 \in 1..n /\ (p + 1) - 1 = p
      BY <1>1
    <2>3. f[p + 1] = k
      BY <2>1, <2>2
    <2> QED
      BY <2>2, <2>3
  <1> HIDE DEF f
  <1>5. f \in Bijection(1..n, KeysTo(s, n))
    BY <1>2, <1>3, <1>4, Zenon DEF Bijection, Injection, Surjection, IsInjective
  <1>6. ExistsBijection(1..n, KeysTo(s, n))
    BY <1>5 DEF ExistsBijection
  <1> QED
    BY <1>1, <1>6, FS_CountingElements

\* The map the pairs make before and after a step of a Fap.
BarMap == IF IsFap THEN SortedMap!Contents ELSE <<>>

MapStep == /\ MapInv /\ outside = FALSE /\ IsFap /\ IsFap'
           /\ slots \in Pairs /\ idx \in 0..Size /\ idx \in Nat /\ Size \in Nat
           /\ SortedTo(slots, idx)
           /\ BarMap = MapTo(slots, idx) /\ BarMap' = MapTo(slots', idx')

LEMMA MapSteps ==
    ASSUME MapInv, ~outside, IsFap, IsFap'
    PROVE  MapStep
  <1>1. /\ idx \in 0..Size /\ slots \in Pairs /\ Size \in Nat /\ idx \in Nat
        /\ outside = FALSE /\ SortedTo(slots, idx)
    BY MapAssumption DEF MapInv
  <1>2. BarMap = MapTo(slots, idx) /\ BarMap' = MapTo(slots', idx')
    BY DEF BarMap, SortedMap!Contents, SortedMap!Present, SortedMap!At, MapTo, KeysTo, PlaceOf
  <1> QED
    BY <1>1, <1>2 DEF MapStep

LEMMA MapKept ==
    ASSUME slots' \in Pairs, idx' \in 0..Size, threw' \in BOOLEAN, outside' \in BOOLEAN,
           SortedTo(slots', idx')
    PROVE  MapInv'
  <1>1. idx' \in 0..(Size + 1) /\ ~(idx' > Size)
    BY MapAssumption
  <1> QED
    BY <1>1 DEF MapInv

\* What is known of the keys and the place of one of them.
LEMMA PlaceIs ==
    ASSUME MapStep, NEW k \in Keys
    PROVE  /\ SortedMap!lower_bound(k) \in 0..idx /\ SortedMap!lower_bound(k) \in Nat
           /\ \A p \in 0..(idx - 1) :
                 /\ p \in Nat /\ p \in 0..Size /\ slots[p].first \in Nat
                 /\ slots[p].first \in DOMAIN BarMap
                 /\ slots[p].first < k <=> p < SortedMap!lower_bound(k)
                 /\ slots[p].first = k => p = SortedMap!lower_bound(k)
           /\ \A j \in DOMAIN BarMap : \E p \in 0..(idx - 1) : j = slots[p].first
           /\ Cardinality(DOMAIN BarMap) = idx
           /\ k \in Nat
  <1> DEFINE l == SortedMap!lower_bound(k)
  <1>1. /\ idx \in 0..Size /\ slots \in Pairs /\ Size \in Nat /\ idx \in Nat
        /\ SortedTo(slots, idx) /\ BarMap = MapTo(slots, idx) /\ MapInv
    BY DEF MapStep
  <1>2. l \in 0..idx /\ l \in Nat /\ \A p \in 0..(idx - 1) : slots[p].first < k <=> p < l
    <2>1. l = Cardinality({p \in 0..(idx - 1) : slots[p].first < k})
      BY DEF SortedMap!lower_bound, SortedMap!Cardinality, Cardinality
    <2>2. PICK m \in 0..idx : /\ Cardinality({p \in 0..(idx - 1) : slots[p].first < k}) = m
                              /\ \A p \in 0..(idx - 1) : slots[p].first < k <=> p < m
      BY <1>1, LowerBound
    <2>3. l = m
      BY <2>1, <2>2
    <2> HIDE DEF l
    <2> QED
      BY <1>1, <2>2, <2>3
  <1>3. DOMAIN BarMap = KeysTo(slots, idx)
    BY <1>1, MapToIs
  <1>4. k \in Nat
    BY MapAssumption
  <1> HIDE DEF l
  <1>5. ASSUME NEW p \in 0..(idx - 1)
        PROVE  /\ p \in Nat /\ p \in 0..Size /\ slots[p].first \in Nat
               /\ slots[p].first \in DOMAIN BarMap
               /\ slots[p].first = k => p = l
    <2>1. p \in Nat /\ p \in 0..Size
      BY <1>1
    <2>2. slots[p].first \in Nat
      BY <1>1, <2>1, PairsHave
    <2>3. slots[p].first \in DOMAIN BarMap
      BY <1>3 DEF KeysTo
    <2>4. ASSUME slots[p].first = k PROVE p = l
      <3>1. ~(p < l) /\ (l < p => l \in 0..(idx - 1))
        BY <1>1, <1>2, <1>4, <2>1, <2>4
      <3>2. ~(l < p)
        BY <1>1, <1>2, <1>4, <2>4, <3>1 DEF SortedTo
      <3> QED
        BY <1>2, <2>1, <3>1, <3>2
    <2> QED
      BY <2>1, <2>2, <2>3, <2>4
  <1>6. \A j \in DOMAIN BarMap : \E p \in 0..(idx - 1) : j = slots[p].first
    BY <1>3 DEF KeysTo
  <1>7. Cardinality(DOMAIN BarMap) = idx
    BY <1>1, <1>3, KeysCounted
  <1> QED
    BY <1>2, <1>4, <1>5, <1>6, <1>7 DEF l

\* A key is there exactly when the pair at its place has it.
LEMMA ThereIs ==
    ASSUME MapStep, NEW k \in Keys
    PROVE  k \in DOMAIN BarMap <=> /\ SortedMap!lower_bound(k) # idx
                                   /\ slots[SortedMap!lower_bound(k)].first = k
  <1>1. idx \in Nat
    BY DEF MapStep
  <1> DEFINE l == SortedMap!lower_bound(k)
  <1>2. /\ l \in 0..idx
        /\ \A p \in 0..(idx - 1) : /\ slots[p].first \in DOMAIN BarMap
                                   /\ slots[p].first = k => p = l
        /\ \A j \in DOMAIN BarMap : \E p \in 0..(idx - 1) : j = slots[p].first
    BY PlaceIs
  <1> HIDE DEF l
  <1>3. ASSUME k \in DOMAIN BarMap PROVE l # idx /\ slots[l].first = k
    <2>1. PICK p \in 0..(idx - 1) : k = slots[p].first
      BY <1>2, <1>3
    <2>2. p = l /\ p # idx
      BY <1>1, <1>2, <2>1
    <2> QED
      BY <2>1, <2>2
  <1>4. ASSUME l # idx, slots[l].first = k PROVE k \in DOMAIN BarMap
    <2>1. l \in 0..(idx - 1)
      BY <1>1, <1>2, <1>4
    <2> QED
      BY <1>2, <1>4, <2>1
  <1> QED
    BY <1>3, <1>4 DEF l

LEMMA MapBecomesIs ==
    ASSUME MapStep, NEW m, BarMap' = m, threw' = FALSE, outside' = outside
    PROVE  KeysAndValues!Becomes(m)
  BY DEF MapStep, BarMap, KeysAndValues!Becomes

\* insert() of a key that is not there, before the pair at l.
LEMMA NewPairOK ==
    ASSUME MapStep, NEW v \in SortedMap!value_type, NEW l \in Nat,
           l = SortedMap!lower_bound(v.first),
           l = idx \/ slots[l].first # v.first, idx < Size,
           slots' \in Pairs, idx' = idx + 1, threw' = FALSE, outside' = outside,
           \A p \in 0..idx :
              slots'[p] = IF p = l THEN v ELSE IF p < l THEN slots[p] ELSE slots[p - 1]
    PROVE  MapInv' /\ KeysAndValues!Insert(v.first, v.second)
  <1>1. /\ slots \in Pairs /\ idx \in 0..Size /\ SortedTo(slots, idx) /\ idx \in Nat
        /\ Size \in Nat /\ outside = FALSE /\ BarMap = MapTo(slots, idx)
        /\ BarMap' = MapTo(slots', idx')
    BY DEF MapStep
  <1>2. v.first \in Keys /\ idx + 1 \in 0..Size
    BY <1>1 DEF SortedMap!value_type
  <1>3. /\ l \in 0..idx /\ Cardinality(DOMAIN BarMap) = idx
        /\ \A p \in 0..(idx - 1) : slots[p].first < v.first <=> p < l
    BY <1>2, PlaceIs
  <1>4. v.first \notin DOMAIN BarMap
    BY <1>2, ThereIs
  <1>5. v.first \notin KeysTo(slots, idx)
    BY <1>1, <1>4, MapToIs
  <1>6. /\ SortedTo(slots', idx + 1)
        /\ MapTo(slots', idx + 1) = With(MapTo(slots, idx), v.first, v.second)
    BY <1>1, <1>2, <1>3, <1>5, InsertedPairs
  <1>7. MapInv'
    <2>1. threw' \in BOOLEAN /\ outside' \in BOOLEAN /\ idx' \in 0..Size /\ SortedTo(slots', idx')
      BY <1>1, <1>2, <1>6
    <2> QED
      BY <2>1, MapKept
  <1>8. BarMap' = KeysAndValues!With(v.first, v.second)
    <2>1. BarMap' = With(BarMap, v.first, v.second)
      BY <1>1, <1>6
    <2> QED
      BY <2>1 DEF With, KeysAndValues!With, BarMap
  <1>9. KeysAndValues!Becomes(KeysAndValues!With(v.first, v.second))
    BY <1>8, MapBecomesIs
  <1>10. ~KeysAndValues!Full
    <2>1. Cardinality(DOMAIN BarMap) # Size
      BY <1>1, <1>3
    <2> QED
      BY <2>1 DEF KeysAndValues!Full, KeysAndValues!Cardinality, Cardinality, BarMap
  <1> QED
    BY <1>4, <1>7, <1>9, <1>10 DEF KeysAndValues!Insert, BarMap

LEMMA MapInsertOK ==
    ASSUME MapStep, NEW v \in SortedMap!value_type, SortedMap!insert(v)
    PROVE  MapInv' /\ KeysAndValues!Insert(v.first, v.second)
  <1>1. /\ slots \in Pairs /\ idx \in 0..Size /\ SortedTo(slots, idx) /\ idx \in Nat
        /\ Size \in Nat /\ outside = FALSE
    BY DEF MapStep
  <1>2. BarMap = MapTo(slots, idx) /\ BarMap' = MapTo(slots', idx') /\ IsFap'
    BY DEF MapStep
  <1>3. v.first \in Keys
    BY DEF SortedMap!value_type
  <1>4. PICK l \in Nat : l = SortedMap!lower_bound(v.first) /\ l \in 0..idx
    BY <1>3, PlaceIs
  <1>5. /\ v.first \in Nat /\ Cardinality(DOMAIN BarMap) = idx
        /\ \A p \in 0..(idx - 1) : /\ slots[p].first \in Nat /\ slots[p].first \in DOMAIN BarMap
                                   /\ slots[p].first < v.first <=> p < l
        /\ \A j \in DOMAIN BarMap : \E p \in 0..(idx - 1) : j = slots[p].first
    BY <1>3, <1>4, PlaceIs
  <1>6. v.first \in DOMAIN BarMap <=> l # idx /\ slots[l].first = v.first
    BY <1>3, <1>4, ThereIs
  <1>7. idx = Size => KeysAndValues!Full
    <2>1. idx = Size => Cardinality(DOMAIN BarMap) = Size
      BY <1>5
    <2> QED
      BY <2>1 DEF KeysAndValues!Full, KeysAndValues!Cardinality, Cardinality, BarMap
  <1>8. CASE l = idx /\ idx >= Size /\ threw' = TRUE /\ UNCHANGED <<slots, idx, outside>>
    <2>1. idx = Size /\ v.first \notin DOMAIN BarMap /\ \A j \in DOMAIN BarMap : j < v.first
      BY <1>1, <1>5, <1>6, <1>8
    <2>2. MapInv'
      BY <1>1, <1>8, MapKept
    <2>3. BarMap' = BarMap
      BY <1>2, <1>8
    <2>4. (IsFap /\ threw)' = TRUE /\ (IsFap /\ outside)' = (IsFap /\ outside)
      BY <1>1, <1>2, <1>8
    <2> QED
      BY <1>7, <2>1, <2>2, <2>3, <2>4 DEF KeysAndValues!Insert, BarMap
  <1>9. CASE /\ l = idx /\ idx < Size /\ slots' = [slots EXCEPT ![idx] = v]
             /\ idx' = (idx + 1) % IdxRange /\ threw' = FALSE /\ UNCHANGED outside
    <2>1. idx' = idx + 1
      BY <1>1, <1>9, IncrementedIs, MapAssumption
    <2>2. slots' \in Pairs
      BY <1>1, <1>9 DEF Pairs
    <2>3. \A p \in 0..idx :
             slots'[p] = IF p = l THEN v ELSE IF p < l THEN slots[p] ELSE slots[p - 1]
      BY <1>1, <1>9 DEF Pairs
    <2> QED
      BY <1>4, <1>9, <2>1, <2>2, <2>3, NewPairOK
  <1>10. CASE /\ l # idx /\ slots[l].first # v.first
              /\ slots' = [p \in 0..Size |-> IF p = l THEN v
                                            ELSE IF l < p /\ p <= idx THEN slots[p - 1]
                                            ELSE slots[p]]
              /\ idx' = (idx + 1) % IdxRange /\ threw' = FALSE
              /\ \/ idx < Size /\ UNCHANGED outside
                 \/ idx = Size /\ outside' = TRUE
    <2>1. l < idx /\ idx # 0 /\ l \in 0..(idx - 1)
      BY <1>1, <1>4, <1>10
    <2>2. slots' \in Pairs
      <3>1. \A p \in 0..Size : (IF p = l THEN v ELSE IF l < p /\ p <= idx THEN slots[p - 1]
                                ELSE slots[p]) \in SortedMap!value_type
        BY <1>1, <2>1 DEF Pairs
      <3> QED
        BY <1>10, <3>1 DEF Pairs
    <2>3. idx' \in 0..(Size + 1) /\ (idx < Size => idx' = idx + 1)
      BY <1>1, <1>10, IncrementedIs, MapAssumption
    <2>4. CASE idx < Size /\ UNCHANGED outside
      <3>1. \A p \in 0..idx :
               slots'[p] = IF p = l THEN v ELSE IF p < l THEN slots[p] ELSE slots[p - 1]
        BY <1>1, <1>10, <2>1
      <3>2. idx' = idx + 1
        BY <2>3, <2>4
      <3> QED
        BY <1>4, <1>10, <2>2, <2>4, <3>1, <3>2, NewPairOK
    <2>5. CASE idx = Size /\ outside' = TRUE
      <3>1. MapInv'
        <4>1. threw' \in BOOLEAN /\ outside' = TRUE
          BY <1>10, <2>5
        <4> QED
          BY <2>2, <2>3, <4>1 DEF MapInv
      <3>2. v.first \notin DOMAIN BarMap /\ slots[l].first \in DOMAIN BarMap
            /\ v.first < slots[l].first
        <4>1. slots[l].first \in Nat /\ ~(slots[l].first < v.first)
              /\ slots[l].first \in DOMAIN BarMap
          BY <1>4, <1>5, <2>1
        <4> QED
          BY <1>5, <1>6, <1>10, <4>1
      <3>3. (IsFap /\ outside)' = TRUE
        BY <1>2, <2>5
      <3>4. KeysAndValues!Full
        BY <1>7, <2>5
      <3>5. \E j \in DOMAIN BarMap : v.first < j
        BY <3>2
      <3> QED
        BY <3>1, <3>2, <3>3, <3>4, <3>5 DEF KeysAndValues!Insert, BarMap
    <2> QED
      BY <1>10, <2>4, <2>5
  <1>11. CASE /\ l # idx /\ slots[l].first = v.first
              /\ threw' = FALSE /\ UNCHANGED <<slots, idx, outside>>
    <2>1. MapInv'
      BY <1>1, <1>11, MapKept
    <2>2. KeysAndValues!Becomes(BarMap)
      BY <1>2, <1>11, MapBecomesIs
    <2>3. v.first \in DOMAIN BarMap
      BY <1>6, <1>11
    <2> QED
      BY <2>1, <2>2, <2>3 DEF KeysAndValues!Insert, BarMap
  <1>12. l # idx => idx # 0 /\ ~(l = idx /\ idx # 0)
    BY <1>1, <1>4
  <1> QED
    BY <1>4, <1>8, <1>9, <1>10, <1>11, <1>12
       DEF SortedMap!insert, SortedMap!Store!PushBack, SortedMap!Store!Insert,
           SortedMap!Store!Positions, SortedMap!Store!Incremented

\* The pair at a place goes.
LEMMA PairGoes ==
    ASSUME MapStep, NEW it \in 0..(idx - 1), SortedMap!Store!Erase(it, 1)
    PROVE  /\ MapInv' /\ slots[it].first \in DOMAIN BarMap
           /\ KeysAndValues!Becomes(KeysAndValues!Without(slots[it].first))
  <1>1. /\ slots \in Pairs /\ idx \in 0..Size /\ SortedTo(slots, idx) /\ idx \in Nat
        /\ Size \in Nat /\ it \in Nat /\ it < idx /\ outside = FALSE
        /\ BarMap = MapTo(slots, idx) /\ BarMap' = MapTo(slots', idx')
    BY DEF MapStep
  <1>2. /\ slots' = [p \in 0..Size |-> IF it <= p /\ p + 1 < idx THEN slots[p + 1] ELSE slots[p]]
        /\ idx' = idx - 1 /\ threw' = FALSE /\ outside' = outside
    BY DEF SortedMap!Store!Erase, SortedMap!Store!Positions
  <1>3. slots' \in Pairs /\ idx - 1 \in 0..Size /\ idx \in 1..Size
    <2>1. \A p \in 0..Size : (IF it <= p /\ p + 1 < idx THEN slots[p + 1] ELSE slots[p])
                                \in SortedMap!value_type
      BY <1>1 DEF Pairs
    <2>2. slots' \in Pairs
      BY <1>2, <2>1 DEF Pairs
    <2> QED
      BY <1>1, <2>2
  <1>4. \A p \in 0..(idx - 2) : slots'[p] = IF p < it THEN slots[p] ELSE slots[p + 1]
    BY <1>1, <1>2
  <1>5. /\ SortedTo(slots', idx - 1)
        /\ slots[it].first \in DOMAIN MapTo(slots, idx)
        /\ MapTo(slots', idx - 1) = Without(MapTo(slots, idx), slots[it].first)
    BY <1>1, <1>3, <1>4, ErasedPairs
  <1>6. BarMap' = KeysAndValues!Without(slots[it].first)
    <2>1. BarMap' = Without(BarMap, slots[it].first)
      BY <1>1, <1>2, <1>5
    <2> QED
      BY <2>1 DEF Without, KeysAndValues!Without, BarMap
  <1>7. KeysAndValues!Becomes(KeysAndValues!Without(slots[it].first))
    BY <1>2, <1>6, MapBecomesIs
  <1>8. MapInv'
    BY <1>1, <1>2, <1>3, <1>5, MapKept
  <1> QED
    BY <1>1, <1>5, <1>7, <1>8

LEMMA MapEraseAtOK ==
    ASSUME MapStep, NEW it \in Nat, SortedMap!eraseAt(it)
    PROVE  /\ MapInv' /\ it \in 0..(idx - 1) /\ slots[it].first \in Keys
           /\ KeysAndValues!EraseAt(slots[it].first)
  <1>1. it \in 0..(idx - 1) /\ SortedMap!Store!Erase(it, 1)
    BY DEF SortedMap!eraseAt, MapStep
  <1>2. /\ MapInv' /\ slots[it].first \in DOMAIN BarMap
        /\ KeysAndValues!Becomes(KeysAndValues!Without(slots[it].first))
    BY <1>1, PairGoes
  <1>3. slots[it].first \in Keys
    <2>1. it \in 0..Size /\ slots \in Pairs
      BY <1>1 DEF MapStep
    <2> QED
      BY <2>1, PairsHave
  <1> QED
    BY <1>1, <1>2, <1>3 DEF KeysAndValues!EraseAt, BarMap

\* find() ends at its key's place, whatever key is there.
LEMMA FindIs ==
    ASSUME MapStep, NEW k \in Keys
    PROVE  /\ SortedMap!find(k) = SortedMap!lower_bound(k)
           /\ SortedMap!find(k) \in 0..idx
           /\ SortedMap!find(k) = idx => \A j \in DOMAIN BarMap : j < k
           /\ SortedMap!find(k) # idx =>
                 /\ k <= slots[SortedMap!find(k)].first
                 /\ \A j \in DOMAIN BarMap : k <= j => slots[SortedMap!find(k)].first <= j
  <1>1. idx \in Nat /\ SortedTo(slots, idx)
    BY DEF MapStep
  <1>2. PICK l \in Nat : l = SortedMap!lower_bound(k) /\ l \in 0..idx
    BY PlaceIs
  <1>3. /\ \A p \in 0..(idx - 1) : /\ p \in Nat /\ slots[p].first \in Nat
                                   /\ slots[p].first < k <=> p < l
        /\ \A j \in DOMAIN BarMap : \E p \in 0..(idx - 1) : j = slots[p].first
        /\ k \in Nat
    BY <1>2, PlaceIs
  <1>4. l # idx => l \in 0..(idx - 1) /\ ~(slots[l].first < k) /\ slots[l].first \in Nat
    BY <1>1, <1>2, <1>3
  <1>5. SortedMap!find(k) = l
    BY <1>2, <1>4 DEF SortedMap!find
  <1>6. ASSUME l = idx, NEW j \in DOMAIN BarMap PROVE j < k
    BY <1>1, <1>3, <1>6
  <1>7. ASSUME l # idx, NEW j \in DOMAIN BarMap, k <= j PROVE slots[l].first <= j
    <2>1. PICK p \in 0..(idx - 1) : j = slots[p].first
      BY <1>3
    <2>2. p \in Nat /\ slots[p].first \in Nat /\ ~(p < l)
      BY <1>3, <1>7, <2>1
    <2>3. p = l \/ slots[l].first < slots[p].first
      BY <1>1, <1>2, <1>4, <1>7, <2>2 DEF SortedTo
    <2> QED
      BY <1>4, <1>7, <2>1, <2>2, <2>3
  <1>8. l # idx => k <= slots[l].first
    BY <1>3, <1>4
  <1> QED
    BY <1>2, <1>5, <1>6, <1>7, <1>8

LEMMA MapEraseOK ==
    ASSUME MapStep, NEW k \in Keys, SortedMap!erase(k)
    PROVE  MapInv' /\ KeysAndValues!Erase(k)
  <1>1. PICK it \in 0..idx : it = SortedMap!find(k)
    BY FindIs
  <1>2. CASE it # idx /\ SortedMap!Store!Erase(it, 1)
    <2>1. it \in 0..(idx - 1)
      BY <1>1, <1>2 DEF MapStep
    <2>2. /\ MapInv' /\ slots[it].first \in DOMAIN BarMap
          /\ KeysAndValues!Becomes(KeysAndValues!Without(slots[it].first))
      BY <1>2, <2>1, PairGoes
    <2>3. /\ k <= slots[it].first
          /\ \A j \in DOMAIN BarMap : k <= j => slots[it].first <= j
      BY <1>1, <1>2, FindIs
    <2> QED
      BY <2>2, <2>3 DEF KeysAndValues!Erase, BarMap
  <1>3. CASE it = idx /\ threw' = FALSE /\ UNCHANGED <<slots, idx, outside>>
    <2>1. \A j \in DOMAIN BarMap : j < k
      BY <1>1, <1>3, FindIs
    <2>2. /\ slots \in Pairs /\ idx \in 0..Size /\ outside = FALSE /\ SortedTo(slots, idx)
          /\ BarMap = MapTo(slots, idx) /\ BarMap' = MapTo(slots', idx')
      BY DEF MapStep
    <2>3. KeysAndValues!Becomes(BarMap)
      BY <1>3, <2>2, MapBecomesIs
    <2>4. MapInv'
      BY <1>3, <2>2, MapKept
    <2> QED
      BY <2>1, <2>3, <2>4 DEF KeysAndValues!Erase, BarMap
  <1> QED
    BY <1>1, <1>2, <1>3 DEF SortedMap!erase

\* Every operation is that of its name, and each step is one of them.
LEMMA MapNextOK ==
    ASSUME MapInv, IsFap, IsFap', SortedMap!Next
    PROVE  MapInv' /\ KeysAndValues!Next /\ MapOperations
  <1>1. MapStep
    BY MapSteps DEF SortedMap!Next
  <1>2. idx \in Nat /\ Size \in Nat /\ ~outside
    BY <1>1 DEF MapStep
  <1>3. \A k \in Keys, v \in Vals :
           /\ [first |-> k, second |-> v] \in SortedMap!value_type
           /\ [first |-> k, second |-> v].first = k /\ [first |-> k, second |-> v].second = v
    BY DEF SortedMap!value_type
  <1>4. \A v \in SortedMap!value_type : v.first \in Keys /\ v.second \in Vals
    BY DEF SortedMap!value_type
  <1>5. MapOperations
    <2>1. ASSUME NEW k \in Keys, NEW v \in Vals,
                 SortedMap!insert([first |-> k, second |-> v])
          PROVE  KeysAndValues!Insert(k, v)
      <3> DEFINE w == [first |-> k, second |-> v]
      <3>1. w \in SortedMap!value_type /\ w.first = k /\ w.second = v /\ SortedMap!insert(w)
        BY <1>3, <2>1
      <3> HIDE DEF w
      <3>2. KeysAndValues!Insert(w.first, w.second)
        BY <1>1, <3>1, MapInsertOK
      <3> QED
        BY <3>1, <3>2
    <2>2. ASSUME NEW it \in 0..(idx - 1), SortedMap!eraseAt(it)
          PROVE  KeysAndValues!EraseAt(slots[it].first)
      <3>1. it \in Nat
        OBVIOUS
      <3> QED
        BY <1>1, <2>2, <3>1, MapEraseAtOK
    <2>3. \A k \in Keys : SortedMap!erase(k) => KeysAndValues!Erase(k)
      BY <1>1, MapEraseOK
    <2> QED
      BY <2>1, <2>2, <2>3 DEF MapOperations
  <1>6. CASE \E v \in SortedMap!value_type : SortedMap!insert(v)
    <2>1. PICK v \in SortedMap!value_type : SortedMap!insert(v)
      BY <1>6
    <2>2. MapInv' /\ KeysAndValues!Insert(v.first, v.second)
      BY <1>1, <2>1, MapInsertOK
    <2>3. v.first \in Keys /\ v.second \in Vals
      BY <1>4
    <2> QED
      BY <1>2, <1>5, <2>2, <2>3 DEF KeysAndValues!Next
  <1>7. CASE \E it \in 0..(Size - 1) : SortedMap!eraseAt(it)
    <2>1. PICK it \in 0..(Size - 1) : SortedMap!eraseAt(it)
      BY <1>7
    <2>2. it \in Nat
      OBVIOUS
    <2>3. MapInv' /\ slots[it].first \in Keys /\ KeysAndValues!EraseAt(slots[it].first)
      BY <1>1, <2>1, <2>2, MapEraseAtOK
    <2> QED
      BY <1>2, <1>5, <2>3 DEF KeysAndValues!Next
  <1>8. CASE \E k \in Keys : SortedMap!erase(k)
    BY <1>1, <1>2, <1>5, <1>8, MapEraseOK DEF KeysAndValues!Next
  <1> QED
    BY <1>6, <1>7, <1>8 DEF SortedMap!Next

LEMMA MapFinds ==
    ASSUME MapInv, IsFap, ~outside
    PROVE  SortedMap!FindsFrom
  <1>1. /\ idx \in 0..Size /\ slots \in Pairs /\ Size \in Nat /\ idx \in Nat
        /\ SortedTo(slots, idx)
    BY MapAssumption DEF MapInv
  <1>2. SortedMap!Sorted
    BY <1>1 DEF SortedMap!Sorted, SortedTo
  <1>3. ASSUME NEW k \in Keys
        PROVE  \/ SortedMap!find(k) = idx /\ \A j \in SortedMap!Present : j < k
               \/ /\ SortedMap!find(k) < idx /\ k <= slots[SortedMap!find(k)].first
                  /\ \A j \in SortedMap!Present : k <= j => slots[SortedMap!find(k)].first <= j
    <2>1. PICK l \in 0..idx :
             /\ Cardinality({p \in 0..(idx - 1) : slots[p].first < k}) = l
             /\ \A p \in 0..(idx - 1) : slots[p].first < k <=> p < l
      BY <1>1, LowerBound
    <2>2. SortedMap!lower_bound(k) = l
      BY <2>1 DEF SortedMap!lower_bound, SortedMap!Cardinality, Cardinality
    <2>3. /\ k \in Nat /\ l \in Nat
          /\ \A p \in 0..(idx - 1) : p \in Nat /\ slots[p].first \in Nat
      <3>1. \A p \in 0..(idx - 1) : p \in Nat /\ p \in 0..Size
        BY <1>1
      <3> QED
        BY <1>1, <3>1, PairsHave, MapAssumption
    <2>4. l # idx => l < idx /\ l \in 0..(idx - 1) /\ ~(slots[l].first < k)
      BY <1>1, <2>1, <2>3
    <2>5. SortedMap!find(k) = l
      BY <2>2, <2>4 DEF SortedMap!find
    <2>6. ASSUME l = idx, NEW j \in SortedMap!Present PROVE j < k
      <3>1. PICK p \in 0..(idx - 1) : j = slots[p].first
        BY DEF SortedMap!Present
      <3>2. p < l
        BY <1>1, <2>3, <2>6
      <3> QED
        BY <2>1, <3>1, <3>2
    <2>7. ASSUME l # idx, NEW j \in SortedMap!Present, k <= j PROVE slots[l].first <= j
      <3>1. PICK p \in 0..(idx - 1) : j = slots[p].first
        BY DEF SortedMap!Present
      <3>2. p \in Nat /\ slots[p].first \in Nat /\ ~(p < l)
        BY <2>1, <2>3, <2>7, <3>1
      <3>3. p = l \/ slots[l].first < slots[p].first
        BY <1>1, <2>3, <2>4, <2>7, <3>2 DEF SortedTo
      <3> QED
        BY <2>3, <2>4, <2>7, <3>1, <3>2, <3>3
    <2>8. l # idx => k <= slots[l].first
      BY <2>3, <2>4
    <2> QED
      BY <2>4, <2>5, <2>6, <2>7, <2>8
  <1> QED
    BY <1>2, <1>3 DEF SortedMap!FindsFrom

LEMMA MapTakes ==
    ASSUME SequentialNext, IsFap
    PROVE  SortedMap!Next /\ UNCHANGED part
  <1>1. UNCHANGED part /\ part = "Fap"
    BY DEF SequentialNext, IsFap
  <1> QED
    BY <1>1 DEF SequentialNext, ContainersNext, IsFector, IsFap, IsCache, IsCombinations,
                IsBllocator, IsBits, IsSqlite, IsClient

LEMMA MapStarts ==
    ASSUME SequentialInit, IsFap
    PROVE  SortedMap!Init
  <1>1. part = "Fap"
    BY DEF IsFap
  <1> QED
    BY <1>1 DEF SequentialInit, ContainersInit, IsFector, IsFap, IsCache, IsCombinations,
                IsBllocator, IsBits, IsSqlite, IsClient

LEMMA MapEmpty ==
    ASSUME NEW s
    PROVE  MapTo(s, 0) = <<>>
  <1>1. KeysTo(s, 0) = {}
    BY DEF KeysTo
  <1>2. MapTo(s, 0) \in [{} -> {}]
    BY <1>1 DEF MapTo
  <1>3. 1..0 = {} /\ 0 \in Nat
    OBVIOUS
  <1>4. MapTo(s, 0) \in Seq({}) /\ DOMAIN MapTo(s, 0) = 1..0
    BY <1>2, <1>3, SeqDef
  <1>5. Len(MapTo(s, 0)) = 0
    BY <1>3, <1>4, LenProperties
  <1> QED
    BY <1>4, <1>5, EmptySeq

\* Whatever is inserted and erased, the pairs stay sorted, find() gives the first
\* key that is not less, and every operation does to the map what the operation
\* of the same name does: a key that is there keeps its value, and only one key
\* goes (fap.hpp 50-120).
THEOREM FapIsMap == SequentialSpec => ImplementsMap
  <1> DEFINE Inv == IsFap => MapInv
  <1>1. SequentialInit => Inv /\ KeysAndValues!Init
    <2> SUFFICES ASSUME SequentialInit PROVE Inv /\ KeysAndValues!Init
      OBVIOUS
    <2>1. CASE IsFap
      <3>1. slots \in Pairs /\ idx = 0 /\ threw = FALSE /\ outside = FALSE
        BY <2>1, MapStarts DEF SortedMap!Init, SortedMap!Store!Init,
                               SortedMap!Store!Positions, Pairs
      <3>2. 0 \in 0..(Size + 1) /\ ~(0 > Size) /\ SortedTo(slots, 0)
        BY MapAssumption DEF SortedTo
      <3>3. MapInv
        BY <3>1, <3>2 DEF MapInv
      <3>4. SortedMap!Contents = <<>>
        <4>1. SortedMap!Contents = MapTo(slots, idx)
          BY DEF SortedMap!Contents, SortedMap!Present, SortedMap!At, MapTo, KeysTo, PlaceOf
        <4> QED
          BY <3>1, <4>1, MapEmpty
      <3> QED
        BY <2>1, <3>1, <3>3, <3>4 DEF KeysAndValues!Init
    <2>2. CASE ~IsFap
      BY <2>2 DEF KeysAndValues!Init
    <2> QED
      BY <2>1, <2>2
  <1>2. Inv /\ [SequentialNext]_sequentialVars
        => /\ Inv' /\ [KeysAndValues!Next]_(KeysAndValues!vars)
           /\ [MapOperations]_sequentialVars
    <2> SUFFICES ASSUME Inv, [SequentialNext]_sequentialVars
                 PROVE  /\ Inv' /\ (KeysAndValues!Next \/ UNCHANGED KeysAndValues!vars)
                        /\ (MapOperations \/ UNCHANGED sequentialVars)
      OBVIOUS
    <2>1. UNCHANGED part
      BY DEF SequentialNext, sequentialVars
    <2>2. CASE ~IsFap
      BY <2>1, <2>2 DEF IsFap, MapOperations, KeysAndValues!vars
    <2>3. CASE UNCHANGED sequentialVars
      BY <2>3 DEF sequentialVars, containerVars, arrayVars, IsFap, MapInv,
                  SortedMap!Contents, SortedMap!Present, SortedMap!At, KeysAndValues!vars
    <2>4. CASE IsFap /\ SequentialNext
      BY <2>1, <2>4, MapTakes, MapNextOK DEF IsFap
    <2> QED
      BY <2>2, <2>3, <2>4
  <1>3. Inv => (IsFap /\ ~outside => SortedMap!FindsFrom)
    BY MapFinds
  <1> QED
    BY <1>1, <1>2, <1>3, PTL DEF SequentialSpec, ImplementsMap, KeysAndValues!Spec
-----------------------------------------------------------------------------
(***************************************************************************)
(* marble's client                                                         *)
(***************************************************************************)
\* s is the beginning of t, as what has arrived of a reply is of what was sent.
Begins(s, t) == Len(s) <= Len(t) /\ \A i \in 1..Len(s) : s[i] = t[i]

LEMMA PartOf ==
    ASSUME NEW S, NEW s \in Seq(S), NEW m \in Nat, NEW n \in Nat, m <= n, n <= Len(s)
    PROVE  /\ SubSeq(s, m + 1, n) \in Seq(S) /\ Len(SubSeq(s, m + 1, n)) = n - m
           /\ \A i \in 1..(n - m) : SubSeq(s, m + 1, n)[i] = s[m + i]
  <1>1. m + 1 \in Int /\ n \in Int /\ \A i \in (m + 1)..n : s[i] \in S
    <2>1. Len(s) \in Nat /\ \A i \in 1..Len(s) : s[i] \in S
      BY ElementOfSeq
    <2> QED
      BY <2>1
  <1>2. /\ SubSeq(s, m + 1, n) \in Seq(S)
        /\ Len(SubSeq(s, m + 1, n)) = IF m + 1 <= n THEN n - (m + 1) + 1 ELSE 0
        /\ \A i \in 1 .. n - (m + 1) + 1 : SubSeq(s, m + 1, n)[i] = s[(m + 1) + i - 1]
    BY <1>1, SubSeqProperties
  <1>3. n - (m + 1) + 1 = n - m /\ \A i \in 1..(n - m) : (m + 1) + i - 1 = m + i
    OBVIOUS
  <1> QED
    BY <1>2, <1>3

\* What has arrived and is not used yet.  Taking some of it from the wire and
\* putting it behind the buffer leaves it as it was.
Stream(b, w) == b \o w

LEMMA TakenOver ==
    ASSUME NEW S, NEW b \in Seq(S), NEW w \in Seq(S), NEW k \in 0..Len(w)
    PROVE  /\ b \o SubSeq(w, 1, k) \in Seq(S) /\ SubSeq(w, k + 1, Len(w)) \in Seq(S)
           /\ Len(b \o SubSeq(w, 1, k)) = Len(b) + k
           /\ Len(SubSeq(w, k + 1, Len(w))) = Len(w) - k
           /\ Stream(b \o SubSeq(w, 1, k), SubSeq(w, k + 1, Len(w))) = Stream(b, w)
  <1>1. /\ k \in Nat /\ k <= Len(w) /\ Len(w) \in Nat /\ 0 \in Nat /\ 0 <= k
        /\ Len(w) <= Len(w) /\ 0 + 1 = 1 /\ k - 0 = k
    OBVIOUS
  <1>2. SubSeq(w, 1, k) \in Seq(S) /\ Len(SubSeq(w, 1, k)) = k
    BY <1>1, PartOf
  <1>3. SubSeq(w, k + 1, Len(w)) \in Seq(S) /\ Len(SubSeq(w, k + 1, Len(w))) = Len(w) - k
    BY <1>1, PartOf
  <1>4. SubSeq(w, 1, k) \o SubSeq(w, k + 1, Len(w)) = w
    <2> SUFFICES SubSeq(w, 1, k) \o SubSeq(w, k + 1, Len(w)) = SubSeq(w, 1, Len(w))
      BY SubSeqFull
    <2>1. 1 \in 1..Len(w) + 1 /\ k \in 1 - 1 .. Len(w) /\ Len(w) \in k .. Len(w)
      BY <1>1
    <2> QED
      BY <2>1, ConcatAdjacentSubSeq
  <1> DEFINE u == SubSeq(w, 1, k)
             v == SubSeq(w, k + 1, Len(w))
  <1> HIDE DEF u, v
  <1>5. u \in Seq(S) /\ v \in Seq(S) /\ Len(u) = k /\ Len(v) = Len(w) - k /\ u \o v = w
    BY <1>2, <1>3, <1>4 DEF u, v
  <1>6. b \o u \in Seq(S) /\ Len(b \o u) = Len(b) + k
    BY <1>5, ConcatProperties
  <1>7. (b \o u) \o v = b \o w
    <2>1. ASSUME NEW x \in Seq(S), NEW y \in Seq(S), NEW z \in Seq(S)
          PROVE  (x \o y) \o z = x \o (y \o z)
      BY ConcatAssociative, SMTT(60)
    <2>2. (b \o u) \o v = b \o (u \o v)
      BY <1>5, <2>1, ZenonT(60)
    <2> QED
      BY <1>5, <2>2
  <1> QED
    BY <1>5, <1>6, <1>7 DEF u, v, Stream

\* A sequence behind a part of it that another one begins with.
LEMMA Behind ==
    ASSUME NEW S, NEW s \in Seq(S), NEW a \in Seq(S), NEW t \in Seq(S),
           Begins(s, a \o t), Len(a) <= Len(s)
    PROVE  /\ SubSeq(s, Len(a) + 1, Len(s)) \in Seq(S)
           /\ \A i \in 1..Len(a) : s[i] = a[i]
           /\ Begins(SubSeq(s, Len(a) + 1, Len(s)), t)
  <1> DEFINE n == Len(a)
             r == SubSeq(s, n + 1, Len(s))
  <1>1. n \in Nat /\ Len(s) \in Nat /\ Len(t) \in Nat /\ n <= Len(s) /\ Len(s) <= Len(s)
    OBVIOUS
  <1>2. /\ Len(a \o t) = n + Len(t)
        /\ \A i \in 1..(n + Len(t)) : (a \o t)[i] = IF i <= n THEN a[i] ELSE t[i - n]
    BY ConcatProperties
  <1>3. Len(s) <= n + Len(t) /\ \A i \in 1..Len(s) : s[i] = (a \o t)[i]
    BY <1>2 DEF Begins
  <1> HIDE DEF n
  <1>4. r \in Seq(S) /\ Len(r) = Len(s) - n /\ \A i \in 1..(Len(s) - n) : r[i] = s[n + i]
    BY <1>1, PartOf
  <1> HIDE DEF r
  <1>5. ASSUME NEW i \in 1..n PROVE s[i] = a[i]
    <2>1. i \in 1..Len(s) /\ i \in 1..(n + Len(t)) /\ i <= n
      BY <1>1
    <2> QED
      BY <1>2, <1>3, <2>1
  <1>6. ASSUME NEW i \in 1..Len(r) PROVE r[i] = t[i]
    <2>1. i \in 1..(Len(s) - n)
      BY <1>4
    <2>2. /\ n + i \in 1..Len(s) /\ n + i \in 1..(n + Len(t)) /\ ~(n + i <= n)
          /\ (n + i) - n = i
      BY <1>1, <1>3, <2>1
    <2> QED
      BY <1>2, <1>3, <1>4, <2>1, <2>2
  <1>7. Len(r) <= Len(t)
    BY <1>1, <1>3, <1>4
  <1> QED
    BY <1>4, <1>5, <1>6, <1>7 DEF Begins, n, r

LEMMA BeginsAll ==
    ASSUME NEW S, NEW s \in Seq(S), NEW t \in Seq(S), Begins(s, t), Len(t) <= Len(s)
    PROVE  s = t
  <1>1. Len(s) = Len(t)
    BY DEF Begins
  <1> QED
    BY <1>1, SeqEqual DEF Begins

\* Less of the wire, as the server leaves it that closes the connection.
LEMMA BeginsLess ==
    ASSUME NEW S, NEW b \in Seq(S), NEW w \in Seq(S), NEW t \in Seq(S), Begins(b \o w, t),
           NEW k \in 0..Len(w)
    PROVE  SubSeq(w, 1, k) \in Seq(S) /\ Begins(b \o SubSeq(w, 1, k), t)
  <1>1. /\ k \in Nat /\ k <= Len(w) /\ Len(w) \in Nat /\ 0 \in Nat /\ 0 <= k
        /\ 0 + 1 = 1 /\ k - 0 = k /\ Len(b) \in Nat
    OBVIOUS
  <1>2. /\ SubSeq(w, 1, k) \in Seq(S) /\ Len(SubSeq(w, 1, k)) = k
        /\ \A i \in 1..k : SubSeq(w, 1, k)[i] = w[0 + i]
    BY <1>1, PartOf
  <1> DEFINE v == SubSeq(w, 1, k)
  <1> HIDE DEF v
  <1>3. /\ Len(b \o v) = Len(b) + k
        /\ \A i \in 1..(Len(b) + k) : (b \o v)[i] = IF i <= Len(b) THEN b[i] ELSE v[i - Len(b)]
    BY <1>2, ConcatProperties DEF v
  <1>4. /\ Len(b \o w) = Len(b) + Len(w)
        /\ \A i \in 1..(Len(b) + Len(w)) : (b \o w)[i] = IF i <= Len(b) THEN b[i] ELSE w[i - Len(b)]
    BY ConcatProperties
  <1>5. ASSUME NEW i \in 1..(Len(b) + k) PROVE (b \o v)[i] = t[i]
    <2>1. i \in 1..(Len(b) + Len(w)) /\ (b \o w)[i] = t[i]
      BY <1>1, <1>4 DEF Begins
    <2>2. CASE i <= Len(b)
      BY <1>3, <1>4, <2>1, <2>2
    <2>3. CASE ~(i <= Len(b))
      <3>1. i - Len(b) \in 1..k /\ 0 + (i - Len(b)) = i - Len(b)
        BY <1>1, <2>3
      <3> QED
        BY <1>2, <1>3, <1>4, <2>1, <2>3, <3>1 DEF v
    <2> QED
      BY <2>2, <2>3
  <1>6. Len(b \o v) <= Len(t)
    BY <1>1, <1>3, <1>4 DEF Begins
  <1> QED
    BY <1>2, <1>3, <1>5, <1>6 DEF Begins, v
-----------------------------------------------------------------------------
\* What is on the wire, the sizes a chunk may have, and the header of a reply.
Pieces == [is : {"header"}, of : Nat, framing : {r.framing : r \in Connection!Replies},
           says : {r.says : r \in Connection!Replies}]
          \cup [is : {"byte", "size", "end"}, of : Nat, size : Int]
HeaderOf(n, r) == [is |-> "header", of |-> n, framing |-> r.framing, says |-> r.says]
SaidSizes == {Connection!Bad} \cup Nat

\* What a reply is, and what its sender makes of it.
LEMMA ReplyIs ==
    ASSUME NEW r \in Connection!Replies
    PROVE  /\ r.framing \in {"length", "none", "chunked"}
           /\ r.framing = "chunked" => /\ r.says \in Seq(SaidSizes) /\ Len(r.says) <= 2
                                       /\ DOMAIN r.says = 1..Len(r.says)
                                       /\ \A i \in 1..Len(r.says) : r.says[i] \in SaidSizes \ {0}
           /\ r.framing # "chunked" => r.says \in SaidSizes /\ r.content \in Nat
           /\ r.framing = "none" => r.says = 0
  <1>1. Connection!Lengths \subseteq Nat /\ MaxContent \in Nat
    BY ClientAssumption DEF Connection!Lengths
  <1>2. CASE r \in [framing : {"length"}, says : Connection!Lengths \cup {Connection!Bad},
                    content : Connection!Lengths]
    BY <1>1, <1>2 DEF SaidSizes
  <1>3. CASE r \in [framing : {"none"}, says : {0}, content : Connection!Lengths]
    <2>1. r.framing = "none" /\ r.says = 0 /\ r.content \in Nat
      BY <1>1, <1>3
    <2> QED
      BY <2>1 DEF SaidSizes
  <1>4. CASE r.framing = "chunked"
             /\ r.says \in {<<>>} \cup {<<k>> : k \in {Connection!Bad} \cup (Connection!Lengths \ {0})}
                          \cup {<<1, k>> : k \in {Connection!Bad, 1}}
    <2>1. CASE r.says = <<>>
      <3>1. <<>> \in Seq(SaidSizes) /\ Len(<<>>) = 0 /\ DOMAIN <<>> = 1..0
        OBVIOUS
      <3> QED
        BY <1>4, <2>1, <3>1
    <2>2. CASE \E k \in {Connection!Bad} \cup (Connection!Lengths \ {0}) : r.says = <<k>>
      <3>1. PICK k \in SaidSizes \ {0} : r.says = <<k>>
        BY <1>1, <2>2 DEF SaidSizes, Connection!Bad
      <3>2. r.says \in Seq(SaidSizes) /\ Len(r.says) = 1 /\ DOMAIN r.says = 1..1 /\ r.says[1] = k
        BY <3>1
      <3> QED
        BY <1>4, <3>1, <3>2
    <2>3. CASE \E k \in {Connection!Bad, 1} : r.says = <<1, k>>
      <3>1. PICK k \in SaidSizes \ {0} : r.says = <<1, k>>
        BY <1>1, <2>3 DEF SaidSizes, Connection!Bad
      <3>2. 1 \in SaidSizes \ {0}
        BY DEF SaidSizes
      <3>3. /\ r.says \in Seq(SaidSizes) /\ Len(r.says) = 2 /\ DOMAIN r.says = 1..2
            /\ r.says[1] = 1 /\ r.says[2] = k
        BY <3>1, <3>2
      <3> QED
        BY <1>4, <3>1, <3>2, <3>3
    <2> QED
      BY <1>4, <2>1, <2>2, <2>3
  <1> QED
    BY <1>2, <1>3, <1>4 DEF Connection!Replies

LEMMA ContentIs ==
    ASSUME NEW n \in Nat, NEW c \in Nat
    PROVE  /\ Connection!Content(n, c) \in Seq(Pieces) /\ Len(Connection!Content(n, c)) = c
           /\ c = 0 => Connection!Content(n, c) = <<>>
           /\ \A i \in 1..c : Connection!Content(n, c)[i] = Connection!Piece("byte", n, i)
  <1> DEFINE s == Connection!Content(n, c)
  <1>1. s = [i \in 1..c |-> Connection!Piece("byte", n, i)]
    BY DEF Connection!Content
  <1>2. \A i \in 1..c : Connection!Piece("byte", n, i) \in Pieces
    BY DEF Connection!Piece, Pieces
  <1> HIDE DEF s
  <1>3. s \in [1..c -> Pieces]
    BY <1>1, <1>2
  <1>4. s \in Seq(Pieces) /\ DOMAIN s = 1..c
    BY <1>3, SeqDef
  <1>5. Len(s) = c
    BY <1>4, LenProperties
  <1>6. c = 0 => s = <<>>
    BY <1>4, <1>5, EmptySeq
  <1> QED
    BY <1>1, <1>4, <1>5, <1>6 DEF s

LEMMA ChunkIs ==
    ASSUME NEW n \in Nat, NEW k \in SaidSizes
    PROVE  /\ Connection!Chunk(n, k) \in Seq(Pieces)
           /\ Connection!Chunk(n, k)[1] = Connection!Piece("size", n, k)
           /\ Len(Connection!Chunk(n, k)) = IF k = Connection!Bad THEN 1 ELSE k + 2
           /\ k # Connection!Bad => \A i \in 1..k : Connection!Chunk(n, k)[i + 1]
                                                    = Connection!Content(n, k)[i]
  <1> DEFINE first == Connection!Piece("size", n, k)
             final == Connection!Piece("end", n, 0)
             s == Connection!Chunk(n, k)
  <1>1. first \in Pieces /\ final \in Pieces
    BY DEF Connection!Piece, Pieces, SaidSizes, Connection!Bad
  <1>2. s = <<first>> \o (IF k = Connection!Bad THEN <<>> ELSE Connection!Content(n, k) \o <<final>>)
    BY DEF Connection!Chunk
  <1> HIDE DEF first, final, s
  <1>3. CASE k = Connection!Bad
    <2>1. s = <<first>>
      BY <1>1, <1>2, <1>3
    <2>2. <<first>> \in Seq(Pieces) /\ Len(<<first>>) = 1 /\ <<first>>[1] = first
      BY <1>1
    <2> QED
      BY <1>3, <2>1, <2>2 DEF s, first
  <1>4. CASE k # Connection!Bad
    <2> DEFINE c == Connection!Content(n, k)
               t == c \o <<final>>
    <2>1. k \in Nat
      BY <1>4 DEF SaidSizes
    <2>2. c \in Seq(Pieces) /\ Len(c) = k
      BY <2>1, ContentIs
    <2> HIDE DEF c
    <2>3. <<final>> \in Seq(Pieces) /\ Len(<<final>>) = 1
      BY <1>1
    <2>4. /\ t \in Seq(Pieces) /\ Len(t) = k + 1
          /\ \A i \in 1..(k + 1) : t[i] = IF i <= k THEN c[i] ELSE <<final>>[i - k]
      BY <2>1, <2>2, <2>3, ConcatProperties
    <2> HIDE DEF t
    <2>5. s = <<first>> \o t
      BY <1>2, <1>4 DEF t, c
    <2>6. /\ s \in Seq(Pieces) /\ Len(s) = Len(t) + 1 /\ s[1] = first
          /\ \A j \in 1..Len(t) : s[j + 1] = t[j]
      BY <1>1, <2>4, <2>5, ConsProperties
    <2>7. ASSUME NEW i \in 1..k PROVE s[i + 1] = c[i]
      <3>1. i \in 1..(k + 1) /\ i \in 1..Len(t) /\ i <= k
        BY <2>1, <2>4
      <3> QED
        BY <2>4, <2>6, <3>1
    <2>8. Len(s) = k + 2
      BY <2>1, <2>4, <2>6
    <2> QED
      BY <1>4, <2>6, <2>7, <2>8 DEF s, first, c
  <1> QED
    BY <1>3, <1>4
-----------------------------------------------------------------------------
LEMMA UpToTwo ==
    ASSUME NEW S, NEW s \in Seq(S), Len(s) <= 2
    PROVE  /\ Len(s) = 0 \/ Len(s) = 1 \/ Len(s) = 2
           /\ \A i \in 1..Len(s) : i = 1 \/ (i = 2 /\ Len(s) = 2)
           /\ \A i \in 0..Len(s) : i = Len(s) \/ i + 1 = Len(s) \/ (i = 0 /\ Len(s) = 2)
  <1>1. PICK l \in Nat : l = Len(s)
    BY LenProperties
  <1>2. l = 0 \/ l = 1 \/ l = 2
    BY <1>1
  <1>3. \A i \in 1..l : i = 1 \/ (i = 2 /\ l = 2)
    BY <1>2
  <1>4. \A i \in 0..l : i = l \/ i + 1 = l \/ (i = 0 /\ l = 2)
    BY <1>2
  <1> QED
    BY <1>1, <1>2, <1>3, <1>4

\* A sequence of two sequences made one: the recursion of FlattenSeq unfolded.
LEMMA Flat ==
    ASSUME NEW S, NEW q \in Seq(Seq(S)), Len(q) <= 2
    PROVE  /\ Len(q) = 0 => Connection!FlattenSeq(q) = <<>>
           /\ Len(q) = 1 => Connection!FlattenSeq(q) = q[1]
           /\ Len(q) = 2 => Connection!FlattenSeq(q) = q[1] \o q[2]
  <1> DEFINE Unfolds(f) == f = [i \in 1..Len(q) |-> IF i = 1 THEN q[i] ELSE f[i - 1] \o q[i]]
             flatten == CHOOSE f : Unfolds(f)
             g == [i \in 1..Len(q) |-> IF i = 1 THEN q[1] ELSE q[1] \o q[2]]
  <1>1. Connection!FlattenSeq(q) = IF Len(q) = 0 THEN q ELSE flatten[Len(q)]
    BY DEF Connection!FlattenSeq
  <1>2. Unfolds(g)
    <2>1. ASSUME NEW i \in 1..Len(q)
          PROVE  (IF i = 1 THEN q[1] ELSE q[1] \o q[2]) = IF i = 1 THEN q[i] ELSE g[i - 1] \o q[i]
      <3>1. i = 1 \/ (i = 2 /\ Len(q) = 2)
        BY UpToTwo, Zenon
      <3>2. i = 1 \/ (i = 2 /\ i - 1 \in 1..Len(q) /\ i - 1 = 1)
        BY <3>1
      <3> QED
        BY <3>2
    <2> QED
      BY <2>1
  <1>3. Unfolds(flatten)
    BY <1>2, Zenon
  <1> HIDE DEF flatten
  <1>4. \A i \in 1..Len(q) : flatten[i] = IF i = 1 THEN q[i] ELSE flatten[i - 1] \o q[i]
    BY <1>3
  <1>5. CASE Len(q) = 0
    BY <1>1, <1>5, EmptySeq
  <1>6. CASE Len(q) = 1
    BY <1>1, <1>4, <1>6
  <1>7. CASE Len(q) = 2
    <2>1. flatten[1] = q[1]
      BY <1>4, <1>7
    <2>2. flatten[2] = flatten[1] \o q[2]
      BY <1>4, <1>7
    <2>3. Connection!FlattenSeq(q) = flatten[2]
      BY <1>1, <1>7
    <2>4. Connection!FlattenSeq(q) = q[1] \o q[2]
      BY <2>1, <2>2, <2>3
    <2> QED
      BY <1>7, <2>4
  <1>8. Len(q) = 0 \/ Len(q) = 1 \/ Len(q) = 2
    BY UpToTwo, Zenon
  <1> QED
    BY <1>5, <1>6, <1>7, <1>8

\* What is left of a reply in chunks when i of them have been read, and what
\* they held.
Left(n, k, i) == IF i = Len(k) THEN Connection!Chunk(n, 0)
                 ELSE IF i + 1 = Len(k) THEN Connection!Chunk(n, k[i + 1]) \o Connection!Chunk(n, 0)
                 ELSE Connection!Chunk(n, k[i + 1])
                      \o (Connection!Chunk(n, k[i + 2]) \o Connection!Chunk(n, 0))
Held(n, k, i) == IF i = 0 THEN <<>>
                 ELSE IF i = 1 THEN Connection!Content(n, k[1])
                 ELSE Connection!Content(n, k[1]) \o Connection!Content(n, k[2])

\* The sizes of the chunks of a reply.
ChunkSizes == {k \in Seq(SaidSizes) : Len(k) <= 2 /\ \A i \in 1..Len(k) : k[i] \in SaidSizes \ {0}}

LEMMA LeftIs ==
    ASSUME NEW n \in Nat, NEW k \in ChunkSizes, NEW i \in 0..Len(k)
    PROVE  /\ Left(n, k, i) \in Seq(Pieces)
           /\ i = Len(k) => Left(n, k, i) = Connection!Chunk(n, 0)
           /\ i < Len(k) => /\ i + 1 \in 1..Len(k) /\ k[i + 1] \in SaidSizes \ {0}
                            /\ Left(n, k, i) = Connection!Chunk(n, k[i + 1]) \o Left(n, k, i + 1)
  <1>1. k \in Seq(SaidSizes) /\ Len(k) <= 2 /\ \A j \in 1..Len(k) : k[j] \in SaidSizes \ {0}
    BY DEF ChunkSizes
  <1>2. 0 \in SaidSizes
    BY DEF SaidSizes
  <1> DEFINE z == Connection!Chunk(n, 0)
             c(j) == Connection!Chunk(n, k[j])
  <1>3. z \in Seq(Pieces)
    BY <1>2, ChunkIs
  <1>4. \A j \in 1..Len(k) : c(j) \in Seq(Pieces)
    BY <1>1, ChunkIs
  <1> HIDE DEF z, c
  <1>5. CASE i = Len(k)
    <2>1. Left(n, k, i) = z
      BY <1>5 DEF Left, z
    <2> QED
      BY <1>1, <1>3, <1>5, <2>1 DEF z
  <1>6. CASE i + 1 = Len(k)
    <2>1. i # Len(k) /\ i + 1 \in 1..Len(k)
      BY <1>1, <1>6
    <2>2. Left(n, k, i) = c(i + 1) \o z /\ Left(n, k, i + 1) = z
      BY <1>6, <2>1 DEF Left, z, c
    <2>3. c(i + 1) \o z \in Seq(Pieces)
      BY <1>3, <1>4, <2>1, ConcatProperties
    <2> QED
      BY <1>1, <2>1, <2>2, <2>3 DEF c
  <1>7. CASE i = 0 /\ Len(k) = 2
    <2>1. Left(n, k, 0) = c(1) \o (c(2) \o z)
      BY <1>7 DEF Left, z, c
    <2>2. Left(n, k, 1) = c(2) \o z
      BY <1>7 DEF Left, z, c
    <2>3. c(2) \o z \in Seq(Pieces)
      BY <1>3, <1>4, <1>7, ConcatProperties
    <2>4. c(1) \o (c(2) \o z) \in Seq(Pieces)
      BY <1>4, <1>7, <2>3, ConcatProperties
    <2>5. k[1] \in SaidSizes \ {0} /\ 1 \in 1..Len(k)
      BY <1>1, <1>7
    <2>6. Left(n, k, 0) = c(1) \o Left(n, k, 1) /\ Left(n, k, 0) \in Seq(Pieces)
      BY <2>1, <2>2, <2>4
    <2>7. 0 + 1 = 1 /\ i = 0 /\ i # Len(k)
      BY <1>7
    <2> QED
      BY <2>5, <2>6, <2>7 DEF c
  <1>8. i = Len(k) \/ i + 1 = Len(k) \/ (i = 0 /\ Len(k) = 2)
    BY <1>1, UpToTwo, Zenon
  <1> QED
    BY <1>5, <1>6, <1>7, <1>8

LEMMA HeldIs ==
    ASSUME NEW n \in Nat, NEW k \in ChunkSizes, NEW i \in 0..Len(k), i < Len(k),
           k[i + 1] # Connection!Bad
    PROVE  Held(n, k, i + 1) = Held(n, k, i) \o Connection!Content(n, k[i + 1])
  <1>1. k \in Seq(SaidSizes) /\ Len(k) <= 2 /\ \A j \in 1..Len(k) : k[j] \in SaidSizes \ {0}
    BY DEF ChunkSizes
  <1>2. i + 1 \in 1..Len(k) /\ k[i + 1] \in Nat /\ i \in {0, 1}
    BY <1>1 DEF SaidSizes
  <1>3. Connection!Content(n, k[i + 1]) \in Seq(Pieces)
    BY <1>2, ContentIs
  <1>4. CASE i = 0
    <2>1. Held(n, k, 1) = Connection!Content(n, k[1]) /\ Held(n, k, 0) = <<>>
      BY DEF Held
    <2> QED
      BY <1>3, <1>4, <2>1, ConcatEmptySeq
  <1>5. CASE i = 1
    <2>1. /\ Held(n, k, 2) = Connection!Content(n, k[1]) \o Connection!Content(n, k[2])
          /\ Held(n, k, 1) = Connection!Content(n, k[1])
      BY DEF Held
    <2> QED
      BY <1>5, <2>1
  <1> QED
    BY <1>2, <1>4, <1>5

LEMMA SentIs ==
    ASSUME NEW n \in Nat, NEW r \in Connection!Replies
    PROVE  \E body \in Seq(Pieces) :
              /\ HeaderOf(n, r) \in Pieces /\ Connection!Sent(n, r) = <<HeaderOf(n, r)>> \o body
              /\ r.framing # "chunked" => body = Connection!Content(n, r.content)
              /\ r.framing = "chunked" => body = Left(n, r.says, 0)
  <1> DEFINE q == [i \in DOMAIN r.says |-> Connection!Chunk(n, r.says[i])]
             body == IF r.framing = "chunked"
                     THEN Connection!FlattenSeq(q) \o Connection!Chunk(n, 0)
                     ELSE Connection!Content(n, r.content)
  <1>1. Connection!Sent(n, r) = <<HeaderOf(n, r)>> \o body
    BY DEF Connection!Sent, HeaderOf
  <1>2. HeaderOf(n, r) \in Pieces
    BY DEF HeaderOf, Pieces
  <1>3. CASE r.framing # "chunked"
    <2>1. body = Connection!Content(n, r.content) /\ r.content \in Nat
      BY <1>3, ReplyIs
    <2>2. body \in Seq(Pieces)
      BY <2>1, ContentIs
    <2> QED
      BY <1>1, <1>2, <1>3, <2>1, <2>2
  <1>4. CASE r.framing = "chunked"
    <2>1. /\ r.says \in ChunkSizes /\ DOMAIN r.says = 1..Len(r.says)
          /\ Len(r.says) <= 2 /\ \A i \in 1..Len(r.says) : r.says[i] \in SaidSizes
      BY <1>4, ReplyIs DEF ChunkSizes
    <2>2. \A i \in 1..Len(r.says) : Connection!Chunk(n, r.says[i]) \in Seq(Pieces)
      BY <2>1, ChunkIs
    <2>3. q \in [1..Len(r.says) -> Seq(Pieces)]
      BY <2>1, <2>2
    <2>4. q \in Seq(Seq(Pieces)) /\ DOMAIN q = 1..Len(r.says)
      BY <2>1, <2>3, SeqDef
    <2>5. Len(q) = Len(r.says)
      BY <2>1, <2>4, LenProperties
    <2>6. \A i \in 1..Len(r.says) : q[i] = Connection!Chunk(n, r.says[i])
      BY <2>1
    <2> DEFINE z == Connection!Chunk(n, 0)
    <2>7. body = Connection!FlattenSeq(q) \o z
      BY <1>4
    <2>8. Left(n, r.says, 0) \in Seq(Pieces)
      <3>1. 0 \in 0..Len(r.says)
        BY <2>4, <2>5
      <3> QED
        BY <2>1, <3>1, LeftIs
    <2>9. z \in Seq(Pieces)
      BY ChunkIs DEF SaidSizes
    <2> HIDE DEF q, z, body
    <2>10. body = Left(n, r.says, 0)
      <3>1. /\ Len(q) = 0 => Connection!FlattenSeq(q) = <<>>
            /\ Len(q) = 1 => Connection!FlattenSeq(q) = q[1]
            /\ Len(q) = 2 => Connection!FlattenSeq(q) = q[1] \o q[2]
        BY <2>1, <2>4, <2>5, Flat
      <3>2. CASE Len(r.says) = 0
        <4>1. body = <<>> \o z
          BY <2>5, <2>7, <3>1, <3>2
        <4>2. Left(n, r.says, 0) = z
          BY <3>2 DEF Left, z
        <4> QED
          BY <2>9, <4>1, <4>2, ConcatEmptySeq
      <3>3. CASE Len(r.says) = 1
        <4>1. body = Connection!Chunk(n, r.says[1]) \o z
          BY <2>5, <2>6, <2>7, <3>1, <3>3
        <4>2. Left(n, r.says, 0) = Connection!Chunk(n, r.says[1]) \o z
          BY <3>3 DEF Left, z
        <4> QED
          BY <4>1, <4>2
      <3>4. CASE Len(r.says) = 2
        <4> DEFINE c == Connection!Chunk(n, r.says[1])
                   d == Connection!Chunk(n, r.says[2])
        <4>1. body = (c \o d) \o z
          <5>1. Connection!FlattenSeq(q) = q[1] \o q[2]
            BY <2>5, <3>1, <3>4
          <5>2. q[1] = c /\ q[2] = d
            BY <2>6, <3>4
          <5> QED
            BY <2>7, <5>1, <5>2
        <4>2. Left(n, r.says, 0) = c \o (d \o z)
          BY <3>4 DEF Left, z
        <4>3. c \in Seq(Pieces) /\ d \in Seq(Pieces)
          BY <2>2, <3>4
        <4> HIDE DEF c, d
        <4>4. ASSUME NEW x \in Seq(Pieces), NEW y \in Seq(Pieces), NEW v \in Seq(Pieces)
              PROVE  (x \o y) \o v = x \o (y \o v)
          BY ConcatAssociative
        <4> QED
          BY <2>9, <4>1, <4>2, <4>3, <4>4
      <3>5. Len(r.says) = 0 \/ Len(r.says) = 1 \/ Len(r.says) = 2
        BY <2>4, <2>5, <2>1, UpToTwo
      <3> QED
        BY <3>2, <3>3, <3>4, <3>5
    <2> QED
      BY <1>1, <1>2, <1>4, <2>8, <2>10
  <1> QED
    BY <1>3, <1>4

LEMMA SentIsPieces ==
    ASSUME NEW n \in Nat, NEW r \in Connection!Replies
    PROVE  Connection!Sent(n, r) \in Seq(Pieces)
  <1>1. PICK body \in Seq(Pieces) : /\ HeaderOf(n, r) \in Pieces
                                   /\ Connection!Sent(n, r) = <<HeaderOf(n, r)>> \o body
    BY SentIs
  <1> HIDE DEF HeaderOf
  <1>2. <<HeaderOf(n, r)>> \o body \in Seq(Pieces)
    BY <1>1, ConsProperties
  <1> QED
    BY <1>1, <1>2

LEMMA MeantIs ==
    ASSUME NEW n \in Nat, NEW r \in Connection!Replies
    PROVE  /\ r.framing # "chunked" => Connection!Meant(n, r) = Connection!Content(n, r.content)
           /\ /\ r.framing = "chunked"
              /\ \A i \in 1..Len(r.says) : r.says[i] # Connection!Bad
              => Connection!Meant(n, r) = Held(n, r.says, Len(r.says))
  <1>1. CASE r.framing # "chunked"
    BY <1>1 DEF Connection!Meant
  <1>2. CASE r.framing = "chunked" /\ \A i \in 1..Len(r.says) : r.says[i] # Connection!Bad
    <2> DEFINE q == [i \in DOMAIN r.says |-> Connection!Content(n, r.says[i])]
    <2>1. Connection!Meant(n, r) = Connection!FlattenSeq(q)
      BY <1>2 DEF Connection!Meant
    <2>2. /\ DOMAIN r.says = 1..Len(r.says) /\ Len(r.says) <= 2
          /\ \A i \in 1..Len(r.says) : r.says[i] \in Nat
      BY <1>2, ReplyIs DEF SaidSizes
    <2>3. \A i \in 1..Len(r.says) : Connection!Content(n, r.says[i]) \in Seq(Pieces)
      BY <2>2, ContentIs
    <2>4. q \in [1..Len(r.says) -> Seq(Pieces)]
      BY <2>2, <2>3
    <2>5. q \in Seq(Seq(Pieces)) /\ DOMAIN q = 1..Len(r.says)
      BY <2>2, <2>4, SeqDef
    <2>6. Len(q) = Len(r.says)
      BY <2>2, <2>5, LenProperties
    <2>7. \A i \in 1..Len(r.says) : q[i] = Connection!Content(n, r.says[i])
      BY <2>2
    <2> HIDE DEF q
    <2>8. /\ Len(q) = 0 => Connection!FlattenSeq(q) = <<>>
          /\ Len(q) = 1 => Connection!FlattenSeq(q) = q[1]
          /\ Len(q) = 2 => Connection!FlattenSeq(q) = q[1] \o q[2]
      BY <2>2, <2>5, <2>6, Flat
    <2>9. /\ Len(r.says) = 0 => Held(n, r.says, Len(r.says)) = <<>>
          /\ Len(r.says) = 1 => Held(n, r.says, Len(r.says)) = Connection!Content(n, r.says[1])
          /\ Len(r.says) = 2 => Held(n, r.says, Len(r.says)) = Connection!Content(n, r.says[1])
                                                             \o Connection!Content(n, r.says[2])
      BY DEF Held
    <2> DEFINE meant == Connection!Meant(n, r)
               held == Held(n, r.says, Len(r.says))
    <2> HIDE DEF meant, held
    <2>10. CASE Len(r.says) = 0
      <3>1. meant = <<>> /\ held = <<>>
        BY <2>1, <2>6, <2>8, <2>9, <2>10 DEF meant, held
      <3> QED
        BY <1>2, <3>1 DEF meant, held
    <2>11. CASE Len(r.says) = 1
      <3>1. q[1] = Connection!Content(n, r.says[1])
        BY <2>7, <2>11
      <3>2. meant = q[1] /\ held = Connection!Content(n, r.says[1])
        BY <2>1, <2>6, <2>8, <2>9, <2>11 DEF meant, held
      <3> QED
        BY <1>2, <3>1, <3>2 DEF meant, held
    <2>12. CASE Len(r.says) = 2
      <3>1. q[1] = Connection!Content(n, r.says[1]) /\ q[2] = Connection!Content(n, r.says[2])
        BY <2>7, <2>12
      <3>2. /\ meant = q[1] \o q[2]
            /\ held = Connection!Content(n, r.says[1]) \o Connection!Content(n, r.says[2])
        BY <2>1, <2>6, <2>8, <2>9, <2>12 DEF meant, held
      <3>3. meant = held
        BY <3>1, <3>2
      <3> QED
        BY <1>2, <3>3 DEF meant, held
    <2>13. Len(r.says) = 0 \/ Len(r.says) = 1 \/ Len(r.says) = 2
      BY <2>2, <2>5, <2>6, UpToTwo
    <2> QED
      BY <2>10, <2>11, <2>12, <2>13
  <1> QED
    BY <1>1, <1>2
-----------------------------------------------------------------------------
\* The rest of a sequence and one behind it.
LEMMA RestAndMore ==
    ASSUME NEW S, NEW a \in Seq(S), NEW b \in Seq(S), NEW n \in Nat, n <= Len(a)
    PROVE  /\ SubSeq(a, n + 1, Len(a)) \in Seq(S)
           /\ SubSeq(a, n + 1, Len(a)) \o b = SubSeq(a \o b, n + 1, Len(a \o b))
  <1> DEFINE s == a \o b
             r == SubSeq(a, n + 1, Len(a))
             t == SubSeq(s, n + 1, Len(s))
  <1>1. Len(a) \in Nat /\ Len(b) \in Nat /\ Len(a) <= Len(a)
    OBVIOUS
  <1>2. /\ s \in Seq(S) /\ Len(s) = Len(a) + Len(b)
        /\ \A i \in 1..(Len(a) + Len(b)) : s[i] = IF i <= Len(a) THEN a[i] ELSE b[i - Len(a)]
    BY ConcatProperties
  <1>3. r \in Seq(S) /\ Len(r) = Len(a) - n /\ \A i \in 1..(Len(a) - n) : r[i] = a[n + i]
    BY <1>1, PartOf
  <1> HIDE DEF s, r
  <1>4. t \in Seq(S) /\ Len(t) = Len(s) - n /\ \A i \in 1..(Len(s) - n) : t[i] = s[n + i]
    <2>1. n <= Len(s) /\ Len(s) \in Nat /\ Len(s) <= Len(s)
      BY <1>1, <1>2
    <2> QED
      BY <1>2, <2>1, PartOf
  <1> HIDE DEF t
  <1>5. /\ r \o b \in Seq(S) /\ Len(r \o b) = Len(r) + Len(b)
        /\ \A i \in 1..(Len(r) + Len(b)) : (r \o b)[i] = IF i <= Len(r) THEN r[i] ELSE b[i - Len(r)]
    BY <1>3, ConcatProperties
  <1>6. Len(r \o b) = Len(t) /\ Len(t) = Len(a) + Len(b) - n /\ Len(r) + Len(b) = Len(t)
    BY <1>1, <1>2, <1>3, <1>4, <1>5
  <1>7. ASSUME NEW i \in 1..Len(t) PROVE (r \o b)[i] = t[i]
    <2>1. i \in 1..(Len(s) - n) /\ n + i \in 1..(Len(a) + Len(b)) /\ i \in 1..(Len(r) + Len(b))
      BY <1>1, <1>2, <1>4, <1>6, SMTT(30)
    <2>2. CASE i <= Len(r)
      <3>1. i \in 1..(Len(a) - n) /\ n + i <= Len(a)
        BY <1>1, <1>3, <2>2
      <3> QED
        BY <1>2, <1>3, <1>4, <1>5, <2>1, <2>2, <3>1
    <2>3. CASE ~(i <= Len(r))
      <3>1. ~(n + i <= Len(a)) /\ (n + i) - Len(a) = i - Len(r)
        BY <1>1, <1>3, <2>3
      <3> QED
        BY <1>2, <1>4, <1>5, <2>1, <2>3, <3>1, Zenon
    <2> QED
      BY <2>2, <2>3
  <1>8. r \o b = t
    BY <1>4, <1>5, <1>6, <1>7, SeqEqual
  <1> QED
    BY <1>3, <1>8 DEF r, s, t
-----------------------------------------------------------------------------
Answers == {<<>>} \cup {<<r>> : r \in Connection!Replies}

\* The replies to the first n requests send no more than they say.
FramedTo(n) == \A m \in 1..n : \A i \in DOMAIN replies[m] : Connection!Framed(replies[m][i])

ClientTypes ==
    /\ call \in Nat /\ replies \in Seq(Answers) /\ Len(replies) = call
    /\ at \in {"returned", "write", "header", "content", "size", "chunk"}
    /\ at # "returned" => call > 0 /\ peer # "none" /\ ~socket_error
    /\ asked => peer = "open"

\* The server is asked, and answers, while nothing is on the wire.
Asking == /\ asked => at = "header"
          /\ at = "write" \/ asked => wire = <<>> /\ replies[call] = <<>>
          /\ at = "header" /\ replies[call] = <<>> => wire = <<>>
          /\ at \in {"content", "size", "chunk"} => replies[call] # <<>>

\* What has arrived and is not used yet is the beginning of what the reply has
\* left to be used.
Arriving(r) ==
    /\ at = "header" => Begins(wire, Connection!Sent(call, r))
    /\ at = "content" => /\ r.framing = "length" /\ r.says # Connection!Bad
                         /\ head.of = call /\ head.says = r.says
                         /\ Begins(buffer \o wire, Connection!Content(call, r.content))
    /\ at \in {"size", "chunk"} =>
          /\ r.framing = "chunked" /\ head.of = call
          /\ \E i \in 0..Len(r.says) : /\ \A j \in 1..i : r.says[j] # Connection!Bad
                                       /\ chunks = Held(call, r.says, i)
                                       /\ Begins(buffer \o wire, Left(call, r.says, i))
    /\ at = "chunk" => buffer # <<>> /\ Head(buffer).size # Connection!Bad

Answered == at = "returned" /\ outcome.how = "returned"
            => /\ outcome.of = call
               /\ \E i \in DOMAIN replies[call] :
                      outcome.content = Connection!Meant(call, replies[call][i])

Receiving == /\ wire \in Seq(Pieces) /\ buffer \in Seq(Pieces) /\ chunks \in Seq(Pieces)
             /\ at \in {"write", "header"} => buffer = <<>> /\ chunks = <<>>
             /\ at = "returned" /\ ~socket_error /\ peer # "none" => wire = <<>>
             /\ at # "returned" => \A r \in Connection!Replies : replies[call] = <<r>> => Arriving(r)
             /\ Answered

ClientInv == /\ ClientTypes
             /\ FramedTo(call - 1) => Asking
             /\ FramedTo(call) => Receiving

LEMMA ClientInitOK == Connection!ClientInit => ClientInv
  <1> SUFFICES ASSUME Connection!ClientInit PROVE ClientInv
    OBVIOUS
  <1> USE DEF Connection!ClientInit
  <1>1. ClientTypes
    <2>1. <<>> \in Seq(Answers) /\ Len(<<>>) = 0
      OBVIOUS
    <2> QED
      BY <2>1 DEF ClientTypes
  <1>2. Asking
    BY DEF Asking
  <1>3. Receiving
    <2>1. <<>> \in Seq(Pieces)
      OBVIOUS
    <2>2. Answered
      BY DEF Answered, Connection!Failed
    <2> QED
      BY <2>1, <2>2 DEF Receiving
  <1> QED
    BY <1>1, <1>2, <1>3 DEF ClientInv

\* The reply to the present request, and whether all are framed.
LEMMA ReplyHere ==
    ASSUME ClientTypes
    PROVE  /\ FramedTo(call) => FramedTo(call - 1)
           /\ call > 0 => /\ replies[call] \in Answers
                          /\ replies[call] # <<>> => \E r \in Connection!Replies : replies[call] = <<r>>
                          /\ \A r : replies[call] = <<r>> /\ FramedTo(call) => Connection!Framed(r)
                          /\ replies[call] = <<>> /\ FramedTo(call - 1) => FramedTo(call)
  <1>1. call \in Nat /\ replies \in Seq(Answers) /\ Len(replies) = call
    BY DEF ClientTypes
  <1>2. FramedTo(call) => FramedTo(call - 1)
    <2>1. \A m \in 1..(call - 1) : m \in 1..call
      BY <1>1
    <2> QED
      BY <2>1 DEF FramedTo
  <1>3. ASSUME call > 0
        PROVE  /\ replies[call] \in Answers
               /\ replies[call] # <<>> => \E r \in Connection!Replies : replies[call] = <<r>>
               /\ \A r : replies[call] = <<r>> /\ FramedTo(call) => Connection!Framed(r)
               /\ replies[call] = <<>> /\ FramedTo(call - 1) => FramedTo(call)
    <2>1. call \in 1..call /\ call \in 1..Len(replies)
      BY <1>1, <1>3
    <2>2. replies[call] \in Answers
      BY <1>1, <2>1, ElementOfSeq
    <2>3. ASSUME NEW r, replies[call] = <<r>>, FramedTo(call) PROVE Connection!Framed(r)
      <3>1. 1 \in DOMAIN replies[call] /\ replies[call][1] = r
        BY <2>3
      <3> QED
        BY <2>1, <2>3, <3>1 DEF FramedTo
    <2>4. ASSUME replies[call] = <<>>, FramedTo(call - 1) PROVE FramedTo(call)
      <3> SUFFICES ASSUME NEW m \in 1..call, NEW i \in DOMAIN replies[m]
                   PROVE  Connection!Framed(replies[m][i])
        BY DEF FramedTo
      <3>1. m \in 1..(call - 1) \/ m = call
        BY <1>1
      <3>2. DOMAIN <<>> = {}
        OBVIOUS
      <3> QED
        BY <2>4, <3>1, <3>2 DEF FramedTo
    <2> QED
      BY <2>2, <2>3, <2>4 DEF Answers
  <1> QED
    BY <1>2, <1>3

LEMMA ConnectOK == ASSUME ClientInv, Connection!Connect PROVE ClientInv'
  <1>1. /\ ClientTypes /\ call \in Nat /\ replies \in Seq(Answers) /\ Len(replies) = call
        /\ at = "returned" /\ (asked => peer = "open")
    BY DEF ClientInv, ClientTypes, Connection!Connect, Connection!Request
  <1>2. /\ call' = call + 1 /\ replies' = Append(replies, <<>>)
        /\ buffer' = <<>> /\ chunks' = <<>>
    BY DEF Connection!Connect, Connection!Request
  <1>3. /\ replies' \in Seq(Answers) /\ Len(replies') = call + 1 /\ replies'[call + 1] = <<>>
        /\ \A m \in 1..call : replies'[m] = replies[m]
    <2>1. <<>> \in Answers
      BY DEF Answers
    <2> QED
      BY <1>1, <1>2, <2>1, AppendProperties
  <1>4. \/ at' = "write" /\ peer # "none" /\ ~socket_error
           /\ UNCHANGED <<wire, peer, asked, socket_error>>
        \/ at' = "write" /\ peer' = "open" /\ socket_error' = FALSE /\ wire' = <<>> /\ asked' = FALSE
        \/ at' = "returned" /\ outcome' = Connection!Failed /\ socket_error' = TRUE
           /\ UNCHANGED <<wire, peer, asked>>
    BY DEF Connection!Connect, Connection!Connected, Connection!Fails
  <1>5. ClientTypes'
    BY <1>1, <1>2, <1>3, <1>4 DEF ClientTypes
  <1>6. FramedTo(call - 1)' => FramedTo(call)
    <2>1. call' - 1 = call
      BY <1>1, <1>2
    <2> QED
      BY <1>3, <2>1 DEF FramedTo
  <1>7. FramedTo(call)' => FramedTo(call - 1)'
    <2>1. \A m \in 1..(call' - 1) : m \in 1..call'
      BY <1>1, <1>2
    <2> QED
      BY <2>1 DEF FramedTo
  <1>8. ASSUME FramedTo(call) PROVE Asking' /\ Receiving'
    <2>1. Asking /\ Receiving
      BY <1>1, <1>8, ReplyHere DEF ClientInv
    <2>2. ~asked
      BY <1>1, <2>1 DEF Asking
    <2>3. at' = "write" => wire' = <<>>
      BY <1>1, <1>4, <2>1, <2>2 DEF Receiving
    <2>4. ~asked' /\ (at' = "write" \/ at' = "returned") /\ replies'[call'] = <<>>
      BY <1>2, <1>3, <1>4, <2>2
    <2>5. Asking'
      BY <2>3, <2>4 DEF Asking
    <2>6. wire' \in Seq(Pieces) /\ buffer' \in Seq(Pieces) /\ chunks' \in Seq(Pieces)
      <3>1. wire \in Seq(Pieces) /\ <<>> \in Seq(Pieces)
        BY <2>1 DEF Receiving
      <3>2. wire' = wire \/ wire' = <<>>
        BY <1>4
      <3> QED
        BY <1>2, <3>1, <3>2
    <2>7. Answered'
      BY <1>4 DEF Answered, Connection!Failed
    <2>8. \A r \in Connection!Replies : replies'[call'] # <<r>>
      BY <1>2, <1>3
    <2> QED
      BY <1>2, <1>4, <2>5, <2>6, <2>7, <2>8 DEF Receiving
  <1> QED
    BY <1>5, <1>6, <1>7, <1>8 DEF ClientInv

LEMMA WriteOK == ASSUME ClientInv, Connection!Write PROVE ClientInv'
  <1>1. /\ at = "write" /\ ClientTypes
        /\ UNCHANGED <<wire, peer, call, buffer, head, chunks, replies>>
        /\ \/ at' = "header" /\ (asked' => peer = "open") /\ UNCHANGED <<socket_error, outcome>>
           \/ /\ peer = "closed" /\ at' = "returned" /\ outcome' = Connection!Failed
              /\ socket_error' = TRUE /\ UNCHANGED asked
    BY DEF ClientInv, Connection!Write, Connection!Fails
  <1>2. ClientTypes'
    BY <1>1 DEF ClientTypes
  <1>3. (FramedTo(call)' <=> FramedTo(call)) /\ (FramedTo(call - 1)' <=> FramedTo(call - 1))
    BY <1>1 DEF FramedTo
  <1>4. ASSUME Asking PROVE Asking'
    BY <1>1, <1>4 DEF Asking
  <1>5. ASSUME Asking, Receiving PROVE Receiving'
    <2>1. replies[call] = <<>> /\ wire = <<>>
      BY <1>1, <1>5 DEF Asking
    <2>2. Answered'
      BY <1>1 DEF Answered, Connection!Failed
    <2> QED
      BY <1>1, <1>5, <2>1, <2>2 DEF Receiving
  <1> QED
    BY <1>1, <1>2, <1>3, <1>4, <1>5, ReplyHere DEF ClientInv

LEMMA EndOfStreamOK == ASSUME ClientInv, Connection!EndOfStream PROVE ClientInv'
  <1>1. /\ peer = "closed" /\ ClientTypes
        /\ at' = "returned" /\ outcome' = Connection!Failed /\ socket_error' = TRUE
        /\ UNCHANGED <<wire, peer, asked, call, buffer, head, chunks, replies>>
    BY DEF ClientInv, Connection!EndOfStream, Connection!Fails
  <1>2. ClientTypes'
    BY <1>1 DEF ClientTypes
  <1>3. (FramedTo(call)' <=> FramedTo(call)) /\ (FramedTo(call - 1)' <=> FramedTo(call - 1))
    BY <1>1 DEF FramedTo
  <1>4. ~asked
    BY <1>1 DEF ClientTypes
  <1>5. Asking'
    BY <1>1, <1>4 DEF Asking
  <1>6. ASSUME Receiving PROVE Receiving'
    <2>1. Answered'
      BY <1>1 DEF Answered, Connection!Failed
    <2> QED
      BY <1>1, <1>6, <2>1 DEF Receiving
  <1> QED
    BY <1>2, <1>3, <1>5, <1>6 DEF ClientInv

LEMMA CloseOK == ASSUME ClientInv, Connection!Close PROVE ClientInv'
  <1>1. /\ peer = "open" /\ peer' = "closed" /\ asked' = FALSE /\ ClientTypes
        /\ UNCHANGED <<call, at, socket_error, buffer, head, chunks, replies, outcome>>
    BY DEF ClientInv, Connection!Close
  <1>2. PICK k \in 0..Len(wire) : wire' = SubSeq(wire, 1, k)
    BY DEF Connection!Close
  <1>3. ClientTypes'
    BY <1>1 DEF ClientTypes
  <1>4. (FramedTo(call)' <=> FramedTo(call)) /\ (FramedTo(call - 1)' <=> FramedTo(call - 1))
    BY <1>1 DEF FramedTo
  <1>5. wire = <<>> => wire' = <<>>
    <2> SUFFICES ASSUME wire = <<>> PROVE wire' = <<>>
      OBVIOUS
    <2>1. k = 0
      BY <1>2
    <2> QED
      BY <1>2, <2>1
  <1>6. ASSUME Asking PROVE Asking'
    BY <1>1, <1>5, <1>6 DEF Asking
  <1>7. ASSUME Receiving PROVE Receiving'
    <2>1. wire \in Seq(Pieces) /\ buffer \in Seq(Pieces)
      BY <1>7 DEF Receiving
    <2>2. wire' \in Seq(Pieces)
      <3>1. k \in Nat /\ k <= Len(wire) /\ 0 \in Nat /\ 0 <= k /\ 0 + 1 = 1
        BY <2>1
      <3> QED
        BY <1>2, <2>1, <3>1, PartOf
    <2>3. ASSUME NEW t \in Seq(Pieces), Begins(wire, t) PROVE Begins(wire', t)
      <3>1. <<>> \in Seq(Pieces) /\ <<>> \o wire = wire /\ <<>> \o wire' = wire'
        BY <2>1, <2>2, ConcatEmptySeq
      <3> QED
        BY <1>2, <2>1, <2>3, <3>1, BeginsLess
    <2>4. ASSUME NEW t \in Seq(Pieces), Begins(buffer \o wire, t) PROVE Begins(buffer \o wire', t)
      BY <1>2, <2>1, <2>4, BeginsLess
    <2>5. ASSUME NEW r \in Connection!Replies, at # "returned", Arriving(r) PROVE Arriving(r)'
      <3>1. call \in Nat
        BY <1>1 DEF ClientTypes
      <3>2. CASE at = "header"
        <4>1. Connection!Sent(call, r) \in Seq(Pieces)
          BY <3>1, SentIsPieces
        <4>2. Begins(wire', Connection!Sent(call, r))
          BY <2>3, <2>5, <3>2, <4>1 DEF Arriving
        <4> QED
          BY <1>1, <3>2, <4>2 DEF Arriving, Connection!Sent
      <3>3. CASE at = "content"
        <4>1. r.framing = "length" /\ r.content \in Nat
          BY <2>5, <3>3, ReplyIs DEF Arriving
        <4>2. Connection!Content(call, r.content) \in Seq(Pieces)
          BY <3>1, <4>1, ContentIs
        <4>3. Begins(buffer \o wire', Connection!Content(call, r.content))
          BY <2>4, <2>5, <3>3, <4>2 DEF Arriving
        <4> QED
          BY <1>1, <2>5, <3>3, <4>3 DEF Arriving
      <3>4. CASE at \in {"size", "chunk"}
        <4>1. PICK i \in 0..Len(r.says) : /\ \A j \in 1..i : r.says[j] # Connection!Bad
                                          /\ chunks = Held(call, r.says, i)
                                          /\ Begins(buffer \o wire, Left(call, r.says, i))
          BY <2>5, <3>4 DEF Arriving
        <4>2. r.says \in ChunkSizes
          BY <2>5, <3>4, ReplyIs DEF Arriving, ChunkSizes
        <4>3. Left(call, r.says, i) \in Seq(Pieces)
          BY <3>1, <4>2, LeftIs
        <4>4. Begins(buffer \o wire', Left(call, r.says, i))
          BY <2>4, <4>1, <4>3
        <4> QED
          BY <1>1, <2>5, <3>4, <4>1, <4>4 DEF Arriving
      <3>5. CASE at = "write"
        BY <1>1, <3>5 DEF Arriving
      <3> QED
        BY <1>1, <2>5, <3>2, <3>3, <3>4, <3>5 DEF ClientTypes
    <2>6. Answered'
      BY <1>1, <1>7 DEF Receiving, Answered
    <2> QED
      BY <1>1, <1>5, <1>7, <2>2, <2>5, <2>6 DEF Receiving
  <1> QED
    BY <1>1, <1>3, <1>4, <1>6, <1>7 DEF ClientInv

LEMMA ServeOK ==
    ASSUME ClientInv, NEW r \in Connection!Replies, Connection!Serve(r) PROVE ClientInv'
  <1>1. /\ asked /\ ~asked' /\ ClientTypes
        /\ wire' = wire \o Connection!Sent(call, r)
        /\ replies' = [replies EXCEPT ![call] = <<r>>]
        /\ UNCHANGED <<peer, call, at, socket_error, buffer, head, chunks, outcome>>
    BY DEF ClientInv, Connection!Serve
  <1>2. call \in Nat /\ replies \in Seq(Answers) /\ Len(replies) = call
    BY <1>1 DEF ClientTypes
  <1>3. <<r>> \in Answers
    BY DEF Answers
  <1>4. /\ replies' \in Seq(Answers) /\ Len(replies') = call
        /\ \A m \in 1..call : replies'[m] = IF m = call THEN <<r>> ELSE replies[m]
    <2>1. DOMAIN replies = 1..call /\ \A m \in 1..call : replies[m] \in Answers
      BY <1>2, ElementOfSeq
    <2>2. replies' \in [1..call -> Answers]
      BY <1>1, <1>3, <2>1
    <2>3. replies' \in Seq(Answers) /\ DOMAIN replies' = 1..call
      BY <1>2, <2>2, SeqDef
    <2>4. Len(replies') = call
      BY <1>2, <2>3, LenProperties
    <2> QED
      BY <1>1, <2>1, <2>3, <2>4
  <1>5. ClientTypes'
    BY <1>1, <1>4 DEF ClientTypes
  <1>6. FramedTo(call - 1)' => FramedTo(call - 1)
    <2>1. \A m \in 1..(call - 1) : replies'[m] = replies[m]
      BY <1>2, <1>4
    <2> QED
      BY <1>1, <2>1 DEF FramedTo
  <1>7. FramedTo(call)' => FramedTo(call - 1)'
    <2>1. call' = call /\ \A m \in 1..(call - 1) : m \in 1..call
      BY <1>1, <1>2
    <2> QED
      BY <2>1 DEF FramedTo
  <1>8. ASSUME FramedTo(call - 1)
        PROVE  at = "header" /\ wire = <<>> /\ replies[call] = <<>> /\ call > 0 /\ FramedTo(call)
    <2>1. at = "header" /\ wire = <<>> /\ replies[call] = <<>>
      BY <1>1, <1>8 DEF ClientInv, Asking
    <2>2. call > 0
      BY <1>1, <2>1 DEF ClientTypes
    <2> QED
      BY <1>1, <1>8, <2>1, <2>2, ReplyHere
  <1>9. ASSUME FramedTo(call - 1) PROVE Asking' /\ Receiving'
    <2>1. /\ at = "header" /\ wire = <<>> /\ replies[call] = <<>> /\ call > 0 /\ FramedTo(call)
          /\ Receiving
      BY <1>8, <1>9 DEF ClientInv
    <2>2. call \in 1..call /\ replies'[call] = <<r>>
      BY <1>2, <1>4, <2>1
    <2>3. Asking'
      <3>1. <<r>> # <<>>
        OBVIOUS
      <3>2. at' = "header" /\ ~asked' /\ replies'[call'] # <<>>
        BY <1>1, <2>1, <2>2, <3>1
      <3> QED
        BY <3>2 DEF Asking
    <2>4. Connection!Sent(call, r) \in Seq(Pieces)
      BY <1>2, SentIsPieces
    <2>5. wire' = Connection!Sent(call, r)
      BY <1>1, <2>1, <2>4, ConcatEmptySeq
    <2>6. Begins(wire', wire')
      BY <2>4, <2>5 DEF Begins
    <2>7. ASSUME NEW s \in Connection!Replies, replies'[call] = <<s>> PROVE Arriving(s)'
      <3>1. s = r
        <4>1. <<s>>[1] = <<r>>[1]
          BY <2>2, <2>7
        <4> QED
          BY <4>1
      <3> QED
        BY <1>1, <2>1, <2>5, <2>6, <3>1 DEF Arriving, Connection!Sent
    <2>8. Answered'
      BY <1>1, <2>1 DEF Answered
    <2> QED
      BY <1>1, <2>1, <2>3, <2>4, <2>5, <2>7, <2>8 DEF Receiving
  <1> QED
    BY <1>1, <1>5, <1>6, <1>7, <1>9 DEF ClientInv

\* What every read does, whichever reply it meets: it comes after the server
\* has answered, and it leaves what was asked and answered alone.
LEMMA ReadingOK ==
    ASSUME ClientInv, at \in {"header", "content", "size", "chunk"},
           UNCHANGED <<peer, asked, call, replies>>,
           at = "header" => wire # <<>>,
           at' \in {"returned", "content", "size", "chunk"},
           at' # "returned" => ~socket_error',
           \A r \in Connection!Replies :
              replies[call] = <<r>> /\ Connection!Framed(r) /\ Receiving => Receiving'
    PROVE  ClientInv'
  <1>1. ClientTypes
    BY DEF ClientInv
  <1>2. ClientTypes'
    BY <1>1 DEF ClientTypes
  <1>3. (FramedTo(call)' <=> FramedTo(call)) /\ (FramedTo(call - 1)' <=> FramedTo(call - 1))
    BY DEF FramedTo
  <1>4. ASSUME FramedTo(call - 1) PROVE Asking' /\ replies[call] # <<>>
    <2>1. Asking
      BY <1>4 DEF ClientInv
    <2>2. ~asked /\ replies[call] # <<>>
      BY <2>1 DEF Asking
    <2> QED
      BY <2>2 DEF Asking
  <1>5. ASSUME FramedTo(call) PROVE Receiving'
    <2>1. FramedTo(call - 1) /\ call > 0 /\ Receiving
      BY <1>1, <1>5, ReplyHere DEF ClientInv, ClientTypes
    <2>2. PICK r \in Connection!Replies : replies[call] = <<r>>
      BY <1>1, <1>4, <2>1, ReplyHere
    <2>3. Connection!Framed(r)
      BY <1>1, <1>5, <2>1, <2>2, ReplyHere
    <2> QED
      BY <2>1, <2>2, <2>3
  <1> QED
    BY <1>2, <1>3, <1>4, <1>5 DEF ClientInv

LEMMA OnlyReply == ASSUME NEW r, NEW s, <<r>> = <<s>> PROVE r = s
  <1>1. <<r>>[1] = <<s>>[1]
    OBVIOUS
  <1> QED
    BY <1>1

LEMMA ReadHeaderOK == ASSUME ClientInv, Connection!ReadHeader PROVE ClientInv'
  <1>1. at = "header" /\ UNCHANGED <<peer, asked, call, chunks, replies>> /\ ClientTypes
    BY DEF ClientInv, Connection!ReadHeader
  <1> PICK j \in DOMAIN wire :
           /\ wire[j].is = "header" /\ \A i \in 1 .. j - 1 : wire[i].is # "header"
           /\ head' = Connection!Parsed(j)
           /\ \E k \in j .. Len(wire) : /\ wire' = SubSeq(wire, k + 1, Len(wire))
                                       /\ buffer' = SubSeq(wire, j + 1, k)
    BY DEF Connection!ReadHeader
  <1>2. PICK k \in j .. Len(wire) :
           /\ wire[j].is = "header" /\ \A i \in 1 .. j - 1 : wire[i].is # "header"
           /\ head' = Connection!Parsed(j)
           /\ wire' = SubSeq(wire, k + 1, Len(wire)) /\ buffer' = SubSeq(wire, j + 1, k)
    OBVIOUS
  <1>3. \/ /\ head'.framing = "none" /\ at' = "returned" /\ UNCHANGED socket_error
           /\ outcome' = [how |-> "returned", of |-> head'.of, content |-> buffer']
        \/ /\ head'.framing = "length" /\ head'.says = Connection!Bad
           /\ at' = "returned" /\ outcome' = Connection!Failed /\ socket_error' = TRUE
        \/ /\ head'.framing = "length" /\ head'.says # Connection!Bad
           /\ at' = "content" /\ UNCHANGED <<socket_error, outcome>>
        \/ head'.framing = "chunked" /\ at' = "size" /\ UNCHANGED <<socket_error, outcome>>
    BY DEF Connection!ReadHeader, Connection!Returns, Connection!Fails
  <1>4. wire # <<>>
    BY <1>2
  <1>5. ~socket_error /\ call \in Nat
    BY <1>1 DEF ClientTypes
  <1>6. ASSUME NEW r \in Connection!Replies, replies[call] = <<r>>, Connection!Framed(r), Receiving
        PROVE  Receiving'
    <2>1. wire \in Seq(Pieces) /\ chunks = <<>> /\ Begins(wire, Connection!Sent(call, r))
      BY <1>1, <1>6 DEF Receiving, Arriving
    <2>2. PICK body \in Seq(Pieces) :
             /\ HeaderOf(call, r) \in Pieces
             /\ Connection!Sent(call, r) = <<HeaderOf(call, r)>> \o body
             /\ r.framing # "chunked" => body = Connection!Content(call, r.content)
             /\ r.framing = "chunked" => body = Left(call, r.says, 0)
      BY <1>5, SentIs
    <2> DEFINE h == HeaderOf(call, r)
    <2>3. /\ h.is = "header" /\ h.of = call /\ h.framing = r.framing /\ h.says = r.says
      BY DEF HeaderOf
    <2> HIDE DEF h
    <2>4. <<h>> \in Seq(Pieces) /\ Len(<<h>>) = 1 /\ <<h>>[1] = h
      BY <2>2 DEF h
    <2>5. Len(wire) \in Nat /\ 1 <= Len(wire) /\ DOMAIN wire = 1..Len(wire)
      BY <1>4, <2>1, EmptySeq
    <2>6. /\ Begins(SubSeq(wire, 1 + 1, Len(wire)), body)
          /\ \A i \in 1..1 : wire[i] = <<h>>[i]
      <3>1. Begins(wire, <<h>> \o body)
        BY <2>1, <2>2 DEF h
      <3> QED
        BY <2>1, <2>2, <2>4, <2>5, <3>1, Behind, ZenonT(120)
    <2>7. wire[1] = h
      BY <2>4, <2>6
    <2>8. j = 1
      <3>1. j \in 1..Len(wire)
        BY <2>5
      <3>2. CASE j # 1
        <4>1. 1 \in 1 .. j - 1
          BY <3>1, <3>2
        <4> QED
          BY <1>2, <2>3, <2>7, <4>1
      <3> QED
        BY <3>2
    <2>9. head' = h
      BY <1>2, <2>7, <2>8 DEF Connection!Parsed
    <2>10. k \in 1..Len(wire) /\ k \in Nat /\ k <= Len(wire) /\ 1 <= k
      BY <2>5, <2>8
    <2>11. /\ buffer' \in Seq(Pieces) /\ wire' \in Seq(Pieces)
           /\ buffer' \o wire' = SubSeq(wire, 1 + 1, Len(wire))
      <3>1. buffer' = SubSeq(wire, 1 + 1, k) /\ wire' = SubSeq(wire, k + 1, Len(wire))
        BY <1>2, <2>8
      <3>2. SubSeq(wire, 1 + 1, k) \in Seq(Pieces) /\ SubSeq(wire, k + 1, Len(wire)) \in Seq(Pieces)
        <4>1. 1 \in Nat /\ Len(wire) <= Len(wire)
          BY <2>5
        <4> QED
          BY <2>1, <2>5, <2>10, <4>1, PartOf
      <3>3. SubSeq(wire, 1 + 1, k) \o SubSeq(wire, k + 1, Len(wire)) = SubSeq(wire, 1 + 1, Len(wire))
        <4>1. 1 + 1 \in 1..Len(wire) + 1 /\ k \in (1 + 1) - 1 .. Len(wire) /\ Len(wire) \in k .. Len(wire)
          BY <2>5, <2>10
        <4> QED
          BY <2>1, <4>1, ConcatAdjacentSubSeq
      <3> QED
        BY <3>1, <3>2, <3>3
    <2>12. Begins(buffer' \o wire', body)
      BY <2>6, <2>11
    <2>13. chunks' = <<>> /\ chunks' \in Seq(Pieces)
      BY <1>1, <2>1
    <2>14. ASSUME at' = "returned", outcome'.how = "returned" \/ ~socket_error'
           PROVE  wire' = <<>> /\ Answered'
      <3>1. /\ r.framing = "none" /\ outcome' = [how |-> "returned", of |-> call, content |-> buffer']
        BY <1>3, <2>3, <2>9, <2>14 DEF Connection!Failed
      <3>2. r.content = 0
        <4>1. r.says = 0 /\ r.content \in Nat
          BY <3>1, ReplyIs
        <4>2. r.framing = "chunked" \/ r.says = Connection!Bad \/ r.content <= r.says
          BY <1>6 DEF Connection!Framed
        <4>3. Connection!Bad # 0
          BY DEF Connection!Bad
        <4> QED
          BY <3>1, <4>1, <4>2, <4>3
      <3>3. body = <<>> /\ Connection!Meant(call, r) = <<>>
        <4>1. Connection!Content(call, 0) = <<>>
          BY <1>5, ContentIs
        <4>2. Connection!Meant(call, r) = Connection!Content(call, r.content)
          BY <1>5, <3>1, MeantIs
        <4> QED
          BY <2>2, <3>1, <3>2, <4>1, <4>2
      <3>4. Len(buffer' \o wire') = 0 /\ buffer' \o wire' \in Seq(Pieces)
        <4>1. buffer' \o wire' \in Seq(Pieces)
          BY <2>11, ConcatProperties
        <4>2. Len(body) = 0
          BY <3>3
        <4> QED
          BY <2>12, <4>1, <4>2, SMTT(30) DEF Begins
      <3>5. buffer' = <<>> /\ wire' = <<>>
        <4>1. Len(buffer' \o wire') = Len(buffer') + Len(wire')
          BY <2>11, ConcatProperties
        <4>2. Len(buffer') \in Nat /\ Len(wire') \in Nat
          BY <2>11, LenProperties
        <4>3. Len(buffer') = 0 /\ Len(wire') = 0
          BY <3>4, <4>1, <4>2
        <4> QED
          BY <2>11, <4>3, EmptySeq
      <3>6. 1 \in DOMAIN replies[call] /\ replies[call][1] = r
        BY <1>6
      <3> QED
        BY <1>1, <3>1, <3>3, <3>5, <3>6 DEF Answered
    <2>15. ASSUME NEW s \in Connection!Replies, at' # "returned", replies'[call'] = <<s>>
           PROVE  Arriving(s)'
      <3>1. s = r
        BY <1>1, <1>6, <2>15, OnlyReply
      <3>2. CASE at' = "content"
        <4>1. r.framing = "length" /\ r.says # Connection!Bad
          BY <1>3, <2>3, <2>9, <3>2
        <4> QED
          BY <1>1, <2>2, <2>3, <2>9, <2>12, <3>1, <3>2, <4>1 DEF Arriving, Connection!Content
      <3>3. CASE at' = "size"
        <4>1. r.framing = "chunked"
          BY <1>3, <2>3, <2>9, <3>3
        <4>2. 0 \in 0..Len(r.says) /\ chunks' = Held(call, r.says, 0)
          BY <2>13, <4>1, ReplyIs DEF Held
        <4>3. Begins(buffer' \o wire', Left(call, r.says, 0))
          BY <2>2, <2>12, <4>1
        <4>4. head'.of = call
          BY <2>3, <2>9
        <4> QED
          BY <1>1, <3>1, <3>3, <4>1, <4>2, <4>3, <4>4 DEF Arriving
      <3> QED
        BY <1>3, <2>15, <3>2, <3>3
    <2>16. at' \notin {"write", "header"}
      BY <1>3
    <2>17. Answered'
      BY <2>14 DEF Answered
    <2> QED
      BY <2>11, <2>13, <2>14, <2>15, <2>16, <2>17 DEF Receiving
  <1> QED
    BY <1>1, <1>3, <1>4, <1>5, <1>6, ReadingOK

LEMMA ReadContentOK == ASSUME ClientInv, Connection!ReadContent PROVE ClientInv'
  <1> DEFINE missing == head.says - Len(buffer)
  <1>1. /\ at = "content" /\ UNCHANGED <<peer, asked, call, socket_error, head, chunks, replies>>
        /\ missing \in 0 .. Len(wire)
        /\ wire' = SubSeq(wire, missing + 1, Len(wire))
        /\ buffer' = buffer \o SubSeq(wire, 1, missing)
        /\ at' = "returned"
        /\ outcome' = [how |-> "returned", of |-> head.of, content |-> buffer']
    BY DEF Connection!ReadContent, Connection!Returns
  <1>2. call \in Nat
    BY DEF ClientInv, ClientTypes
  <1>3. ASSUME NEW r \in Connection!Replies, replies[call] = <<r>>, Connection!Framed(r), Receiving
        PROVE  Receiving'
    <2>1. /\ wire \in Seq(Pieces) /\ buffer \in Seq(Pieces) /\ chunks \in Seq(Pieces)
          /\ r.framing = "length" /\ r.says # Connection!Bad
          /\ head.of = call /\ head.says = r.says
          /\ Begins(buffer \o wire, Connection!Content(call, r.content))
      BY <1>1, <1>3 DEF Receiving, Arriving
    <2>2. r.says \in Nat /\ r.content \in Nat /\ r.content <= r.says
      BY <1>3, <2>1, ReplyIs DEF SaidSizes, Connection!Framed
    <2>3. PICK m \in 0..Len(wire) : m = missing /\ Len(buffer) + m = r.says
      BY <1>1, <2>1, <2>2, SMTT(30)
    <2> HIDE DEF missing
    <2>4. /\ buffer' \in Seq(Pieces) /\ wire' \in Seq(Pieces) /\ Len(buffer') = r.says
          /\ buffer' \o wire' = buffer \o wire
      <3>1. /\ wire' = SubSeq(wire, m + 1, Len(wire))
            /\ buffer' = buffer \o SubSeq(wire, 1, m)
        BY <1>1, <2>3
      <3>2. /\ buffer \o SubSeq(wire, 1, m) \in Seq(Pieces)
            /\ SubSeq(wire, m + 1, Len(wire)) \in Seq(Pieces)
            /\ Len(buffer \o SubSeq(wire, 1, m)) = Len(buffer) + m
            /\ Stream(buffer \o SubSeq(wire, 1, m), SubSeq(wire, m + 1, Len(wire)))
                  = Stream(buffer, wire)
        BY <2>1, TakenOver
      <3>3. Stream(buffer', wire') = Stream(buffer, wire)
        BY <2>3, <3>1, <3>2
      <3> QED
        BY <2>3, <3>1, <3>2, <3>3 DEF Stream
    <2> DEFINE meant == Connection!Content(call, r.content)
    <2>5. meant \in Seq(Pieces) /\ Len(meant) = r.content
      BY <1>2, <2>2, ContentIs
    <2>6. Begins(buffer' \o wire', meant)
      BY <2>1, <2>4
    <2>7. Connection!Meant(call, r) = meant
      BY <1>2, <2>1, MeantIs
    <2> HIDE DEF meant
    <2>8. Len(buffer' \o wire') = Len(buffer') + Len(wire')
      BY <2>4, ConcatProperties
    <2>9. Len(wire') = 0
      BY <2>2, <2>4, <2>5, <2>6, <2>8, SMTT(30) DEF Begins
    <2>10. wire' = <<>> /\ buffer' \o wire' = buffer'
      BY <2>4, <2>9, EmptySeq, ConcatEmptySeq
    <2>11. buffer' = meant
      BY <2>2, <2>4, <2>5, <2>6, <2>10, BeginsAll
    <2>12. 1 \in DOMAIN replies[call] /\ replies[call][1] = r
      BY <1>3
    <2>13. Answered'
      BY <1>1, <2>1, <2>7, <2>11, <2>12 DEF Answered, Connection!Meant
    <2> QED
      BY <1>1, <2>1, <2>4, <2>10, <2>13 DEF Receiving
  <1> QED
    BY <1>1, <1>3, ReadingOK

LEMMA ReadSizeOK == ASSUME ClientInv, Connection!ReadSize PROVE ClientInv'
  <1>1. at = "size" /\ UNCHANGED <<peer, asked, call, head, chunks, replies>> /\ ~socket_error
    BY DEF ClientInv, ClientTypes, Connection!ReadSize
  <1>2. PICK k \in 0 .. Len(wire) :
           /\ (k = 0) = (buffer # <<>>)
           /\ buffer' = buffer \o SubSeq(wire, 1, k)
           /\ wire' = SubSeq(wire, k + 1, Len(wire))
    BY DEF Connection!ReadSize
  <1>3. \/ at' = "returned" /\ outcome' = Connection!Failed /\ socket_error' = TRUE
        \/ Head(buffer').size # Connection!Bad /\ at' = "chunk" /\ UNCHANGED <<socket_error, outcome>>
    BY DEF Connection!ReadSize, Connection!Fails
  <1>4. ASSUME NEW r \in Connection!Replies, replies[call] = <<r>>, Connection!Framed(r), Receiving
        PROVE  Receiving'
    <2>1. wire \in Seq(Pieces) /\ buffer \in Seq(Pieces) /\ chunks \in Seq(Pieces) /\ Arriving(r)
      BY <1>1, <1>4 DEF Receiving
    <2>2. /\ buffer' \in Seq(Pieces) /\ wire' \in Seq(Pieces) /\ Len(buffer') = Len(buffer) + k
          /\ buffer' \o wire' = buffer \o wire
      <3>1. /\ buffer \o SubSeq(wire, 1, k) \in Seq(Pieces)
            /\ SubSeq(wire, k + 1, Len(wire)) \in Seq(Pieces)
            /\ Len(buffer \o SubSeq(wire, 1, k)) = Len(buffer) + k
            /\ Stream(buffer \o SubSeq(wire, 1, k), SubSeq(wire, k + 1, Len(wire)))
                  = Stream(buffer, wire)
        BY <2>1, TakenOver
      <3>2. Stream(buffer', wire') = Stream(buffer, wire)
        BY <1>2, <3>1
      <3> QED
        BY <1>2, <3>1, <3>2 DEF Stream
    <2>3. buffer' # <<>>
      <3>1. Len(buffer) \in Nat /\ (buffer # <<>> => Len(buffer) # 0) /\ (buffer = <<>> => k # 0)
        BY <1>2, <2>1, EmptySeq
      <3>2. Len(buffer') # 0
        BY <2>2, <3>1
      <3> QED
        BY <2>2, <3>2, EmptySeq
    <2>4. ASSUME NEW s \in Connection!Replies, at' # "returned", replies'[call'] = <<s>>
          PROVE  Arriving(s)'
      <3>1. s = r
        BY <1>1, <1>4, <2>4, OnlyReply
      <3>2. at' = "chunk" /\ Head(buffer').size # Connection!Bad
        BY <1>3, <2>4
      <3>3. PICK i \in 0..Len(r.says) : /\ \A j \in 1..i : r.says[j] # Connection!Bad
                                        /\ chunks = Held(call, r.says, i)
                                        /\ Begins(buffer \o wire, Left(call, r.says, i))
        BY <1>1, <2>1 DEF Arriving
      <3>4. r.framing = "chunked" /\ head.of = call
        BY <1>1, <2>1 DEF Arriving
      <3> QED
        BY <1>1, <2>2, <2>3, <3>1, <3>2, <3>3, <3>4 DEF Arriving
    <2>5. Answered' /\ at' \notin {"write", "header"} /\ (at' = "returned" => socket_error')
      BY <1>3 DEF Answered, Connection!Failed
    <2> QED
      BY <1>1, <2>1, <2>2, <2>4, <2>5 DEF Receiving
  <1> QED
    BY <1>1, <1>3, <1>4, ReadingOK

\* A chunk taken from a stream that begins with it: its content, and what is
\* behind its end.
LEMMA ChunkTaken ==
    ASSUME NEW n \in Nat, NEW c \in Nat, NEW there \in Seq(Pieces), NEW more \in Seq(Pieces),
           NEW left \in Seq(Pieces), c + 2 <= Len(there),
           Begins(there \o more, Connection!Chunk(n, c) \o left)
    PROVE  /\ SubSeq(there, 2, c + 1) = Connection!Content(n, c)
           /\ SubSeq(there, c + 3, Len(there)) \in Seq(Pieces)
           /\ Begins(SubSeq(there, c + 3, Len(there)) \o more, left)
  <1> DEFINE s == there \o more
             a == Connection!Chunk(n, c)
             d == Connection!Content(n, c)
  <1>1. Len(there) \in Nat /\ Len(more) \in Nat /\ c # Connection!Bad /\ c \in SaidSizes
    BY DEF Connection!Bad, SaidSizes
  <1>2. a \in Seq(Pieces) /\ Len(a) = c + 2 /\ \A i \in 1..c : a[i + 1] = d[i]
    BY <1>1, ChunkIs
  <1>3. d \in Seq(Pieces) /\ Len(d) = c
    BY ContentIs
  <1>4. /\ s \in Seq(Pieces) /\ Len(s) = Len(there) + Len(more)
        /\ \A i \in 1..(Len(there) + Len(more)) :
              s[i] = IF i <= Len(there) THEN there[i] ELSE more[i - Len(there)]
    BY ConcatProperties
  <1>5. Begins(s, a \o left)
    OBVIOUS
  <1>6. /\ SubSeq(there, (c + 2) + 1, Len(there)) \in Seq(Pieces)
        /\ Stream(SubSeq(there, (c + 2) + 1, Len(there)), more) = SubSeq(s, (c + 2) + 1, Len(s))
    <2>1. c + 2 \in Nat
      OBVIOUS
    <2> QED
      BY <2>1, RestAndMore, ZenonT(60) DEF Stream
  <1> HIDE DEF s, a, d
  <1>7. /\ \A i \in 1..Len(a) : s[i] = a[i]
        /\ Begins(SubSeq(s, Len(a) + 1, Len(s)), left)
    <2>1. Len(a) <= Len(s)
      BY <1>1, <1>2, <1>4
    <2> QED
      BY <1>2, <1>4, <1>5, <2>1, Behind
  <1>8. SubSeq(there, 2, c + 1) = d
    <2> DEFINE t == SubSeq(there, 1 + 1, c + 1)
    <2>1. t \in Seq(Pieces) /\ Len(t) = (c + 1) - 1 /\ \A i \in 1..((c + 1) - 1) : t[i] = there[1 + i]
      <3>1. 1 \in Nat /\ c + 1 \in Nat /\ 1 <= c + 1 /\ c + 1 <= Len(there)
        BY <1>1
      <3> QED
        BY <3>1, PartOf
    <2>2. t = SubSeq(there, 2, c + 1)
      OBVIOUS
    <2> HIDE DEF t
    <2>3. ASSUME NEW i \in 1..c PROVE t[i] = d[i]
      <3>1. /\ i \in 1..((c + 1) - 1) /\ i + 1 \in 1..(Len(there) + Len(more)) /\ i + 1 <= Len(there)
            /\ i + 1 \in 1..Len(a) /\ 1 + i = i + 1
        BY <1>1, <1>2
      <3> QED
        BY <1>2, <1>4, <1>7, <2>1, <3>1, SMTT(60)
    <2>4. Len(t) = Len(d) /\ Len(t) = c
      BY <1>3, <2>1
    <2>5. t = d
      BY <1>3, <2>1, <2>3, <2>4, SeqEqual
    <2> QED
      BY <2>2, <2>5
  <1>9. (c + 2) + 1 = c + 3
    OBVIOUS
  <1> QED
    BY <1>2, <1>6, <1>7, <1>8, <1>9 DEF d, Stream

LEMMA ReadChunkOK == ASSUME ClientInv, Connection!ReadChunk PROVE ClientInv'
  <1> DEFINE length == Head(buffer).size
             missing == IF length + 2 > Len(buffer) THEN length + 2 - Len(buffer) ELSE 0
             there == buffer \o SubSeq(wire, 1, missing)
             behind == SubSeq(there, length + 3, Len(there))
  <1>1. /\ at = "chunk" /\ UNCHANGED <<peer, asked, call, socket_error, head, replies>>
        /\ missing <= Len(wire)
        /\ wire' = SubSeq(wire, missing + 1, Len(wire))
        /\ chunks' = chunks \o SubSeq(there, 2, length + 1)
        /\ buffer' = behind \o (IF length = 0 THEN chunks ELSE <<>>)
        /\ \/ length > 0 /\ at' = "size" /\ UNCHANGED outcome
           \/ /\ length = 0 /\ at' = "returned"
              /\ outcome' = [how |-> "returned", of |-> head.of, content |-> buffer']
    BY Zenon DEF Connection!ReadChunk, Connection!Returns
  <1>2. call \in Nat /\ ~socket_error
    BY <1>1, Zenon DEF ClientInv, ClientTypes
  <1>3. ASSUME NEW r \in Connection!Replies, replies[call] = <<r>>, Connection!Framed(r), Receiving
        PROVE  Receiving'
    <2>1. /\ wire \in Seq(Pieces) /\ buffer \in Seq(Pieces) /\ chunks \in Seq(Pieces)
          /\ r.framing = "chunked" /\ head.of = call
          /\ buffer # <<>> /\ length # Connection!Bad
      BY <1>1, <1>3, Zenon DEF Receiving, Arriving
    <2>2. PICK i \in 0..Len(r.says) : /\ \A j \in 1..i : r.says[j] # Connection!Bad
                                      /\ chunks = Held(call, r.says, i)
                                      /\ Begins(Stream(buffer, wire), Left(call, r.says, i))
      BY <1>1, <1>3, Zenon DEF Receiving, Arriving, Stream
    <2>3. r.says \in ChunkSizes
      BY <2>1, ReplyIs DEF ChunkSizes
    <2> DEFINE c == IF i = Len(r.says) THEN 0 ELSE r.says[i + 1]
    <2>4. PICK left \in Seq(Pieces) :
             /\ c \in SaidSizes
             /\ i # Len(r.says) => c # 0 /\ i < Len(r.says) /\ left = Left(call, r.says, i + 1)
             /\ i = Len(r.says) => left = <<>>
             /\ Left(call, r.says, i) = Connection!Chunk(call, c) \o left
      <3>1. CASE i = Len(r.says)
        <4>1. Left(call, r.says, i) = Connection!Chunk(call, 0) /\ 0 \in SaidSizes
          BY <1>2, <2>3, <3>1, LeftIs DEF SaidSizes
        <4>2. Connection!Chunk(call, 0) \in Seq(Pieces)
          BY <1>2, <4>1, ChunkIs
        <4>3. Connection!Chunk(call, 0) = Connection!Chunk(call, 0) \o <<>> /\ <<>> \in Seq(Pieces)
          BY <4>2, ConcatEmptySeq
        <4> QED
          BY <3>1, <4>1, <4>3
      <3>2. CASE i # Len(r.says)
        <4>1. i < Len(r.says) /\ i + 1 \in 0..Len(r.says)
          BY <2>3, <3>2 DEF ChunkSizes
        <4>2. /\ r.says[i + 1] \in SaidSizes \ {0}
              /\ Left(call, r.says, i) = Connection!Chunk(call, r.says[i + 1]) \o Left(call, r.says, i + 1)
          BY <1>2, <2>3, <4>1, LeftIs
        <4>3. Left(call, r.says, i + 1) \in Seq(Pieces)
          BY <1>2, <2>3, <4>1, LeftIs
        <4> QED
          BY <3>2, <4>1, <4>2, <4>3
      <3> QED
        BY <3>1, <3>2
    <2> HIDE DEF c
    <2>5. /\ Connection!Chunk(call, c) \in Seq(Pieces)
          /\ Connection!Chunk(call, c)[1] = Connection!Piece("size", call, c)
          /\ Len(Connection!Chunk(call, c)) = IF c = Connection!Bad THEN 1 ELSE c + 2
      BY <1>2, <2>4, ChunkIs
    <2>6. length = c /\ c \in Nat
      <3> DEFINE s == Stream(buffer, wire)
                 a == Connection!Chunk(call, c)
      <3>1. /\ s \in Seq(Pieces) /\ Len(s) = Len(buffer) + Len(wire) /\ s[1] = buffer[1]
            /\ Head(buffer) = buffer[1] /\ 1 <= Len(s)
        <4>1. Len(buffer) \in Nat /\ 1 <= Len(buffer) /\ Len(wire) \in Nat
          BY <2>1, EmptySeq
        <4>2. 1 \in 1 .. Len(buffer) + Len(wire) /\ 1 <= Len(buffer) + Len(wire)
          BY <4>1
        <4>3. /\ buffer \o wire \in Seq(Pieces) /\ Len(buffer \o wire) = Len(buffer) + Len(wire)
              /\ \A j \in 1 .. Len(buffer) + Len(wire) : (buffer \o wire)[j] =
                     IF j <= Len(buffer) THEN buffer[j] ELSE wire[j - Len(buffer)]
          BY <2>1, ConcatProperties
        <4>4. (buffer \o wire)[1] = buffer[1]
          BY <4>1, <4>2, <4>3
        <4>5. Head(buffer) = buffer[1]
          BY <2>1
        <4> QED
          BY <4>2, <4>3, <4>4, <4>5 DEF Stream
      <3>2. Begins(s, a \o left)
        BY <2>2, <2>4
      <3>3. a \in Seq(Pieces) /\ 1 <= Len(a) /\ a[1] = Connection!Piece("size", call, c)
        BY <2>4, <2>5 DEF SaidSizes
      <3> HIDE DEF s, a
      <3>4. s[1] = a[1]
        <4>1. (a \o left)[1] = a[1]
          <5>1. 1 \in 1 .. Len(a) + Len(left)
            BY <3>3
          <5>2. \A j \in 1 .. Len(a) + Len(left) : (a \o left)[j] =
                   IF j <= Len(a) THEN a[j] ELSE left[j - Len(a)]
            BY <3>3, ConcatProperties
          <5> QED
            BY <3>3, <5>1, <5>2
        <4>2. 1 \in 1..Len(s)
          BY <3>1
        <4> QED
          BY <3>2, <4>1, <4>2 DEF Begins
      <3>5. length = c
        BY <3>1, <3>3, <3>4 DEF Connection!Piece
      <3> QED
        BY <2>1, <2>4, <3>5 DEF SaidSizes
    <2>7. PICK m \in 0..Len(wire) : m = missing /\ c + 2 <= Len(buffer) + m
      <3>1. Len(wire) \in Nat /\ Len(buffer) \in Nat
        BY <2>1
      <3>2. missing = IF c + 2 > Len(buffer) THEN c + 2 - Len(buffer) ELSE 0
        BY <2>6
      <3>3. missing <= Len(wire)
        BY <1>1, Zenon
      <3> HIDE DEF missing
      <3>4. missing \in 0..Len(wire)
        BY <2>6, <3>1, <3>2, <3>3
      <3>5. c + 2 <= Len(buffer) + missing
        BY <2>6, <3>1, <3>2
      <3> QED
        BY <3>4, <3>5
    <2> DEFINE got == buffer \o SubSeq(wire, 1, m)
               more == SubSeq(wire, m + 1, Len(wire))
    <2>8. /\ got \in Seq(Pieces) /\ more \in Seq(Pieces) /\ Len(got) = Len(buffer) + m
          /\ Stream(got, more) = Stream(buffer, wire)
      BY <2>1, TakenOver
    <2>9. /\ there = got /\ wire' = more
      BY <1>1, <2>7, Zenon
    <2> HIDE DEF missing, there, got, more
    <2>10. c + 2 <= Len(got)
      BY <2>7, <2>8
    <2>11. Begins(got \o more, Connection!Chunk(call, c) \o left)
      BY <2>2, <2>4, <2>8 DEF Stream
    <2>12. /\ SubSeq(got, 2, c + 1) = Connection!Content(call, c)
           /\ SubSeq(got, c + 3, Len(got)) \in Seq(Pieces)
           /\ Begins(SubSeq(got, c + 3, Len(got)) \o more, left)
      BY <1>2, <2>6, <2>8, <2>10, <2>11, ChunkTaken
    <2>13. behind = SubSeq(got, c + 3, Len(got))
      BY <2>6, <2>9
    <2>14. behind \in Seq(Pieces) /\ Begins(behind \o more, left)
      BY <2>12, <2>13
    <2> HIDE DEF behind
    <2>15. chunks' = chunks \o Connection!Content(call, c)
      BY <1>1, <2>6, <2>9, <2>12
    <2>16. Connection!Content(call, c) \in Seq(Pieces)
      BY <1>2, <2>6, ContentIs
    <2>17. chunks' \in Seq(Pieces)
      BY <2>1, <2>15, <2>16, ConcatProperties
    <2>18. CASE i = Len(r.says)
      <3>1. c = 0 /\ left = <<>> /\ length = 0
        BY <2>4, <2>6, <2>18 DEF c
      <3>2. behind = <<>> /\ more = <<>>
        <4>1. Len(behind \o more) = 0 /\ behind \o more \in Seq(Pieces)
          BY <2>8, <2>14, <3>1, ConcatProperties DEF Begins
        <4> QED
          BY <2>8, <2>14, <4>1, ConcatProperties, EmptySeq
      <3>3. buffer' = chunks /\ wire' = <<>>
        BY <1>1, <2>1, <2>9, <3>1, <3>2, ConcatEmptySeq
      <3>4. at' = "returned" /\ outcome' = [how |-> "returned", of |-> call, content |-> buffer']
        BY <1>1, <2>1, <3>1
      <3>5. chunks = Connection!Meant(call, r)
        BY <1>2, <2>1, <2>2, <2>18, MeantIs
      <3>6. 1 \in DOMAIN replies[call] /\ replies[call][1] = r
        BY <1>3
      <3>7. Answered'
        BY <1>1, <3>3, <3>4, <3>5, <3>6 DEF Answered
      <3>8. <<>> \in Seq(Pieces)
        OBVIOUS
      <3> QED
        BY <2>1, <2>17, <3>3, <3>4, <3>7, <3>8 DEF Receiving
    <2>19. CASE i # Len(r.says)
      <3>1. c # 0 /\ length # 0 /\ i < Len(r.says) /\ c = r.says[i + 1]
        BY <2>4, <2>6, <2>19 DEF c
      <3>2. buffer' = behind /\ at' = "size"
        BY <1>1, <2>14, <3>1, ConcatEmptySeq
      <3>3. chunks' = Held(call, r.says, i + 1)
        <4>1. r.says[i + 1] # Connection!Bad
          BY <2>1, <2>6, <3>1
        <4>2. Held(call, r.says, i + 1) = Held(call, r.says, i) \o Connection!Content(call, r.says[i + 1])
          BY <1>2, <2>3, <3>1, <4>1, HeldIs
        <4> QED
          BY <2>2, <2>15, <3>1, <4>2
      <3>4. Begins(buffer' \o wire', Left(call, r.says, i + 1))
        BY <2>4, <2>9, <2>14, <2>19, <3>2
      <3>5. i + 1 \in 0..Len(r.says) /\ \A j \in 1..(i + 1) : r.says[j] # Connection!Bad
        <4>1. Len(r.says) \in Nat
          BY <2>3 DEF ChunkSizes
        <4>2. \A j \in 1..(i + 1) : j \in 1..i \/ j = i + 1
          OBVIOUS
        <4> QED
          BY <2>1, <2>2, <2>6, <3>1, <4>1, <4>2, SMTT(30)
      <3>6. ASSUME NEW s \in Connection!Replies, replies'[call'] = <<s>> PROVE Arriving(s)'
        <4>1. s = r
          BY <1>1, <1>3, <3>6, OnlyReply
        <4> QED
          BY <1>1, <2>1, <3>2, <3>3, <3>4, <3>5, <4>1 DEF Arriving
      <3>7. Answered'
        BY <3>2 DEF Answered
      <3> QED
        BY <2>8, <2>9, <2>14, <2>17, <3>2, <3>6, <3>7 DEF Receiving
    <2> QED
      BY <2>18, <2>19
  <1>4. at' \in {"returned", "size"}
    BY <1>1, Zenon
  <1> HIDE DEF length, missing, there, behind
  <1> QED
    BY <1>1, <1>2, <1>3, <1>4, ReadingOK

LEMMA ClientNextOK == ASSUME ClientInv, Connection!ClientNext PROVE ClientInv'
  BY ConnectOK, WriteOK, ReadHeaderOK, ReadContentOK, ReadSizeOK, ReadChunkOK, EndOfStreamOK,
     CloseOK, ServeOK DEF Connection!ClientNext

LEMMA ClientTakes ==
    ASSUME SequentialNext, IsClient
    PROVE  Connection!ClientNext /\ UNCHANGED part
  <1>1. UNCHANGED part /\ part = "HttpClient"
    BY DEF SequentialNext, IsClient
  <1> QED
    BY <1>1 DEF SequentialNext, ContainersNext, IsFector, IsFap, IsCache, IsCombinations,
                IsBllocator, IsBits, IsSqlite, IsClient

LEMMA ClientStarts ==
    ASSUME SequentialInit, IsClient
    PROVE  Connection!ClientInit
  <1>1. part = "HttpClient"
    BY DEF IsClient
  <1> QED
    BY <1>1 DEF SequentialInit, ContainersInit, IsFector, IsFap, IsCache, IsCombinations,
                IsBllocator, IsBits, IsSqlite, IsClient

\* Whatever the server answers, in whatever pieces that arrives and wherever it
\* closes the connection, request() returns the whole reply to its request, as
\* long as no reply has sent more than it says (client_http.hpp 64-125, 200-208).
THEOREM RepliesMatch == SequentialSpec => []ReplyIsToItsRequest
  <1> DEFINE Inv == IsClient => ClientInv
  <1>1. SequentialInit => Inv
    BY ClientStarts, ClientInitOK
  <1>2. Inv /\ [SequentialNext]_sequentialVars => Inv'
    <2> SUFFICES ASSUME Inv, [SequentialNext]_sequentialVars PROVE Inv'
      OBVIOUS
    <2>1. UNCHANGED part
      BY DEF SequentialNext, sequentialVars
    <2>2. CASE ~IsClient
      BY <2>1, <2>2 DEF IsClient
    <2>3. CASE UNCHANGED sequentialVars
      <3>1. UNCHANGED <<wire, peer, asked, call, at, socket_error, buffer, head, chunks, replies, outcome>>
        BY <2>3 DEF sequentialVars, clientVars
      <3>2. ClientInv' <=> ClientInv
        BY <3>1 DEF ClientInv, ClientTypes, FramedTo, Asking, Receiving, Arriving, Answered
      <3> QED
        BY <2>1, <3>2 DEF IsClient
    <2>4. CASE IsClient /\ SequentialNext
      BY <2>1, <2>4, ClientTakes, ClientNextOK DEF IsClient
    <2> QED
      BY <2>2, <2>3, <2>4
  <1>3. Inv => ReplyIsToItsRequest
    <2> SUFFICES ASSUME IsClient, ClientInv, FramedTo(call), at = "returned", outcome.how = "returned"
                 PROVE  /\ outcome.of = call
                        /\ \E i \in DOMAIN replies[call] :
                              outcome.content = Connection!Meant(call, replies[call][i])
      BY DEF ReplyIsToItsRequest, Connection!ReplyIsToItsRequest, FramedTo
    <2> QED
      BY DEF ClientInv, Receiving, Answered
  <1> QED
    BY <1>1, <1>2, <1>3, PTL DEF SequentialSpec
=============================================================================
