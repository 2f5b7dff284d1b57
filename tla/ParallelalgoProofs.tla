-------------------------- MODULE ParallelalgoProofs --------------------------
(***************************************************************************)
(* What the parallel algorithms guarantee for ranges of any length and any *)
(* number of threads.  Each behaviour is one call of one of them, so the   *)
(* invariant has a part for each, which only its own steps disturb.        *)
(***************************************************************************)
EXTENDS MCParallelalgo, Integers, FiniteSetTheorems, SequenceTheorems, TLAPS

USE BoundsAssumption

(***************************************************************************)
(* Arithmetic                                                              *)
(***************************************************************************)
\* What the division leaves, and the slices it makes.
LEMMA Division ==
    ASSUME NEW a \in Nat, NEW n \in Nat \ {0}
    PROVE  /\ a \div n \in Nat /\ a % n \in 0..(n - 1)
           /\ a = n * (a \div n) + (a % n)
  OBVIOUS

LEMMA Scale ==
    ASSUME NEW a \in Nat, NEW b \in Nat, NEW c \in Nat, a <= b
    PROVE  a * c <= b * c /\ a * c \in Nat /\ b * c \in Nat
  OBVIOUS

LEMMA NextMultiple == ASSUME NEW a \in Nat, NEW c \in Nat PROVE (a + 1) * c = a * c + c
  OBVIOUS

\* The slices are not empty, and those of all threads leave fewer elements
\* than there are threads; with fewer elements than threads each is one long.
LEMMA Advance ==
    ASSUME NEW s \in Nat, NEW n \in Nat \ {0}, NEW w,
           w = IF s \div n = 0 THEN 1 ELSE s \div n
    PROVE  /\ w \in Nat \ {0}
           /\ s < n => w = 1
           /\ s >= n => n * w <= s /\ n * w > s - n
  <1>1. s \div n \in Nat /\ s % n \in 0..(n - 1) /\ s = n * (s \div n) + (s % n)
    BY Division
  <1>2. ASSUME s < n PROVE s \div n = 0
    BY <1>2
  <1>3. ASSUME s >= n PROVE s \div n # 0
    BY <1>1, <1>3
  <1> QED
    BY <1>1, <1>2, <1>3

\* As long as the range is not used up there is room for another slice.
LEMMA RoomForSlice ==
    ASSUME NEW s \in Nat, NEW n \in Nat \ {0}, NEW k \in Nat, NEW w,
           w = IF s \div n = 0 THEN 1 ELSE s \div n,
           k < n, k * w <= s, k * w # s
    PROVE  k * w + w <= s
  <1>1. /\ w \in Nat \ {0} /\ (s < n => w = 1) /\ (s >= n => n * w <= s)
    BY Advance
  <1>2. (k + 1) * w <= n * w /\ (k + 1) * w = k * w + w
    BY <1>1, Scale, NextMultiple
  <1>3. CASE s < n
    BY <1>1, <1>3
  <1>4. CASE s >= n
    <2>1. n * w \in Nat /\ k * w \in Nat
      BY <1>1
    <2> QED
      BY <1>1, <1>2, <1>4, <2>1
  <1> QED
    BY <1>3, <1>4
-----------------------------------------------------------------------------
(***************************************************************************)
(* find_if                                                                 *)
(***************************************************************************)
FindTypes ==
    /\ size \in 0..MaxSize /\ matches \subseteq 0..(size - 1)
    /\ numThreads \in 1..MaxThreads
    /\ started \in 0..numThreads /\ joined \in 0..started
    /\ cur \in 0..size /\ cur = started * Find!advanceSize
    /\ slice \in [Find!Threads -> [first : 0..size, last : 0..size]]
    /\ be \in [Find!Threads -> 0..size]
    /\ pc \in [Find!Threads -> {"loop", "body", "found", "die", "done"}]
    /\ found \in 0..size /\ die \in BOOLEAN

\* The slices of the threads that were started cover what they are to cover.
Covered ==
    \A m \in 0..(cur - 1) :
        \E i \in Find!Threads : i < started /\ slice[i].first <= m /\ m < slice[i].last

\* Thread i in its slice: what it has passed does not match, and it leaves the
\* loop at the slice's end or because a thread has found something.
Searching(i) ==
    /\ slice[i].first <= be[i] /\ be[i] <= slice[i].last
    /\ \A m \in matches : ~(slice[i].first <= m /\ m < be[i])
    /\ pc[i] \in {"body", "found", "die"} => be[i] < slice[i].last
    /\ pc[i] \in {"found", "die"} => be[i] \in matches
    /\ pc[i] = "die" => found # size
    /\ pc[i] = "done" => die \/ be[i] = slice[i].last

FirstOf(i, m) == /\ i < started
                 /\ slice[i].first <= m /\ m < slice[i].last
                 /\ \A k \in matches : ~(slice[i].first <= k /\ k < m)

FindInv ==
    /\ FindTypes
    /\ Covered
    /\ \A i \in Find!Threads : i < started => Searching(i)
    /\ \A i \in Find!Threads : i >= started => pc[i] = "loop"
    /\ \A i \in Find!Threads : i < joined => pc[i] = "done"
    /\ die => found # size
    /\ found # size => \E i \in Find!Threads : FirstOf(i, found)

LEMMA FindInvInit == Find!Init => FindInv
  <1> SUFFICES ASSUME Find!Init PROVE FindInv
    OBVIOUS
  <1> USE DEF Find!Init, Find!Threads
  <1>1. size \in Nat /\ numThreads \in Nat \ {0} /\ 0 \in 0..size /\ size \in 0..size
    OBVIOUS
  <1>2. Find!advanceSize \in Nat
    BY <1>1, Advance DEF Find!advanceSize
  <1>3. cur = started * Find!advanceSize
    BY <1>2
  <1>5. /\ slice \in [Find!Threads -> [first : 0..size, last : 0..size]]
        /\ be \in [Find!Threads -> 0..size]
    BY <1>1
  <1>6. started \in 0..numThreads /\ joined \in 0..started /\ cur \in 0..size
    BY <1>1
  <1>7. /\ size \in 0..MaxSize /\ matches \subseteq 0..(size - 1)
        /\ numThreads \in 1..MaxThreads
    OBVIOUS
  <1>8. /\ pc \in [Find!Threads -> {"loop", "body", "found", "die", "done"}]
        /\ found \in 0..size /\ die \in BOOLEAN
    BY <1>1
  <1>9. FindTypes
    BY <1>3, <1>5, <1>6, <1>7, <1>8 DEF FindTypes
  <1>4. Covered
    BY DEF Covered
  <1> QED
    BY <1>1, <1>4, <1>9 DEF FindInv

\* A thread's step: the rest of the slices and of the threads stay.
LEMMA FindThreadStep ==
    ASSUME FindInv, NEW i \in Find!Threads, Find!Thread(i)
    PROVE  FindInv'
  <1> USE DEF FindInv, FindTypes, Find!input, Find!caller
  <1>1. i < started /\ i \in Nat /\ started \in Nat /\ size \in Nat
    <2>1. i \in Nat /\ started \in Nat /\ size \in Nat
      BY DEF Find!Threads
    <2> QED
      BY <2>1 DEF Find!Thread, Find!Loop, Find!Body, Find!Found, Find!Die
  <1>2. UNCHANGED <<size, matches, numThreads, cur, started, joined, slice>>
    BY DEF Find!Thread, Find!Loop, Find!Body, Find!Found, Find!Die
  <1>3. Find!advanceSize' = Find!advanceSize
    BY <1>2 DEF Find!advanceSize
  <1>4. Covered'
    BY <1>2 DEF Covered
  <1>5. Searching(i) /\ i >= joined
    <2>1. pc[i] # "done" /\ joined \in Nat
      BY <1>1 DEF Find!Thread, Find!Loop, Find!Body, Find!Found, Find!Die
    <2> QED
      BY <1>1, <2>1
  <1>6. slice[i].first \in Nat /\ slice[i].last \in Nat /\ slice[i].last <= size /\ be[i] \in Nat
    OBVIOUS
  <1>7. ASSUME pc' = [pc EXCEPT ![i] = pc'[i]], be' = [be EXCEPT ![i] = be'[i]],
               pc'[i] \in {"loop", "body", "found", "die", "done"}, be'[i] \in 0..size,
               found' \in 0..size, die' \in BOOLEAN, found' = found \/ found' # size,
               die => die', Searching(i)', die' => found' # size,
               found' # size => \E k \in Find!Threads : FirstOf(k, found')
        PROVE  FindInv'
    <2>1. FindTypes'
      BY <1>2, <1>3, <1>7
    <2>2. ASSUME NEW j \in Find!Threads, j < started PROVE Searching(j)'
      <3>1. CASE j = i
        BY <1>7, <3>1
      <3>2. CASE j # i
        <4>1. Searching(j) /\ pc'[j] = pc[j] /\ be'[j] = be[j]
          BY <1>7, <2>2, <3>2
        <4> QED
          BY <1>2, <1>7, <4>1 DEF Searching
      <3> QED
        BY <3>1, <3>2
    <2>3. \A j \in Find!Threads : j >= started => pc'[j] = "loop"
      BY <1>1, <1>7
    <2>4. \A j \in Find!Threads : j < joined => pc'[j] = "done"
      BY <1>1, <1>5, <1>7
    <2>5. found' # size => \E k \in Find!Threads : FirstOf(k, found)'
      BY <1>2, <1>7 DEF FirstOf
    <2> QED
      BY <1>2, <1>4, <1>7, <2>1, <2>2, <2>3, <2>4, <2>5
  <1>8. found # size => \E k \in Find!Threads : FirstOf(k, found)
    OBVIOUS
  <1>9. CASE Find!Loop(i)
    <2>1. pc'[i] = IF be[i] # slice[i].last /\ ~die THEN "body" ELSE "done"
      BY <1>9 DEF Find!Loop
    <2>2. be[i] # slice[i].last => be[i] < slice[i].last
      <3>1. be[i] <= slice[i].last
        BY <1>5 DEF Searching
      <3>2. \A a, b \in Nat : a <= b /\ a # b => a < b
        OBVIOUS
      <3> QED
        BY <1>6, <3>1, <3>2
    <2>3. pc'[i] \in {"body", "done"} /\ UNCHANGED <<be, found, die>>
      BY <1>9, <2>1 DEF Find!Loop
    <2>4. Searching(i)'
      BY <1>2, <1>5, <2>1, <2>2, <2>3 DEF Searching
    <2> QED
      BY <1>7, <1>8, <1>9, <2>1, <2>4 DEF Find!Loop
  <1>10. CASE Find!Body(i)
    <2>1. be[i] < slice[i].last
      BY <1>5, <1>10 DEF Find!Body, Searching
    <2>2. CASE be[i] \in matches /\ UNCHANGED be
      <3>1. Searching(i)'
        BY <1>2, <1>5, <1>6, <1>10, <2>1, <2>2 DEF Find!Body, Searching
      <3> QED
        BY <1>7, <1>8, <1>10, <2>2, <3>1 DEF Find!Body
    <2>3. CASE be[i] \notin matches /\ be' = [be EXCEPT ![i] = @ + 1]
      <3>1. be'[i] = be[i] + 1 /\ be'[i] \in 0..size /\ pc'[i] = "loop"
        BY <1>1, <1>6, <1>10, <2>1, <2>3 DEF Find!Body
      <3>2. ASSUME NEW m \in matches, slice[i].first <= m, m < be'[i] PROVE FALSE
        <4>1. m \in Nat /\ m < be[i] + 1 /\ m # be[i]
          BY <1>1, <2>3, <3>1, <3>2
        <4>2. m < be[i]
          BY <1>6, <4>1
        <4> QED
          BY <1>5, <3>2, <4>2 DEF Searching
      <3>3. Searching(i)'
        BY <1>2, <1>5, <1>6, <1>10, <2>1, <3>1, <3>2 DEF Find!Body, Searching
      <3> QED
        BY <1>7, <1>8, <1>10, <2>3, <3>1, <3>3 DEF Find!Body
    <2> QED
      BY <1>10, <2>2, <2>3 DEF Find!Body
  <1>11. CASE Find!Found(i)
    <2>1. be[i] < slice[i].last /\ be[i] \in matches /\ FirstOf(i, be[i])
      BY <1>1, <1>5, <1>11 DEF Find!Found, Searching, FirstOf
    <2>2. found' = be[i] /\ found' # size
      BY <1>1, <1>6, <1>11, <2>1 DEF Find!Found
    <2>3. Searching(i)'
      BY <1>2, <1>5, <1>11, <2>1, <2>2 DEF Find!Found, Searching
    <2> QED
      BY <1>7, <1>11, <2>1, <2>2, <2>3 DEF Find!Found
  <1>12. CASE Find!Die(i)
    <2>1. found # size
      BY <1>5, <1>12 DEF Find!Die, Searching
    <2>2. Searching(i)'
      BY <1>2, <1>5, <1>12, <2>1 DEF Find!Die, Searching
    <2> QED
      BY <1>7, <1>8, <1>12, <2>1, <2>2 DEF Find!Die
  <1> QED
    BY <1>9, <1>10, <1>11, <1>12 DEF Find!Thread

LEMMA FindCallerStep ==
    ASSUME FindInv, Find!StartThread \/ Find!Join
    PROVE  FindInv'
  <1> USE DEF FindInv, FindTypes, Find!input, Find!caller, Find!StartsMore
  <1>0. /\ size \in Nat /\ numThreads \in Nat \ {0} /\ started \in Nat /\ joined \in Nat
        /\ Find!Threads \subseteq Nat
    BY DEF Find!Threads
  <1>1. CASE Find!Join
    <2>1. joined' = joined + 1 /\ joined' \in 0..started /\ pc[joined] = "done"
      BY <1>0, <1>1 DEF Find!Join
    <2>2. UNCHANGED <<size, matches, numThreads, cur, started, slice, be, pc, found, die>>
      BY <1>1 DEF Find!Join
    <2>3. \A i \in Find!Threads : i < joined' => pc[i] = "done"
      BY <1>0, <2>1
    <2>4. Covered' /\ \A i : Searching(i)' = Searching(i)
      BY <2>2 DEF Covered, Searching
    <2>5. \A i : FirstOf(i, found)' = FirstOf(i, found)
      BY <2>2 DEF FirstOf
    <2>6. Find!advanceSize' = Find!advanceSize
      BY <2>2 DEF Find!advanceSize
    <2> QED
      BY <2>1, <2>2, <2>3, <2>4, <2>5, <2>6
  <1>2. CASE Find!StartThread
    <2> DEFINE w == Find!advanceSize
    <2>1. /\ slice' = [slice EXCEPT ![started] = [first |-> cur, last |-> cur + w]]
          /\ be' = [be EXCEPT ![started] = cur]
          /\ cur' = cur + w /\ started' = started + 1 /\ started < numThreads
          /\ UNCHANGED <<size, matches, numThreads, joined, pc, found, die>>
      BY <1>2 DEF Find!StartThread
    <2>0. w = IF size \div numThreads = 0 THEN 1 ELSE size \div numThreads
      BY DEF Find!advanceSize
    <2>2. w \in Nat \ {0} /\ cur + w <= size
      <3>1. w \in Nat \ {0}
        BY <1>0, <2>0, Advance
      <3>2. cur = started * w /\ cur # size /\ cur <= size
        BY <1>0, <1>2 DEF Find!StartThread
      <3> HIDE DEF w
      <3> QED
        BY <1>0, <2>0, <2>1, <3>1, <3>2, RoomForSlice
    <2>3. w' = w
      BY <2>1 DEF Find!advanceSize
    <2> HIDE DEF w
    <2>4. cur' \in 0..size /\ started' \in 0..numThreads /\ joined \in 0..started'
      BY <1>0, <2>1, <2>2
    <2>5. cur' = started' * w
      BY <1>0, <2>1, <2>2, NextMultiple DEF w
    <2>6. started \in Find!Threads /\ pc[started] = "loop"
      BY <1>0, <2>1 DEF Find!Threads
    <2>7. [first |-> cur, last |-> cur + w] \in [first : 0..size, last : 0..size]
      BY <1>0, <2>1, <2>4
    <2>8. FindTypes'
      BY <2>1, <2>3, <2>4, <2>5, <2>6, <2>7 DEF w
    <2>9. slice'[started].first = cur /\ slice'[started].last = cur + w /\ be'[started] = cur
      BY <2>1, <2>6
    <2>10. ASSUME NEW i \in Find!Threads, i # started
           PROVE  slice'[i] = slice[i] /\ be'[i] = be[i]
      BY <2>1, <2>10
    <2>11. Covered'
      <3> SUFFICES ASSUME NEW m \in 0..(cur' - 1)
                   PROVE  \E i \in Find!Threads : /\ i < started'
                                                  /\ slice'[i].first <= m /\ m < slice'[i].last
        BY DEF Covered
      <3>1. CASE m < cur
        <4>1. PICK i \in Find!Threads : i < started /\ slice[i].first <= m /\ m < slice[i].last
          BY <1>0, <3>1 DEF Covered
        <4> QED
          BY <1>0, <2>1, <2>10, <4>1
      <3>2. CASE ~(m < cur)
        BY <1>0, <2>1, <2>2, <2>6, <2>9, <3>2
      <3> QED
        BY <3>1, <3>2
    <2>12. ASSUME NEW i \in Find!Threads, i < started' PROVE Searching(i)'
      <3>1. CASE i = started
        BY <1>0, <2>1, <2>2, <2>6, <2>9, <3>1 DEF Searching
      <3>2. CASE i # started
        <4>1. Searching(i)
          BY <1>0, <2>1, <2>12, <3>2
        <4> QED
          BY <2>1, <2>10, <3>2, <4>1 DEF Searching
      <3> QED
        BY <3>1, <3>2
    <2>13. ASSUME NEW i \in Find!Threads, FirstOf(i, found) PROVE FirstOf(i, found)'
      BY <1>0, <2>1, <2>10, <2>13 DEF FirstOf
    <2>14. \A i \in Find!Threads : i >= started' => pc'[i] = "loop"
      BY <1>0, <2>1
    <2> QED
      BY <2>1, <2>8, <2>11, <2>12, <2>13, <2>14
  <1> QED
    BY <1>1, <1>2

LEMMA FindInvIsType == FindInv => Find!TypeOK
  BY DEF FindInv, FindTypes, Find!TypeOK

\* When the caller has joined its threads each has passed its slice, unless one
\* has found something.
LEMMA FindInvIsRight == FindInv => Find!HitIsReported /\ Find!FirstOfItsSlice
  <1> SUFFICES ASSUME FindInv, Find!Returned
               PROVE  /\ matches \cap 0..(size - numThreads) # {} => found # size
                      /\ found # size =>
                           \E i \in Find!Threads :
                               /\ i < started
                               /\ found \in slice[i].first..(slice[i].last - 1)
                               /\ \A m \in slice[i].first..(found - 1) : m \notin matches
    BY DEF Find!HitIsReported, Find!FirstOfItsSlice
  <1> USE DEF FindInv, FindTypes, Find!Returned, Find!StartsMore
  <1>0. /\ size \in Nat /\ numThreads \in Nat \ {0} /\ started \in Nat /\ cur \in Nat
        /\ Find!Threads \subseteq Nat
    BY DEF Find!Threads
  <1>1. ASSUME NEW m \in matches, m \in 0..(size - numThreads) PROVE found # size
    <2>1. size >= numThreads /\ m \in Nat /\ m < size
      BY <1>0, <1>1
    <2>2. CASE ~(m < cur)
      <3>1. started = numThreads /\ cur = numThreads * Find!advanceSize
        BY <1>0, <2>1, <2>2
      <3>2. numThreads * Find!advanceSize > size - numThreads
        BY <1>0, <2>1, Advance DEF Find!advanceSize
      <3> QED
        BY <1>0, <1>1, <2>2, <3>1, <3>2
    <2>3. CASE m < cur
      <3>1. PICK i \in Find!Threads : i < started /\ slice[i].first <= m /\ m < slice[i].last
        BY <1>0, <2>1, <2>3 DEF Covered
      <3>2. pc[i] = "done" /\ Searching(i)
        BY <3>1
      <3>3. die
        BY <1>1, <3>1, <3>2 DEF Searching
      <3> QED
        BY <3>3
    <2> QED
      BY <2>2, <2>3
  <1>2. ASSUME found # size
        PROVE  \E i \in Find!Threads :
                   /\ i < started
                   /\ found \in slice[i].first..(slice[i].last - 1)
                   /\ \A m \in slice[i].first..(found - 1) : m \notin matches
    <2>1. PICK i \in Find!Threads : FirstOf(i, found)
      BY <1>2
    <2>2. slice[i].first \in Nat /\ slice[i].last \in Nat /\ found \in Nat
      OBVIOUS
    <2>3. found \in slice[i].first..(slice[i].last - 1)
      BY <2>1, <2>2 DEF FirstOf
    <2>4. \A m \in slice[i].first..(found - 1) : m \notin matches
      BY <2>1, <2>2 DEF FirstOf
    <2> QED
      BY <2>1, <2>3, <2>4 DEF FirstOf
  <1> QED
    BY <1>1, <1>2
-----------------------------------------------------------------------------
(***************************************************************************)
(* mapReduce                                                               *)
(***************************************************************************)
Elements == 0..(size - 1)
Begun == 1..Len(slices)
Copying == {"copy", "write"}

ReduceTypes ==
    /\ size \in 0..MaxSize /\ numThreads \in 1..MaxThreads
    /\ cur \in 0..size
    /\ slices \in Seq([b : 0..size, e : 0..size]) /\ Len(slices) <= numThreads + 1
    /\ joined \in 0..Len(slices)
    /\ pc \in [Reduce!Threads -> {"map", "copy", "write", "unlock", "done"}]
    /\ tmpStore \in [Reduce!Threads -> Seq(Elements)]
    /\ joinMutex \in Reduce!Threads \cup {Reduce!None}
    /\ length \in [Reduce!Threads -> 0..size]
    /\ out \in Seq(Elements)

\* The slices are not empty, follow each other, and cover what lies before cur.
SlicesOK ==
    /\ Len(slices) <= numThreads => cur = Len(slices) * Reduce!advanceSize
    /\ Len(slices) = numThreads + 1 => cur = size
    /\ \A i \in Begun : slices[i].b < slices[i].e /\ slices[i].e <= cur
    /\ \A i, j \in Begun : i < j => slices[i].e <= slices[j].b
    /\ \A m \in 0..(cur - 1) : \E i \in Begun : slices[i].b <= m /\ m < slices[i].e

\* The mutex is held from Lock to Unlock; a thread that was not started has
\* done nothing, one that was joined everything.
LockOK ==
    /\ \A i \in Reduce!Threads : pc[i] \in Copying \cup {"unlock"} <=> joinMutex = i
    /\ \A i \in Reduce!Threads : i > Len(slices) => pc[i] = "map" /\ tmpStore[i] = <<>>
    /\ \A i \in Begun : i <= joined => pc[i] = "done"

\* The first element of thread i's slice whose result is not in the output.
From(i) == IF pc[i] = "map" THEN slices[i].b ELSE slices[i].e - Len(tmpStore[i])

\* What a thread has in its store, in order.
StoreOK(i) ==
    /\ slices[i].b <= From(i)
    /\ From(i) + Len(tmpStore[i]) <= slices[i].e
    /\ \A k \in 1..Len(tmpStore[i]) : tmpStore[i][k] = From(i) + k - 1
    /\ pc[i] = "write" => tmpStore[i] # <<>> /\ length[i] = Len(out)
    /\ pc[i] \in {"unlock", "done"} => tmpStore[i] = <<>>

\* Which results the output has, each once.
OutOK ==
    /\ \A k \in 1..Len(out) : \E i \in Begun : slices[i].b <= out[k] /\ out[k] < From(i)
    /\ \A i \in Begun : \A m \in Elements :
          slices[i].b <= m /\ m < From(i) => \E k \in 1..Len(out) : out[k] = m
    /\ \A k, l \in 1..Len(out) : out[k] = out[l] => k = l

EndsSlice(m) == \E i \in Begun : m + 1 = slices[i].e
BeginsSlice(m) == \E i \in Begun : m = slices[i].b

\* The last result belongs to the thread that copies, or ends a slice.
LastOK ==
    /\ \A i \in Begun :
          pc[i] \in Copying /\ slices[i].b < From(i) =>
             Len(out) > 0 /\ out[Len(out)] + 1 = From(i)
    /\ \/ Len(out) = 0
       \/ EndsSlice(out[Len(out)])
       \/ \E i \in Begun : pc[i] \in Copying /\ slices[i].b < From(i)

TogetherOK ==
    \A k \in 1..(Len(out) - 1) :
        out[k + 1] = out[k] + 1 \/ (EndsSlice(out[k]) /\ BeginsSlice(out[k + 1]))

ReduceInv == /\ ReduceTypes /\ SlicesOK /\ LockOK
             /\ \A i \in Begun : StoreOK(i)
             /\ OutOK /\ LastOK /\ TogetherOK

LEMMA ReduceInvInit == Reduce!Init => ReduceInv
  <1> SUFFICES ASSUME Reduce!Init PROVE ReduceInv
    OBVIOUS
  <1> USE DEF Reduce!Init
  <1>1. size \in Nat /\ numThreads \in Nat \ {0} /\ Reduce!Threads \subseteq Nat \ {0}
    BY DEF Reduce!Threads
  <1>2. Reduce!advanceSize \in Nat
    BY <1>1, Advance DEF Reduce!advanceSize
  <1>3. Len(slices) = 0 /\ Begun = {} /\ Len(out) = 0
    BY DEF Begun
  <1>4. /\ slices \in Seq([b : 0..size, e : 0..size]) /\ out \in Seq(Elements)
        /\ tmpStore \in [Reduce!Threads -> Seq(Elements)]
        /\ length \in [Reduce!Threads -> 0..size]
    BY <1>1
  <1>5. ReduceTypes
    BY <1>1, <1>3, <1>4 DEF ReduceTypes
  <1>6. SlicesOK
    BY <1>1, <1>2, <1>3 DEF SlicesOK
  <1>7. LockOK
    BY <1>1, <1>3 DEF LockOK, Copying, Reduce!None
  <1> QED
    BY <1>3, <1>5, <1>6, <1>7 DEF ReduceInv, OutOK, LastOK, TogetherOK

LEMMA ReduceNats ==
    ASSUME ReduceTypes
    PROVE  /\ size \in Nat /\ numThreads \in Nat \ {0} /\ cur \in Nat /\ joined \in Nat
           /\ Len(slices) \in Nat /\ DOMAIN slices = Begun /\ Begun \subseteq Nat \ {0}
           /\ Begun \subseteq Reduce!Threads /\ Reduce!Threads \subseteq Nat \ {0}
           /\ Len(out) \in Nat /\ DOMAIN out = 1..Len(out)
           /\ \A i \in Begun : slices[i].b \in 0..size /\ slices[i].e \in 0..size
           /\ \A i \in Reduce!Threads : Len(tmpStore[i]) \in Nat
  <1> USE DEF ReduceTypes, Begun, Reduce!Threads
  <1>1. /\ size \in Nat /\ numThreads \in Nat \ {0} /\ cur \in Nat /\ joined \in Nat
        /\ Len(slices) \in Nat /\ DOMAIN slices = Begun /\ Begun \subseteq Nat \ {0}
        /\ Len(out) \in Nat /\ DOMAIN out = 1..Len(out)
    <2>1. /\ size \in Nat /\ numThreads \in Nat \ {0} /\ cur \in Nat
          /\ Len(slices) \in Nat /\ Len(out) \in Nat
      OBVIOUS
    <2>2. DOMAIN slices = Begun /\ DOMAIN out = 1..Len(out)
      OBVIOUS
    <2>3. joined \in 0..Len(slices)
      OBVIOUS
    <2>4. \A n \in Nat : 0..n \subseteq Nat /\ 1..n \subseteq Nat \ {0}
      OBVIOUS
    <2> QED
      BY <2>1, <2>2, <2>3, <2>4
  <1>2. Begun \subseteq Reduce!Threads /\ Reduce!Threads \subseteq Nat \ {0}
    BY <1>1
  <1>3. ASSUME NEW i \in Begun PROVE slices[i].b \in 0..size /\ slices[i].e \in 0..size
    <2>1. slices[i] \in [b : 0..size, e : 0..size]
      BY <1>3, ElementOfSeq
    <2> QED
      BY <2>1
  <1>4. \A i \in Reduce!Threads : Len(tmpStore[i]) \in Nat
    OBVIOUS
  <1> QED
    BY <1>1, <1>2, <1>3, <1>4

\* The output has no more results than there are elements, and all of them
\* when it has as many.
LEMMA OutBounded ==
    ASSUME ReduceTypes, \A k, l \in 1..Len(out) : out[k] = out[l] => k = l
    PROVE  /\ Len(out) <= size
           /\ (\A m \in Elements : \E k \in 1..Len(out) : out[k] = m) => Len(out) = size
  <1>1. size \in Nat /\ Len(out) \in Nat /\ DOMAIN out = 1..Len(out)
    BY ReduceNats
  <1>2. out \in [1..Len(out) -> Elements]
    BY <1>1 DEF ReduceTypes
  <1>3. out \in Injection(1..Len(out), Elements)
    BY <1>1, <1>2 DEF Injection, IsInjective
  <1>4. /\ IsFiniteSet(1..Len(out)) /\ Cardinality(1..Len(out)) = Len(out)
        /\ IsFiniteSet(Elements) /\ Cardinality(Elements) = size
    <2>1. size - 1 \in Int /\ 1 \in Int /\ 0 \in Int
      BY <1>1
    <2>2. IsFiniteSet(1..Len(out)) /\ Cardinality(1..Len(out)) = Len(out)
      BY <1>1, FS_Interval, SMTT(30)
    <2>3. /\ IsFiniteSet(0..(size - 1))
          /\ Cardinality(0..(size - 1)) = IF 0 > size - 1 THEN 0 ELSE (size - 1) - 0 + 1
      BY <2>1, FS_Interval
    <2> QED
      BY <1>1, <2>2, <2>3 DEF Elements
  <1>5. /\ Cardinality(1..Len(out)) <= Cardinality(Elements)
        /\ Cardinality(1..Len(out)) = Cardinality(Elements)
              <=> out \in Surjection(1..Len(out), Elements)
    BY <1>3, <1>4, FS_Injection
  <1>6. ASSUME \A m \in Elements : \E k \in 1..Len(out) : out[k] = m
        PROVE  out \in Surjection(1..Len(out), Elements)
    BY <1>2, <1>6 DEF Surjection
  <1> QED
    BY <1>4, <1>5, <1>6

LEMMA ReduceInvIsType == ReduceInv => Reduce!TypeOK
  BY DEF ReduceInv, ReduceTypes, Reduce!TypeOK, Elements

\* When all threads are joined their stores are empty: every result is out.
LEMMA ReduceInvIsRight == ReduceInv => Reduce!SlicesTogether
  <1> SUFFICES ASSUME ReduceInv PROVE Reduce!SlicesTogether
    OBVIOUS
  <1>1. \A k \in 1..(Len(out) - 1) :
            \/ out[k + 1] = out[k] + 1
            \/ \E i, j \in DOMAIN slices :
                  out[k] + 1 = slices[i].e /\ out[k + 1] = slices[j].b
    BY ReduceNats DEF ReduceInv, TogetherOK, EndsSlice, BeginsSlice
  <1>2. ASSUME Reduce!Returned
        PROVE  Len(out) = size /\ {out[k] : k \in DOMAIN out} = Elements
    <2>1. cur = size /\ joined = Len(slices)
      BY <1>2 DEF Reduce!Returned, Reduce!Started
    <2>2. ASSUME NEW i \in Begun PROVE From(i) = slices[i].e
      <3>1. pc[i] = "done" /\ tmpStore[i] = <<>>
        BY <2>1 DEF ReduceInv, LockOK, StoreOK, Begun
      <3>2. slices[i].e \in Nat
        BY ReduceNats DEF ReduceInv
      <3> QED
        BY <3>1, <3>2 DEF From
    <2>3. ASSUME NEW m \in Elements PROVE \E k \in 1..Len(out) : out[k] = m
      <3>1. PICK i \in Begun : slices[i].b <= m /\ m < slices[i].e
        BY <2>1 DEF ReduceInv, SlicesOK, Elements
      <3> QED
        BY <2>2, <3>1 DEF ReduceInv, OutOK
    <2>4. \A k \in 1..Len(out) : out[k] \in Elements
      BY DEF ReduceInv, ReduceTypes
    <2>5. Len(out) = size
      BY <2>3, OutBounded DEF ReduceInv, OutOK
    <2> QED
      BY <2>3, <2>4, <2>5, ReduceNats DEF ReduceInv
  <1> QED
    BY <1>1, <1>2 DEF Reduce!SlicesTogether, Reduce!ToSet, Elements

\* A thread that is at work has been started; only it moves.
LEMMA ReduceThreadFrame ==
    ASSUME ReduceInv, NEW i \in Reduce!Threads, Reduce!Thread(i)
    PROVE  /\ i \in Begun /\ i > joined
           /\ UNCHANGED <<size, numThreads, cur, slices, joined>>
           /\ Begun' = Begun /\ Elements' = Elements /\ SlicesOK'
  <1> USE DEF Reduce!Thread, Reduce!Map, Reduce!Lock, Reduce!Copy, Reduce!Write,
              Reduce!Unlock, Reduce!input, Reduce!caller
  <1>1. UNCHANGED <<size, numThreads, cur, slices, joined>>
    OBVIOUS
  <1>2. i <= Len(slices) \/ pc[i] # "map"
    OBVIOUS
  <1>3. pc[i] # "done"
    OBVIOUS
  <1> USE DEF ReduceInv
  <1>4. i \in Nat \ {0} /\ Len(slices) \in Nat /\ joined \in Nat
    BY ReduceNats
  <1>5. i <= Len(slices)
    BY <1>2, <1>4 DEF LockOK
  <1>6. i \in Begun
    BY <1>4, <1>5 DEF Begun
  <1>7. i > joined
    BY <1>3, <1>4, <1>6 DEF LockOK
  <1>8. Begun' = Begun /\ Elements' = Elements
    BY <1>1 DEF Begun, Elements
  <1>9. SlicesOK'
    BY <1>1, <1>8 DEF SlicesOK, Reduce!advanceSize
  <1> QED
    BY <1>1, <1>6, <1>7, <1>8, <1>9

\* A step that takes nothing out of a store keeps what is said of the output.
LEMMA OutSame ==
    ASSUME ReduceInv, UNCHANGED <<slices, out>>, Begun' = Begun, Elements' = Elements,
           \A j \in Begun : From(j)' = From(j)
    PROVE  OutOK' /\ TogetherOK'
  <1>1. OutOK'
    BY DEF ReduceInv, OutOK
  <1>2. TogetherOK'
    BY DEF ReduceInv, TogetherOK, EndsSlice, BeginsSlice
  <1> QED
    BY <1>1, <1>2

\* The stores of the other threads.
LEMMA OthersStore ==
    ASSUME ReduceInv, NEW i \in Begun, NEW j \in Begun, j # i,
           slices' = slices, pc'[j] = pc[j], tmpStore'[j] = tmpStore[j],
           length'[j] = length[j],
           pc[j] = "write" => out' = out
    PROVE  StoreOK(j)' /\ From(j)' = From(j)
  <1>1. From(j)' = From(j)
    BY DEF From
  <1> QED
    BY <1>1 DEF ReduceInv, StoreOK

\* The results to come stand in the store in their order.
LEMMA MapOK ==
    ASSUME ReduceInv, NEW i \in Reduce!Threads, Reduce!Map(i)
    PROVE  ReduceInv'
  <1> USE DEF Reduce!input, Reduce!caller
  <1> DEFINE m == slices[i].b + Len(tmpStore[i])
  <1>1. /\ i \in Begun /\ i > joined /\ Begun' = Begun /\ Elements' = Elements /\ SlicesOK'
        /\ UNCHANGED <<size, numThreads, cur, slices, joined>>
    BY ReduceThreadFrame DEF Reduce!Thread
  <1>2. /\ pc[i] = "map" /\ m # slices[i].e
        /\ tmpStore' = [tmpStore EXCEPT ![i] = Append(@, m)]
        /\ UNCHANGED <<pc, joinMutex, length, out>>
    BY DEF Reduce!Map
  <1>3. /\ ReduceTypes /\ StoreOK(i)
        /\ slices[i].b \in 0..size /\ slices[i].e \in 0..size /\ Len(tmpStore[i]) \in Nat
        /\ size \in Nat /\ tmpStore[i] \in Seq(Elements)
    BY <1>1, ReduceNats DEF ReduceInv, ReduceTypes
  <1>4. From(i) = slices[i].b /\ From(i)' = slices[i].b
    BY <1>1, <1>2 DEF From
  <1>5. m \in Elements /\ m < slices[i].e /\ m \in Nat
    <2>1. m <= slices[i].e
      BY <1>3, <1>4 DEF StoreOK
    <2>2. m \in Nat /\ slices[i].e \in Nat /\ slices[i].e <= size
      BY <1>3
    <2>3. m < slices[i].e
      BY <1>2, <2>1, <2>2
    <2> QED
      BY <1>3, <2>2, <2>3 DEF Elements
  <1> HIDE DEF m
  <1>6. /\ tmpStore'[i] = Append(tmpStore[i], m)
        /\ tmpStore'[i] \in Seq(Elements)
        /\ Len(tmpStore'[i]) = Len(tmpStore[i]) + 1
        /\ tmpStore'[i][Len(tmpStore[i]) + 1] = m
        /\ \A k \in 1..Len(tmpStore[i]) : tmpStore'[i][k] = tmpStore[i][k]
    BY <1>1, <1>2, <1>3, <1>5, AppendProperties DEF ReduceTypes
  <1>7. StoreOK(i)'
    <2>1. From(i) + Len(tmpStore'[i]) <= slices[i].e
      BY <1>3, <1>4, <1>5, <1>6 DEF m
    <2>2. ASSUME NEW k \in 1..Len(tmpStore'[i]) PROVE tmpStore'[i][k] = From(i) + k - 1
      <3>1. CASE k = Len(tmpStore[i]) + 1
        BY <1>3, <1>4, <1>6, <3>1 DEF m
      <3>2. CASE k # Len(tmpStore[i]) + 1
        <4>1. k \in 1..Len(tmpStore[i])
          BY <1>3, <1>6, <3>2
        <4> QED
          BY <1>3, <1>6, <4>1 DEF StoreOK
      <3> QED
        BY <3>1, <3>2
    <2> QED
      BY <1>1, <1>2, <1>3, <1>4, <2>1, <2>2 DEF StoreOK
  <1>8. ASSUME NEW j \in Begun, j # i PROVE StoreOK(j)' /\ From(j)' = From(j)
    <2>1. tmpStore'[j] = tmpStore[j]
      BY <1>1, <1>2, <1>8, ReduceNats DEF ReduceInv, ReduceTypes
    <2> QED
      BY <1>1, <1>2, <1>8, <2>1, OthersStore
  <1>9. ReduceTypes'
    BY <1>1, <1>2, <1>3, <1>6 DEF ReduceTypes
  <1>10. LockOK'
    <2>1. i \in Nat /\ Len(slices) \in Nat /\ i <= Len(slices)
      BY <1>1, <1>3, ReduceNats DEF Begun
    <2>2. ASSUME NEW j \in Reduce!Threads, j > Len(slices)
          PROVE  pc'[j] = "map" /\ tmpStore'[j] = <<>>
      BY <1>1, <1>2, <1>3, <2>1, <2>2 DEF ReduceInv, LockOK, ReduceTypes
    <2> QED
      BY <1>1, <1>2, <2>2 DEF ReduceInv, LockOK
  <1>11. OutOK' /\ TogetherOK'
    BY <1>1, <1>2, <1>4, <1>8, OutSame
  <1>12. LastOK'
    BY <1>1, <1>2, <1>4, <1>8 DEF ReduceInv, LastOK, EndsSlice
  <1> QED
    BY <1>1, <1>7, <1>8, <1>9, <1>10, <1>11, <1>12 DEF ReduceInv

\* A thread that moves on with its store as it is: the next result is the same.
LEMMA LockCopyUnlockFrame ==
    ASSUME ReduceInv, NEW i \in Begun,
           UNCHANGED <<size, numThreads, cur, slices, joined, tmpStore, out>>,
           Begun' = Begun, Elements' = Elements, SlicesOK',
           pc' = [pc EXCEPT ![i] = pc'[i]],
           length' = [length EXCEPT ![i] = length'[i]], length'[i] \in 0..size,
           joinMutex' \in Reduce!Threads \cup {Reduce!None},
           pc'[i] \in {"copy", "write", "unlock", "done"},
           From(i)' = From(i), StoreOK(i)', LockOK', LastOK'
    PROVE  ReduceInv'
  <1>1. Begun \subseteq Reduce!Threads
    BY ReduceNats DEF ReduceInv
  <1>2. ASSUME NEW j \in Begun, j # i PROVE StoreOK(j)' /\ From(j)' = From(j)
    <2>1. pc'[j] = pc[j] /\ length'[j] = length[j]
      BY <1>1, <1>2 DEF ReduceInv, ReduceTypes
    <2> QED
      BY <1>2, <2>1, OthersStore
  <1>3. ReduceTypes'
    BY <1>1 DEF ReduceInv, ReduceTypes
  <1>4. OutOK' /\ TogetherOK'
    BY <1>2, OutSame
  <1> QED
    BY <1>2, <1>3, <1>4 DEF ReduceInv

\* Who copies is the one that holds the mutex.
LEMMA CopyingIsHolder ==
    ASSUME ReduceInv, NEW i \in Begun, pc[i] \in Copying
    PROVE  joinMutex = i /\ \A j \in Begun : j # i => pc[j] \notin Copying
  BY ReduceNats DEF ReduceInv, LockOK

\* The holder of the mutex moves on and keeps it.
LEMMA MutexKept ==
    ASSUME ReduceInv, NEW i \in Begun, i > joined, pc[i] \in Copying,
           UNCHANGED <<slices, joined, joinMutex>>, Begun' = Begun,
           pc'[i] \in Copying \cup {"unlock"},
           \A j \in Reduce!Threads \ {i} : pc'[j] = pc[j],
           \A j \in Reduce!Threads \ {i} : tmpStore'[j] = tmpStore[j]
    PROVE  LockOK'
  <1>1. Begun \subseteq Reduce!Threads /\ Reduce!Threads \subseteq Nat
    BY ReduceNats DEF ReduceInv
  <1>2. i \in Nat /\ Len(slices) \in Nat /\ i <= Len(slices) /\ joined \in Nat
    BY <1>1, ReduceNats DEF ReduceInv, Begun
  <1>3. \A j \in Reduce!Threads : pc'[j] \in Copying \cup {"unlock"} <=> joinMutex = j
    BY <1>1 DEF ReduceInv, LockOK
  <1>4. ASSUME NEW j \in Reduce!Threads, j > Len(slices)
        PROVE  pc'[j] = "map" /\ tmpStore'[j] = <<>>
    BY <1>2, <1>4 DEF ReduceInv, LockOK
  <1>5. ASSUME NEW j \in Begun, j <= joined PROVE pc'[j] = "done"
    BY <1>1, <1>2, <1>5 DEF ReduceInv, LockOK
  <1> QED
    BY <1>3, <1>4, <1>5 DEF LockOK

LEMMA LockStepOK ==
    ASSUME ReduceInv, NEW i \in Reduce!Threads, Reduce!Lock(i)
    PROVE  ReduceInv'
  <1> USE DEF Reduce!input, Reduce!caller
  <1>1. /\ i \in Begun /\ i > joined /\ Begun' = Begun /\ Elements' = Elements /\ SlicesOK'
        /\ UNCHANGED <<size, numThreads, cur, slices, joined>>
    BY ReduceThreadFrame DEF Reduce!Thread
  <1>2. /\ pc[i] = "map" /\ slices[i].b + Len(tmpStore[i]) = slices[i].e
        /\ joinMutex = Reduce!None /\ joinMutex' = i /\ pc' = [pc EXCEPT ![i] = "copy"]
        /\ UNCHANGED <<tmpStore, length, out>>
    BY DEF Reduce!Lock
  <1>3. /\ ReduceTypes /\ StoreOK(i)
        /\ slices[i].b \in 0..size /\ slices[i].e \in 0..size /\ Len(tmpStore[i]) \in Nat
        /\ size \in Nat /\ Reduce!None \notin Reduce!Threads
        /\ Begun \subseteq Reduce!Threads /\ pc'[i] = "copy"
    BY <1>1, <1>2, ReduceNats DEF ReduceInv, ReduceTypes, Reduce!None
  <1>4. From(i) = slices[i].b /\ From(i)' = slices[i].b
    <2>1. From(i)' = slices[i].e - Len(tmpStore[i])
      BY <1>1, <1>2, <1>3 DEF From
    <2> QED
      BY <1>2, <1>3, <2>1 DEF From
  <1>5. StoreOK(i)'
    BY <1>1, <1>2, <1>3, <1>4 DEF StoreOK
  <1>6. \A j \in Begun : pc[j] \notin Copying
    BY <1>2, <1>3, CopyingIsHolder
  <1>7. LockOK'
    <2>1. \A j \in Reduce!Threads : pc[j] \notin Copying \cup {"unlock"}
      BY <1>2, <1>3 DEF ReduceInv, LockOK
    <2>2. \A j \in Reduce!Threads \ {i} : pc'[j] = pc[j]
      BY <1>2
    <2>3. i \in Nat /\ Len(slices) \in Nat /\ i <= Len(slices) /\ joined \in Nat
      BY <1>1, <1>3, ReduceNats DEF Begun
    <2>4. \A j \in Reduce!Threads : pc'[j] \in Copying \cup {"unlock"} <=> joinMutex' = j
      BY <1>2, <1>3, <2>1, <2>2 DEF Copying
    <2>5. ASSUME NEW j \in Reduce!Threads, j > Len(slices)
          PROVE  pc'[j] = "map" /\ tmpStore[j] = <<>>
      <3>1. j # i /\ pc[j] = "map" /\ tmpStore[j] = <<>>
        BY <2>3, <2>5 DEF ReduceInv, LockOK
      <3> QED
        BY <2>2, <3>1
    <2>6. ASSUME NEW j \in Begun, j <= joined PROVE pc'[j] = "done"
      BY <1>2, <1>3, <2>2, <2>6 DEF ReduceInv, LockOK
    <2> QED
      BY <1>1, <1>2, <1>3, <2>4, <2>5, <2>6 DEF LockOK
  <1>8. LastOK'
    <2>1. ASSUME NEW j \in Begun, pc'[j] \in Copying PROVE j = i
      BY <1>2, <1>3, <1>6, <2>1 DEF ReduceTypes
    <2>2. Len(out) = 0 \/ EndsSlice(out[Len(out)])
      BY <1>6 DEF ReduceInv, LastOK
    <2>3. ~(slices[i].b < From(i)')
      BY <1>3, <1>4
    <2> QED
      BY <1>1, <1>2, <2>1, <2>2, <2>3 DEF LastOK, EndsSlice
  <1>9. length' = [length EXCEPT ![i] = length'[i]] /\ length'[i] \in 0..size
    BY <1>2, <1>3, <1>1 DEF ReduceTypes
  <1> QED
    BY <1>1, <1>2, <1>3, <1>4, <1>5, <1>7, <1>8, <1>9, LockCopyUnlockFrame

LEMMA CopyStepOK ==
    ASSUME ReduceInv, NEW i \in Reduce!Threads, Reduce!Copy(i)
    PROVE  ReduceInv'
  <1> USE DEF Reduce!input, Reduce!caller
  <1>1. /\ i \in Begun /\ i > joined /\ Begun' = Begun /\ Elements' = Elements /\ SlicesOK'
        /\ UNCHANGED <<size, numThreads, cur, slices, joined>>
    BY ReduceThreadFrame DEF Reduce!Thread
  <1>2. pc[i] = "copy" /\ UNCHANGED <<tmpStore, joinMutex, out>>
    BY DEF Reduce!Copy
  <1>3. \/ /\ tmpStore[i] # <<>> /\ length' = [length EXCEPT ![i] = Len(out)]
           /\ pc' = [pc EXCEPT ![i] = "write"]
        \/ /\ tmpStore[i] = <<>> /\ UNCHANGED length
           /\ pc' = [pc EXCEPT ![i] = "unlock"]
    BY DEF Reduce!Copy
  <1>4. /\ ReduceTypes /\ StoreOK(i)
        /\ slices[i].b \in 0..size /\ slices[i].e \in 0..size /\ Len(tmpStore[i]) \in Nat
        /\ size \in Nat /\ Begun \subseteq Reduce!Threads /\ Len(out) \in 0..size
        /\ slices[i].b < slices[i].e
    BY <1>1, ReduceNats, OutBounded DEF ReduceInv, OutOK, SlicesOK
  <1>5. /\ pc' = [pc EXCEPT ![i] = pc'[i]] /\ pc'[i] \in {"write", "unlock"}
        /\ length' = [length EXCEPT ![i] = length'[i]] /\ length'[i] \in 0..size
        /\ pc'[i] = "write" => tmpStore[i] # <<>> /\ length'[i] = Len(out)
        /\ pc'[i] = "unlock" => tmpStore[i] = <<>>
    BY <1>3, <1>4 DEF ReduceTypes
  <1>6. From(i)' = From(i)
    BY <1>1, <1>2, <1>5 DEF From
  <1>7. StoreOK(i)'
    BY <1>1, <1>2, <1>4, <1>5, <1>6 DEF StoreOK
  <1>8. joinMutex = i /\ \A j \in Begun : j # i => pc[j] \notin Copying
    BY <1>1, <1>2, CopyingIsHolder DEF Copying
  <1>9. \A j \in Reduce!Threads \ {i} : pc'[j] = pc[j]
    BY <1>4, <1>5 DEF ReduceTypes
  <1>10. LockOK'
    BY <1>1, <1>2, <1>5, <1>9, MutexKept DEF Copying
  <1>11. LastOK'
    <2>1. CASE pc'[i] = "write"
      <3>1. \A j \in Begun : pc'[j] \in Copying <=> pc[j] \in Copying
        BY <1>2, <1>4, <1>9, <2>1 DEF Copying
      <3>2. \A j \in Begun : From(j)' = From(j)
        BY <1>1, <1>2, <1>4, <1>6, <1>9 DEF From
      <3> QED
        BY <1>1, <1>2, <3>1, <3>2 DEF ReduceInv, LastOK, EndsSlice
    <2>2. CASE pc'[i] = "unlock"
      <3>1. \A j \in Begun : pc'[j] \notin Copying
        BY <1>4, <1>8, <1>9, <2>2 DEF Copying
      <3>2. From(i) = slices[i].e
        BY <1>2, <1>4, <1>5, <2>2 DEF From
      <3>3. EndsSlice(out[Len(out)])
        BY <1>1, <1>2, <1>4, <3>2 DEF ReduceInv, LastOK, EndsSlice, Copying
      <3> QED
        BY <1>1, <1>2, <3>1, <3>3 DEF LastOK, EndsSlice
    <2> QED
      BY <1>5, <2>1, <2>2
  <1> QED
    BY <1>1, <1>2, <1>4, <1>5, <1>6, <1>7, <1>10, <1>11, LockCopyUnlockFrame
       DEF ReduceTypes

LEMMA UnlockStepOK ==
    ASSUME ReduceInv, NEW i \in Reduce!Threads, Reduce!Unlock(i)
    PROVE  ReduceInv'
  <1> USE DEF Reduce!input, Reduce!caller
  <1>1. /\ i \in Begun /\ i > joined /\ Begun' = Begun /\ Elements' = Elements /\ SlicesOK'
        /\ UNCHANGED <<size, numThreads, cur, slices, joined>>
    BY ReduceThreadFrame DEF Reduce!Thread
  <1>2. /\ pc[i] = "unlock" /\ joinMutex' = Reduce!None
        /\ pc' = [pc EXCEPT ![i] = "done"]
        /\ UNCHANGED <<tmpStore, length, out>>
    BY DEF Reduce!Unlock
  <1>3. /\ ReduceTypes /\ StoreOK(i) /\ Begun \subseteq Reduce!Threads
        /\ Reduce!None \notin Reduce!Threads
    BY <1>1, ReduceNats DEF ReduceInv, Reduce!None
  <1>4. /\ pc'[i] = "done" /\ \A j \in Reduce!Threads \ {i} : pc'[j] = pc[j]
    BY <1>2, <1>3 DEF ReduceTypes
  <1>5. \A j \in Begun : From(j)' = From(j)
    BY <1>1, <1>2, <1>3, <1>4 DEF From
  <1>6. StoreOK(i)'
    BY <1>1, <1>2, <1>3, <1>4, <1>5 DEF StoreOK
  <1>7. LockOK'
    <2>1. joinMutex = i
      BY <1>2 DEF ReduceInv, LockOK
    <2>2. \A j \in Reduce!Threads : pc'[j] \notin Copying \cup {"unlock"}
      BY <1>4, <2>1 DEF ReduceInv, LockOK, Copying
    <2>3. i <= Len(slices) /\ i \in Nat /\ Len(slices) \in Nat
      BY <1>1, <1>3, ReduceNats DEF Begun
    <2>4. ASSUME NEW j \in Reduce!Threads, j > Len(slices)
          PROVE  pc'[j] = "map" /\ tmpStore[j] = <<>>
      BY <1>4, <2>3, <2>4 DEF ReduceInv, LockOK
    <2>5. ASSUME NEW j \in Begun, j <= joined PROVE pc'[j] = "done"
      BY <1>3, <1>4, <2>5 DEF ReduceInv, LockOK
    <2> QED
      BY <1>1, <1>2, <1>3, <2>2, <2>4, <2>5 DEF LockOK
  <1>8. LastOK'
    <2>1. \A j \in Begun : pc'[j] \in Copying <=> pc[j] \in Copying
      BY <1>2, <1>3, <1>4 DEF Copying
    <2> QED
      BY <1>1, <1>2, <1>5, <2>1 DEF ReduceInv, LastOK, EndsSlice
  <1>9. length' = [length EXCEPT ![i] = length'[i]] /\ length'[i] \in 0..size
    BY <1>1, <1>2, <1>3 DEF ReduceTypes
  <1> QED
    BY <1>1, <1>2, <1>4, <1>5, <1>6, <1>7, <1>8, <1>9, LockCopyUnlockFrame

\* The element whose result is written is in no other thread's slice, and not
\* yet in the output.
LEMMA WriteStepOK ==
    ASSUME ReduceInv, NEW i \in Reduce!Threads, Reduce!Write(i)
    PROVE  ReduceInv'
  <1> USE DEF Reduce!input, Reduce!caller
  <1> DEFINE m == From(i)
             n == Len(out)
  <1>1. /\ i \in Begun /\ i > joined /\ Begun' = Begun /\ Elements' = Elements /\ SlicesOK'
        /\ UNCHANGED <<size, numThreads, cur, slices, joined>>
    BY ReduceThreadFrame DEF Reduce!Thread
  <1>2. /\ pc[i] = "write" /\ pc' = [pc EXCEPT ![i] = "copy"]
        /\ out' = Append(SubSeq(out, 1, length[i]), Head(tmpStore[i]))
        /\ tmpStore' = [tmpStore EXCEPT ![i] = Tail(@)]
        /\ UNCHANGED <<joinMutex, length>>
    BY DEF Reduce!Write
  <1>3. /\ ReduceTypes /\ StoreOK(i)
        /\ slices[i].b \in 0..size /\ slices[i].e \in 0..size /\ Len(tmpStore[i]) \in Nat
        /\ size \in Nat /\ Begun \subseteq Reduce!Threads /\ n \in Nat
        /\ tmpStore[i] \in Seq(Elements) /\ out \in Seq(Elements)
        /\ DOMAIN out = 1..n
    BY <1>1, ReduceNats DEF ReduceInv, ReduceTypes
  <1>4. tmpStore[i] # <<>> /\ length[i] = n /\ Len(tmpStore[i]) > 0
    BY <1>2, <1>3 DEF StoreOK
  <1>5. /\ m = slices[i].e - Len(tmpStore[i]) /\ m \in Nat
        /\ slices[i].b <= m /\ m < slices[i].e
    <2>1. m = slices[i].e - Len(tmpStore[i]) /\ slices[i].b <= m
      BY <1>2, <1>3 DEF From, StoreOK
    <2> HIDE DEF m
    <2> QED
      BY <1>3, <1>4, <2>1
  <1>6. Head(tmpStore[i]) = m /\ m \in Elements
    <2>1. Head(tmpStore[i]) = tmpStore[i][1] /\ tmpStore[i][1] \in Elements
      BY <1>3, <1>4
    <2>2. 1 \in 1..Len(tmpStore[i])
      BY <1>3, <1>4
    <2>3. tmpStore[i][1] = m + 1 - 1
      BY <1>3, <2>2 DEF StoreOK
    <2> HIDE DEF m
    <2> QED
      BY <1>5, <2>1, <2>3
  <1> HIDE DEF m
  <1>7. SubSeq(out, 1, length[i]) = out
    BY <1>3, <1>4
  <1>8. /\ out' = Append(out, m) /\ out' \in Seq(Elements) /\ Len(out') = n + 1
        /\ out'[n + 1] = m /\ \A k \in 1..n : out'[k] = out[k]
    <2>1. out' = Append(out, m)
      BY <1>2, <1>6, <1>7
    <2>2. /\ Append(out, m) \in Seq(Elements) /\ Len(Append(out, m)) = n + 1
          /\ Append(out, m)[n + 1] = m /\ \A k \in 1..n : Append(out, m)[k] = out[k]
      BY <1>3, <1>6, AppendProperties
    <2> QED
      BY <2>1, <2>2
  <1>9. /\ pc'[i] = "copy" /\ \A j \in Reduce!Threads \ {i} : pc'[j] = pc[j]
        /\ tmpStore'[i] = Tail(tmpStore[i])
        /\ \A j \in Reduce!Threads \ {i} : tmpStore'[j] = tmpStore[j]
    BY <1>2, <1>3 DEF ReduceTypes
  <1>10. /\ tmpStore'[i] \in Seq(Elements) /\ Len(tmpStore'[i]) = Len(tmpStore[i]) - 1
         /\ \A k \in 1..Len(tmpStore'[i]) : tmpStore'[i][k] = tmpStore[i][k + 1]
    BY <1>3, <1>4, <1>9, HeadTailProperties
  <1>11. From(i)' = m + 1
    BY <1>1, <1>3, <1>5, <1>9, <1>10 DEF From
  <1>12. StoreOK(i)'
    <2>1. \A k \in 1..Len(tmpStore'[i]) : tmpStore'[i][k] = (m + 1) + k - 1
      <3> SUFFICES ASSUME NEW k \in 1..Len(tmpStore'[i])
                   PROVE  tmpStore'[i][k] = (m + 1) + k - 1
        OBVIOUS
      <3>1. k \in Nat /\ k + 1 \in 1..Len(tmpStore[i])
        BY <1>3, <1>4, <1>10
      <3>2. tmpStore[i][k + 1] = m + (k + 1) - 1
        BY <1>3, <3>1 DEF StoreOK, m
      <3>3. tmpStore'[i][k] = tmpStore[i][k + 1]
        BY <1>10
      <3> QED
        BY <1>5, <3>1, <3>2, <3>3
    <2>2. slices[i].b <= m + 1 /\ (m + 1) + Len(tmpStore'[i]) <= slices[i].e
      BY <1>3, <1>4, <1>5, <1>10, SMTT(30)
    <2> QED
      BY <1>1, <1>9, <1>11, <2>1, <2>2 DEF StoreOK
  <1>13. ASSUME NEW j \in Begun, j # i
         PROVE  /\ StoreOK(j)' /\ From(j)' = From(j) /\ pc[j] \notin Copying
                /\ pc'[j] = pc[j]
    <2>1. pc[j] \notin Copying
      BY <1>1, <1>2, <1>13, CopyingIsHolder DEF Copying
    <2>2. pc'[j] = pc[j] /\ tmpStore'[j] = tmpStore[j] /\ length'[j] = length[j]
      BY <1>2, <1>3, <1>9, <1>13
    <2> QED
      BY <1>1, <1>13, <2>1, <2>2, OthersStore DEF Copying
  <1>14. ASSUME NEW k \in 1..n PROVE out[k] # m
    <2>1. PICK j \in Begun : slices[j].b <= out[k] /\ out[k] < From(j)
      BY DEF ReduceInv, OutOK
    <2>2. /\ StoreOK(j) /\ out[k] \in Nat /\ Len(tmpStore[j]) \in Nat
          /\ j \in Nat /\ i \in Nat /\ slices[j].b \in Nat /\ slices[j].e \in Nat
      <3>1. StoreOK(j) /\ ReduceTypes
        BY DEF ReduceInv
      <3>2. out[k] \in Nat
        BY <1>3 DEF Elements
      <3>3. slices[j].b \in 0..size /\ slices[j].e \in 0..size
        BY <3>1, ReduceNats
      <3>4. Len(tmpStore[j]) \in Nat /\ j \in Nat /\ i \in Nat
        BY <1>1, <3>1, ReduceNats
      <3> QED
        BY <1>3, <3>1, <3>2, <3>3, <3>4
    <2>3. From(j) \in Int /\ From(j) <= slices[j].e
      BY <2>2, SMTT(30) DEF StoreOK, From
    <2>4. CASE j = i
      BY <1>5, <2>1, <2>2, <2>4 DEF m
    <2>5. CASE j # i
      <3>1. slices[j].e <= slices[i].b \/ slices[i].e <= slices[j].b
        BY <1>1, <2>2, <2>5 DEF ReduceInv, SlicesOK
      <3> QED
        BY <1>3, <1>5, <2>1, <2>2, <2>3, <3>1, SMTT(30)
    <2> QED
      BY <2>4, <2>5
  <1>15. OutOK'
    <2>1. ASSUME NEW k \in 1..(n + 1)
          PROVE  \E j \in Begun : slices[j].b <= out'[k] /\ out'[k] < From(j)'
      <3>1. CASE k = n + 1
        BY <1>1, <1>3, <1>5, <1>8, <1>11, <3>1
      <3>2. CASE k # n + 1
        <4>1. k \in 1..n /\ out'[k] = out[k] /\ out[k] \in Nat
          BY <1>3, <1>8, <3>2 DEF Elements
        <4>2. PICK j \in Begun : slices[j].b <= out[k] /\ out[k] < From(j)
          BY <4>1 DEF ReduceInv, OutOK
        <4>3. out[k] < From(j)'
          BY <1>5, <1>11, <1>13, <4>1, <4>2 DEF m
        <4> QED
          BY <4>1, <4>2, <4>3
      <3> QED
        BY <3>1, <3>2
    <2>2. ASSUME NEW j \in Begun, NEW x \in Elements, slices[j].b <= x, x < From(j)'
          PROVE  \E k \in 1..(n + 1) : out'[k] = x
      <3>1. CASE j = i /\ x = m
        BY <1>3, <1>8, <3>1
      <3>2. CASE ~(j = i /\ x = m)
        <4>1. x < From(j)
          BY <1>5, <1>11, <1>13, <2>2, <3>2 DEF m, Elements
        <4>2. PICK k \in 1..n : out[k] = x
          BY <2>2, <4>1 DEF ReduceInv, OutOK
        <4> QED
          BY <1>3, <1>8, <4>2
      <3> QED
        BY <3>1, <3>2
    <2>3. ASSUME NEW k \in 1..(n + 1), NEW l \in 1..(n + 1), out'[k] = out'[l]
          PROVE  k = l
      <3>1. CASE k \in 1..n /\ l \in 1..n
        BY <1>8, <2>3, <3>1 DEF ReduceInv, OutOK
      <3>2. CASE k = n + 1 \/ l = n + 1
        BY <1>3, <1>8, <1>14, <2>3, <3>2
      <3> QED
        BY <1>3, <3>1, <3>2
    <2> QED
      BY <1>1, <1>8, <2>1, <2>2, <2>3 DEF OutOK
  <1>16. n > 0 => \/ out[n] + 1 = m
                  \/ EndsSlice(out[n]) /\ BeginsSlice(m)
    <2>1. CASE slices[i].b < m
      BY <1>1, <1>2, <2>1 DEF ReduceInv, LastOK, Copying, m
    <2>2. CASE ~(slices[i].b < m)
      <3>1. m = slices[i].b
        BY <1>3, <1>5, <2>2
      <3>2. ASSUME NEW j \in Begun, pc[j] \in Copying, slices[j].b < From(j) PROVE FALSE
        BY <1>13, <2>2, <3>2 DEF m
      <3>3. n = 0 \/ EndsSlice(out[n])
        BY <3>2 DEF ReduceInv, LastOK
      <3> QED
        BY <1>1, <1>3, <3>1, <3>3 DEF BeginsSlice
    <2> QED
      BY <2>1, <2>2
  <1>17. TogetherOK'
    <2> SUFFICES ASSUME NEW k \in 1..n
                 PROVE  \/ out'[k + 1] = out'[k] + 1
                        \/ EndsSlice(out'[k]) /\ BeginsSlice(out'[k + 1])
      BY <1>1, <1>3, <1>8 DEF TogetherOK, EndsSlice, BeginsSlice
    <2>1. CASE k = n
      BY <1>3, <1>8, <1>16, <2>1
    <2>2. CASE k # n
      <3>0. \A a \in Nat : \A b \in 1..a : b # a => b \in 1..(a - 1) /\ b + 1 \in 1..a
        OBVIOUS
      <3>1. k \in 1..(n - 1) /\ k + 1 \in 1..n
        BY <1>3, <2>2, <3>0
      <3> QED
        BY <1>8, <3>1 DEF ReduceInv, TogetherOK
    <2> QED
      BY <2>1, <2>2
  <1>18. LastOK'
    <2>1. ASSUME NEW j \in Begun, pc'[j] \in Copying, slices[j].b < From(j)'
          PROVE  Len(out') > 0 /\ out'[Len(out')] + 1 = From(j)'
      <3>1. j = i
        BY <1>13, <2>1
      <3> QED
        BY <1>3, <1>8, <1>11, <3>1
    <2>2. pc'[i] \in Copying /\ slices[i].b < From(i)'
      BY <1>3, <1>5, <1>9, <1>11 DEF Copying
    <2> QED
      BY <1>1, <2>1, <2>2 DEF LastOK
  <1>19. LockOK'
    BY <1>1, <1>2, <1>9, MutexKept DEF Copying
  <1>20. ReduceTypes'
    <2>1. tmpStore' \in [Reduce!Threads -> Seq(Elements)]
      BY <1>2, <1>3, <1>9, <1>10 DEF ReduceTypes
    <2>2. pc' \in [Reduce!Threads -> {"map", "copy", "write", "unlock", "done"}]
      BY <1>2, <1>3 DEF ReduceTypes
    <2> QED
      BY <1>1, <1>2, <1>3, <1>8, <2>1, <2>2 DEF ReduceTypes
  <1> QED
    BY <1>1, <1>12, <1>13, <1>15, <1>17, <1>18, <1>19, <1>20 DEF ReduceInv

\* A new slice begins where the last one ended; its thread has done nothing.
LEMMA StartOK ==
    ASSUME ReduceInv, NEW e \in 0..size, Reduce!Start(e), cur < e,
           Len(slices) <= numThreads,
           Len(slices) < numThreads => e = cur + Reduce!advanceSize,
           Len(slices) = numThreads => e = size
    PROVE  ReduceInv'
  <1> USE DEF Reduce!input, Reduce!caller
  <1>0. PICK n \in Nat : n = Len(slices)
    BY ReduceNats DEF ReduceInv
  <1> DEFINE Slices == [b : 0..size, e : 0..size]
  <1>1. /\ slices' = Append(slices, [b |-> cur, e |-> e]) /\ cur' = e
        /\ UNCHANGED <<size, numThreads, joined, pc, tmpStore, joinMutex, length, out>>
    BY DEF Reduce!Start
  <1>2. /\ ReduceTypes /\ n \in Nat /\ Begun = 1..n /\ numThreads \in Nat \ {0}
        /\ cur \in Nat /\ size \in Nat /\ joined \in 0..n /\ e \in Nat /\ e <= size
        /\ \A i \in Begun : slices[i].b \in Nat /\ slices[i].e \in Nat
    BY <1>0, ReduceNats, SMTT(30) DEF ReduceInv, Begun, ReduceTypes
  <1>3. [b |-> cur, e |-> e] \in Slices
    BY <1>2 DEF ReduceTypes
  <1>4. /\ slices' \in Seq(Slices) /\ Len(slices') = n + 1 /\ slices'[n + 1].b = cur
        /\ slices'[n + 1].e = e /\ \A i \in 1..n : slices'[i] = slices[i]
    <2>1. /\ slices' \in Seq(Slices) /\ Len(slices') = n + 1
          /\ slices'[n + 1] = [b |-> cur, e |-> e]
          /\ \A i \in 1..n : slices'[i] = slices[i]
      BY <1>0, <1>1, <1>2, <1>3, AppendProperties DEF ReduceTypes
    <2> QED
      BY <2>1
  <1> HIDE DEF Slices
  <1>5. Begun' = 1..(n + 1) /\ Elements' = Elements /\ n + 1 \in Reduce!Threads
    <2>1. n + 1 \in 1..(MaxThreads + 1)
      BY <1>0, <1>2 DEF ReduceTypes
    <2> QED
      BY <1>1, <1>4, <2>1 DEF Begun, Elements, Reduce!Threads
  <1>6. \A i \in Begun' : i = n + 1 \/ i \in Begun
    BY <1>2, <1>5
  <1>7. pc[n + 1] = "map" /\ tmpStore[n + 1] = <<>>
    BY <1>0, <1>2, <1>5 DEF ReduceInv, LockOK
  <1>8. ReduceTypes'
    <2>1. /\ cur' \in 0..size /\ Len(slices') <= numThreads + 1
          /\ joined \in 0..Len(slices')
      BY <1>0, <1>1, <1>2, <1>4
    <2> QED
      BY <1>1, <1>2, <1>4, <1>5, <2>1 DEF ReduceTypes, Slices
  <1>9. SlicesOK'
    <2>1. Len(slices') <= numThreads => cur' = Len(slices') * Reduce!advanceSize
      <3>1. Reduce!advanceSize \in Nat
        BY <1>2, Advance DEF Reduce!advanceSize
      <3>2. n < numThreads => cur' = n * Reduce!advanceSize + Reduce!advanceSize
        BY <1>0, <1>1, <1>2 DEF ReduceInv, SlicesOK
      <3> QED
        BY <1>2, <1>4, <3>1, <3>2, NextMultiple
    <2>2. Len(slices') = numThreads + 1 => cur' = size
      BY <1>0, <1>1, <1>2, <1>4
    <2>3. ASSUME NEW i \in Begun' PROVE slices'[i].b < slices'[i].e /\ slices'[i].e <= cur'
      <3>1. CASE i = n + 1
        BY <1>1, <1>2, <1>4, <3>1
      <3>2. CASE i \in Begun
        <4>1. slices[i].b < slices[i].e /\ slices[i].e <= cur
          BY <3>2 DEF ReduceInv, SlicesOK
        <4> QED
          BY <1>1, <1>2, <1>4, <3>2, <4>1
      <3> QED
        BY <1>6, <2>3, <3>1, <3>2
    <2>4. ASSUME NEW i \in Begun', NEW j \in Begun', i < j
          PROVE  slices'[i].e <= slices'[j].b
      <3>1. i \in Begun
        BY <1>2, <1>5, <2>4
      <3>2. CASE j = n + 1
        BY <1>2, <1>4, <3>1, <3>2 DEF ReduceInv, SlicesOK
      <3>3. CASE j \in Begun
        BY <1>2, <1>4, <2>4, <3>1, <3>3 DEF ReduceInv, SlicesOK
      <3> QED
        BY <1>6, <2>4, <3>2, <3>3
    <2>5. ASSUME NEW m \in 0..(cur' - 1)
          PROVE  \E i \in Begun' : slices'[i].b <= m /\ m < slices'[i].e
      <3>1. CASE m < cur
        <4>1. m \in 0..(cur - 1)
          BY <1>1, <1>2, <3>1
        <4>2. PICK i \in Begun : slices[i].b <= m /\ m < slices[i].e
          BY <4>1 DEF ReduceInv, SlicesOK
        <4> QED
          BY <1>2, <1>4, <1>5, <4>2
      <3>2. CASE ~(m < cur)
        <4>1. n + 1 \in Begun'
          BY <1>2, <1>5
        <4> QED
          BY <1>1, <1>2, <1>4, <3>2, <4>1
      <3> QED
        BY <3>1, <3>2
    <2> QED
      BY <1>1, <2>1, <2>2, <2>3, <2>4, <2>5 DEF SlicesOK, Reduce!advanceSize
  <1>10. LockOK'
    <2>1. ASSUME NEW i \in Reduce!Threads, i > n + 1 PROVE pc[i] = "map" /\ tmpStore[i] = <<>>
      <3>1. i > n
        BY <1>2, <2>1, ReduceNats
      <3> QED
        BY <1>0, <3>1 DEF ReduceInv, LockOK
    <2>2. ASSUME NEW i \in Begun', i <= joined PROVE pc[i] = "done"
      <3>1. i \in Begun
        BY <1>2, <1>5, <2>2
      <3> QED
        BY <2>2, <3>1 DEF ReduceInv, LockOK
    <2> QED
      BY <1>1, <1>4, <2>1, <2>2 DEF ReduceInv, LockOK
  <1>11. \A i \in Begun : From(i)' = From(i)
    BY <1>1, <1>2, <1>4 DEF From
  <1>12. From(n + 1)' = cur
    BY <1>1, <1>4, <1>7 DEF From
  <1>13. ASSUME NEW i \in Begun' PROVE StoreOK(i)'
    <2>1. CASE i = n + 1
      BY <1>1, <1>2, <1>4, <1>7, <1>12, <2>1 DEF StoreOK
    <2>2. CASE i \in Begun
      BY <1>1, <1>2, <1>4, <1>11, <2>2 DEF ReduceInv, StoreOK
    <2> QED
      BY <1>6, <1>13, <2>1, <2>2
  <1>14. OutOK'
    <2>1. ASSUME NEW k \in 1..Len(out)
          PROVE  \E i \in Begun' : slices'[i].b <= out[k] /\ out[k] < From(i)'
      <3>1. PICK i \in Begun : slices[i].b <= out[k] /\ out[k] < From(i)
        BY DEF ReduceInv, OutOK
      <3>2. i \in Begun'
        BY <1>2, <1>5
      <3> QED
        BY <1>2, <1>4, <1>11, <3>1, <3>2
    <2>2. ASSUME NEW i \in Begun', NEW m \in Elements, slices'[i].b <= m, m < From(i)'
          PROVE  \E k \in 1..Len(out) : out[k] = m
      <3>1. i \in Begun
        BY <1>2, <1>4, <1>6, <1>12, <2>2 DEF Elements
      <3> QED
        BY <1>2, <1>4, <1>11, <2>2, <3>1, SMTT(30) DEF ReduceInv, OutOK
    <2> QED
      BY <1>1, <1>5, <2>1, <2>2 DEF ReduceInv, OutOK
  <1>15. \A m : /\ EndsSlice(m) => EndsSlice(m)'
                /\ BeginsSlice(m) => BeginsSlice(m)'
    <2>1. ASSUME NEW i \in Begun PROVE i \in Begun' /\ slices'[i] = slices[i]
      BY <1>2, <1>4, <1>5
    <2> QED
      BY <2>1 DEF EndsSlice, BeginsSlice
  <1>16. LastOK'
    <2>1. ASSUME NEW i \in Begun', pc[i] \in Copying, slices'[i].b < From(i)'
          PROVE  Len(out) > 0 /\ out[Len(out)] + 1 = From(i)'
      <3>1. i \in Begun
        BY <1>6, <1>7, <2>1 DEF Copying
      <3> QED
        BY <1>2, <1>4, <1>11, <2>1, <3>1 DEF ReduceInv, LastOK
    <2>2. ASSUME NEW i \in Begun, pc[i] \in Copying, slices[i].b < From(i)
          PROVE  i \in Begun' /\ slices'[i].b < From(i)'
      BY <1>2, <1>4, <1>5, <1>11, <2>2
    <2>3. \/ Len(out) = 0
          \/ EndsSlice(out[Len(out)])'
          \/ \E i \in Begun' : pc[i] \in Copying /\ slices'[i].b < From(i)'
      BY <1>1, <1>15, <2>2 DEF ReduceInv, LastOK
    <2> QED
      BY <1>1, <2>1, <2>3 DEF LastOK
  <1>17. TogetherOK'
    BY <1>1, <1>15 DEF ReduceInv, TogetherOK
  <1> QED
    BY <1>8, <1>9, <1>10, <1>13, <1>14, <1>16, <1>17 DEF ReduceInv

LEMMA ReduceCallerStep ==
    ASSUME ReduceInv, Reduce!StartThread \/ Reduce!StartRest \/ Reduce!Join
    PROVE  ReduceInv'
  <1>1. /\ ReduceTypes /\ Len(slices) \in Nat /\ numThreads \in Nat \ {0} /\ cur \in Nat
        /\ size \in Nat /\ cur <= size /\ joined \in Nat /\ Begun \subseteq Nat
    BY ReduceNats DEF ReduceInv, ReduceTypes
  <1>2. CASE Reduce!StartThread
    <2> DEFINE w == Reduce!advanceSize
    <2>1. /\ w \in Nat \ {0} /\ cur = Len(slices) * w /\ cur # size
          /\ Len(slices) < numThreads
          /\ w = IF size \div numThreads = 0 THEN 1 ELSE size \div numThreads
      <3>1. w = IF size \div numThreads = 0 THEN 1 ELSE size \div numThreads
        BY DEF Reduce!advanceSize
      <3>2. w \in Nat \ {0}
        BY <1>1, <3>1, Advance
      <3>3. cur # size /\ Len(slices) < numThreads
        BY <1>2 DEF Reduce!StartThread
      <3>4. cur = Len(slices) * w
        BY <1>1, <3>3 DEF ReduceInv, SlicesOK
      <3> QED
        BY <3>1, <3>2, <3>3, <3>4
    <2> HIDE DEF w
    <2>2. cur + w <= size
      BY <1>1, <2>1, RoomForSlice
    <2>3. cur + w \in 0..size /\ cur < cur + w /\ Len(slices) # numThreads
      BY <1>1, <2>1, <2>2
    <2>4. Reduce!Start(cur + w)
      BY <1>2 DEF Reduce!StartThread, w
    <2> QED
      BY <1>1, <2>1, <2>3, <2>4, StartOK DEF w
  <1>3. CASE Reduce!StartRest
    <2>1. size \in 0..size /\ cur < size /\ Len(slices) = numThreads
      BY <1>1, <1>3 DEF Reduce!StartRest
    <2> QED
      BY <1>1, <1>3, <2>1, StartOK DEF Reduce!StartRest
  <1>4. CASE Reduce!Join
    <2> USE DEF Reduce!input
    <2>1. /\ joined' = joined + 1 /\ joined < Len(slices) /\ pc[joined + 1] = "done"
          /\ UNCHANGED <<size, numThreads, cur, slices, pc, tmpStore, joinMutex, length, out>>
      BY <1>4 DEF Reduce!Join
    <2>2. joined' \in 0..Len(slices)
      BY <1>1, <2>1
    <2>3. \A i \in Begun : i <= joined' => pc[i] = "done"
      BY <1>1, <2>1 DEF ReduceInv, LockOK
    <2>4. Begun' = Begun /\ Elements' = Elements
      BY <2>1 DEF Begun, Elements
    <2>5. \A i \in Begun : From(i)' = From(i)
      BY <2>1 DEF From
    <2>6. ReduceTypes'
      BY <1>1, <2>1, <2>2, <2>4 DEF ReduceTypes
    <2>7. SlicesOK' /\ LockOK'
      BY <2>1, <2>3, <2>4 DEF ReduceInv, SlicesOK, LockOK, Reduce!advanceSize
    <2>8. \A i \in Begun : StoreOK(i)'
      BY <2>1, <2>5 DEF ReduceInv, StoreOK
    <2>9. OutOK' /\ TogetherOK'
      BY <2>1, <2>4, <2>5, OutSame
    <2>10. LastOK'
      BY <2>1, <2>4, <2>5 DEF ReduceInv, LastOK, EndsSlice
    <2> QED
      BY <2>4, <2>6, <2>7, <2>8, <2>9, <2>10 DEF ReduceInv
  <1> QED
    BY <1>2, <1>3, <1>4

LEMMA ReduceThreadStep ==
    ASSUME ReduceInv, NEW i \in Reduce!Threads, Reduce!Thread(i)
    PROVE  ReduceInv'
  BY MapOK, LockStepOK, CopyStepOK, WriteStepOK, UnlockStepOK DEF Reduce!Thread
-----------------------------------------------------------------------------
(***************************************************************************)
(* for_each and transform                                                  *)
(***************************************************************************)
Start(i) == i * ForEach!stepWidth
Odd == IF dist % 2 # 0 THEN 1 ELSE 0
Fill(i) == IF i + 1 = numThreads THEN Odd ELSE 0

\* A thread is in its slice, and an element has been visited by the threads
\* whose slice it is in and that have passed it.
ForEachInv ==
    /\ IsForEach
    /\ dist \in 0..MaxDist /\ numThreads \in 1..MaxForEach
    /\ started \in 0..numThreads /\ joined \in 0..started
    /\ joined > 0 => started = numThreads
    /\ at \in [ForEach!Threads -> ForEach!Positions]
    /\ last \in [ForEach!Threads -> ForEach!Positions]
    /\ visits \in [ForEach!Positions -> SUBSET ForEach!Threads]
    /\ \A i \in ForEach!Threads :
          i < started => /\ last[i] = Start(i + 1) + Fill(i)
                         /\ Start(i) <= at[i] /\ at[i] <= last[i]
    /\ \A i \in ForEach!Threads : i < joined => at[i] = last[i]
    /\ \A m \in ForEach!Positions : \A i \in ForEach!Threads :
          i \in visits[m] <=> i < started /\ Start(i) <= m /\ m < at[i]

LEMMA Halves ==
    ASSUME NEW a \in Nat
    PROVE  /\ a % 2 \in {0, 1} /\ a \div 2 \in Nat /\ a \div 2 <= a
           /\ a = 2 * (a \div 2) + (a % 2)
           /\ a \div 2 = 0 <=> a <= 1
  OBVIOUS

\* The slices: one after the other, and together within Positions.
LEMMA Steps ==
    ASSUME IsForEach, dist \in 0..MaxDist, numThreads \in 1..MaxForEach
    PROVE  /\ dist \in Nat /\ numThreads \in Nat \ {0}
           /\ ForEach!stepWidth \in Nat /\ Odd \in {0, 1}
           /\ \A i \in Nat : /\ Start(i) \in Nat
                             /\ Start(i + 1) = Start(i) + ForEach!stepWidth
                             /\ Fill(i) \in {0, 1}
           /\ \A i, j \in Nat : i <= j => Start(i) <= Start(j)
           /\ Start(numThreads) + 1 \in ForEach!Positions
           /\ Start(0) = 0
  <1> DEFINE w == ForEach!stepWidth
  <1>1. dist \in Nat /\ numThreads \in Nat \ {0} /\ MaxForEach \in Nat
    OBVIOUS
  <1>2. w \in Nat /\ w <= dist
    <2>1. dist \div numThreads \in Nat /\ dist \div numThreads <= dist
      <3>1. /\ dist \div numThreads \in Nat /\ dist % numThreads \in 0..(numThreads - 1)
            /\ dist = numThreads * (dist \div numThreads) + (dist % numThreads)
        BY <1>1, Division
      <3>2. 1 * (dist \div numThreads) <= numThreads * (dist \div numThreads)
        BY <1>1, <3>1, Scale
      <3> QED
        BY <1>1, <3>1, <3>2
    <2> QED
      BY <1>1, <2>1, Halves DEF ForEach!stepWidth
  <1>3. Odd \in {0, 1} /\ \A i \in Nat : Fill(i) \in {0, 1}
    BY DEF Odd, Fill
  <1> HIDE DEF w
  <1>4. ASSUME NEW i \in Nat
        PROVE  i * w \in Nat /\ (i + 1) * w = i * w + w
    BY <1>2, Scale, NextMultiple
  <1>5. ASSUME NEW i \in Nat, NEW j \in Nat, i <= j PROVE i * w <= j * w
    BY <1>2, <1>5, Scale
  <1>6. numThreads * w + 1 \in ForEach!Positions
    <2>1. /\ numThreads * w <= MaxForEach * w /\ numThreads * w \in Nat
          /\ MaxForEach * w \in Nat
      BY <1>1, <1>2, Scale
    <2>2. w * MaxForEach <= MaxDist * MaxForEach /\ MaxDist * MaxForEach \in Nat
      BY <1>1, <1>2, Scale
    <2>3. w * MaxForEach = MaxForEach * w
      BY <1>1, <1>2
    <2> QED
      BY <2>1, <2>2, <2>3 DEF ForEach!Positions
  <1>7. 0 * w = 0
    BY <1>2
  <1> QED
    BY <1>1, <1>2, <1>3, <1>4, <1>5, <1>6, <1>7 DEF Start, w

LEMMA ForEachNats ==
    ASSUME ForEachInv
    PROVE  /\ started \in Nat /\ joined \in Nat /\ ForEach!Threads \subseteq Nat
           /\ ForEach!Positions \subseteq Nat
           /\ \A i \in ForEach!Threads : at[i] \in Nat /\ last[i] \in Nat
  BY DEF ForEachInv, ForEach!Threads, ForEach!Positions

LEMMA ForEachInvInit == ForEach!Init => ForEachInv
  <1> SUFFICES ASSUME ForEach!Init PROVE ForEachInv
    OBVIOUS
  <1>1. 0 \in ForEach!Positions /\ ForEach!Threads \subseteq Nat
    BY DEF ForEach!Positions, ForEach!Threads
  <1>2. \A m \in ForEach!Positions : visits[m] = {}
    BY DEF ForEach!Init
  <1> QED
    BY <1>1, <1>2 DEF ForEach!Init, ForEachInv, IsForEach

LEMMA ForEachCallerStep ==
    ASSUME ForEachInv, ForEach!StartThread \/ ForEach!Join
    PROVE  ForEachInv'
  <1>1. /\ dist \in Nat /\ numThreads \in Nat \ {0} /\ started \in Nat /\ joined \in Nat
        /\ ForEach!Threads \subseteq Nat /\ ForEach!Positions \subseteq Nat
        /\ \A i \in ForEach!Threads : at[i] \in Nat /\ last[i] \in Nat
    BY ForEachNats DEF ForEachInv
  <1>2. UNCHANGED <<algo, dist, numThreads, visits>>
    BY DEF ForEach!StartThread, ForEach!Join
  <1>3. IsForEach' /\ \A i : Start(i)' = Start(i) /\ Fill(i)' = Fill(i)
    BY <1>2 DEF ForEachInv, IsForEach, Start, Fill, Odd, ForEach!stepWidth
  <1>4. CASE ForEach!Join
    <2>1. /\ joined' = joined + 1 /\ joined' \in 0..started /\ at[joined] = last[joined]
          /\ started = numThreads /\ UNCHANGED <<started, at, last>>
      BY <1>1, <1>4 DEF ForEach!Join, ForEachInv
    <2>2. \A i \in ForEach!Threads : i < joined' => at[i] = last[i]
      BY <1>1, <2>1 DEF ForEachInv
    <2> QED
      BY <1>2, <1>3, <2>1, <2>2 DEF ForEachInv
  <1>5. CASE ForEach!StartThread
    <2>1. /\ started < numThreads /\ started' = started + 1 /\ UNCHANGED joined
          /\ at' = [at EXCEPT ![started] = Start(started)]
          /\ last' = [last EXCEPT ![started] = Start(started + 1) + Fill(started)]
      BY <1>5 DEF ForEach!StartThread, Start, Fill, Odd, ForEach!fillUp
    <2>2. started \in ForEach!Threads /\ started' \in 0..numThreads /\ joined = 0
      BY <1>1, <2>1 DEF ForEachInv, ForEach!Threads
    <2>3. /\ Start(started) \in Nat /\ Start(started) <= Start(started + 1)
          /\ Start(started + 1) <= Start(numThreads) /\ Fill(started) \in {0, 1}
          /\ Start(started + 1) \in Nat /\ Start(numThreads) \in Nat
          /\ Start(numThreads) + 1 \in ForEach!Positions
      <3>1. started + 1 \in Nat /\ started <= started + 1 /\ started + 1 <= numThreads
        BY <1>1, <2>1
      <3> QED
        BY <1>1, <3>1, Steps DEF ForEachInv
    <2>4. /\ Start(started) \in ForEach!Positions
          /\ Start(started + 1) + Fill(started) \in ForEach!Positions
      BY <2>3 DEF ForEach!Positions
    <2>5. /\ at' \in [ForEach!Threads -> ForEach!Positions]
          /\ last' \in [ForEach!Threads -> ForEach!Positions]
          /\ at'[started] = Start(started)
          /\ last'[started] = Start(started + 1) + Fill(started)
          /\ \A i \in ForEach!Threads \ {started} : at'[i] = at[i] /\ last'[i] = last[i]
      BY <2>1, <2>2, <2>4 DEF ForEachInv
    <2>6. ASSUME NEW i \in ForEach!Threads, i < started'
          PROVE  /\ last'[i] = Start(i + 1) + Fill(i)
                 /\ Start(i) <= at'[i] /\ at'[i] <= last'[i]
      <3>1. CASE i = started
        BY <2>3, <2>5, <3>1
      <3>2. CASE i # started
        <4>1. i < started
          BY <1>1, <2>1, <2>6, <3>2
        <4> QED
          BY <2>5, <3>2, <4>1 DEF ForEachInv
      <3> QED
        BY <3>1, <3>2
    <2>7. ASSUME NEW m \in ForEach!Positions, NEW i \in ForEach!Threads
          PROVE  i \in visits[m] <=> i < started' /\ Start(i) <= m /\ m < at'[i]
      <3>1. i \in visits[m] <=> i < started /\ Start(i) <= m /\ m < at[i]
        BY DEF ForEachInv
      <3>2. CASE i = started
        <4>1. m \in Nat /\ ~(Start(i) <= m /\ m < at'[i])
          BY <1>1, <2>3, <2>5, <3>2
        <4>2. ~(i < started)
          BY <1>1, <3>2
        <4> QED
          BY <3>1, <4>1, <4>2
      <3>3. CASE i # started
        <4>1. i < started' <=> i < started
          BY <1>1, <2>1, <3>3
        <4> QED
          BY <2>5, <3>1, <3>3, <4>1
      <3> QED
        BY <3>2, <3>3
    <2>8. joined' \in 0..started' /\ ~(joined' > 0)
      BY <1>1, <2>1, <2>2
    <2>9. \A i \in ForEach!Threads : ~(i < joined')
      BY <1>1, <2>1, <2>2
    <2> QED
      BY <1>2, <1>3, <2>2, <2>5, <2>6, <2>7, <2>8, <2>9 DEF ForEachInv
  <1> QED
    BY <1>4, <1>5

LEMMA ForEachThreadStep ==
    ASSUME ForEachInv, NEW i \in ForEach!Threads, ForEach!Visit(i)
    PROVE  ForEachInv'
  <1>1. /\ started \in Nat /\ joined \in Nat
        /\ ForEach!Threads \subseteq Nat /\ ForEach!Positions \subseteq Nat
        /\ \A j \in ForEach!Threads : at[j] \in Nat /\ last[j] \in Nat
    BY ForEachNats DEF ForEachInv
  <1>2. /\ i < started /\ at[i] # last[i]
        /\ visits' = [visits EXCEPT ![at[i]] = @ \cup {i}]
        /\ at' = [at EXCEPT ![i] = @ + 1]
        /\ UNCHANGED <<algo, dist, numThreads, started, joined, last>>
    BY DEF ForEach!Visit
  <1>3. IsForEach' /\ \A j : Start(j)' = Start(j) /\ Fill(j)' = Fill(j)
    BY <1>2 DEF ForEachInv, IsForEach, Start, Fill, Odd, ForEach!stepWidth
  <1>4. at[i] < last[i] /\ last[i] \in ForEach!Positions /\ at[i] \in ForEach!Positions
    <2>1. at[i] <= last[i]
      BY <1>2 DEF ForEachInv
    <2> QED
      BY <1>1, <1>2, <2>1 DEF ForEachInv
  <1>5. at[i] + 1 \in ForEach!Positions
    BY <1>1, <1>4 DEF ForEach!Positions
  <1>6. /\ at' \in [ForEach!Threads -> ForEach!Positions] /\ at'[i] = at[i] + 1
        /\ \A j \in ForEach!Threads \ {i} : at'[j] = at[j]
        /\ visits' \in [ForEach!Positions -> SUBSET ForEach!Threads]
        /\ visits'[at[i]] = visits[at[i]] \cup {i}
        /\ \A m \in ForEach!Positions \ {at[i]} : visits'[m] = visits[m]
    BY <1>2, <1>4, <1>5 DEF ForEachInv
  <1>7. ASSUME NEW j \in ForEach!Threads, j < started
        PROVE  Start(j) <= at'[j] /\ at'[j] <= last[j]
    <2>1. Start(j) <= at[j] /\ at[j] <= last[j] /\ Start(j) \in Nat
      BY <1>1, <1>7, Steps DEF ForEachInv
    <2> QED
      BY <1>1, <1>4, <1>6, <2>1
  <1>8. i >= joined
    BY <1>1, <1>2 DEF ForEachInv
  <1>9. \A j \in ForEach!Threads : j < joined => at'[j] = last[j]
    BY <1>1, <1>6, <1>8 DEF ForEachInv
  <1>10. ASSUME NEW m \in ForEach!Positions, NEW j \in ForEach!Threads
         PROVE  j \in visits'[m] <=> j < started /\ Start(j) <= m /\ m < at'[j]
    <2>1. j \in visits[m] <=> j < started /\ Start(j) <= m /\ m < at[j]
      BY DEF ForEachInv
    <2>2. CASE j # i
      BY <1>6, <2>1, <2>2
    <2>3. CASE j = i /\ m = at[i]
      <3>1. Start(i) <= at[i] /\ at[i] < at[i] + 1
        BY <1>1, <1>2 DEF ForEachInv
      <3> QED
        BY <1>2, <1>6, <2>3, <3>1
    <2>4. CASE j = i /\ m # at[i]
      <3>1. m < at[i] <=> m < at[i] + 1
        BY <1>1, <2>4
      <3> QED
        BY <1>6, <2>1, <2>4, <3>1
    <2> QED
      BY <2>2, <2>3, <2>4
  <1> QED
    BY <1>2, <1>3, <1>6, <1>7, <1>9, <1>10 DEF ForEachInv

LEMMA ForEachInvIsType == ForEachInv => ForEach!TypeOK
  <1> SUFFICES ASSUME ForEachInv PROVE ForEach!TypeOK
    OBVIOUS
  <1>1. joined \in 0..numThreads
    BY ForEachNats DEF ForEachInv
  <1> QED
    BY <1>1 DEF ForEachInv, IsForEach, ForEach!TypeOK

\* The slices of two threads have no element in common.
LEMMA NotShared == ForEachInv => ForEach!NoSharedElement
  <1> SUFFICES ASSUME ForEachInv, NEW m \in ForEach!Positions
               PROVE  ForEach!Cardinality(visits[m]) <= 1
    BY DEF ForEach!NoSharedElement
  <1>7. \A S : ForEach!Cardinality(S) = Cardinality(S)
    BY DEF ForEach!Cardinality, Cardinality
  <1>1. /\ numThreads \in Nat /\ started \in Nat /\ started <= numThreads
        /\ ForEach!Threads \subseteq Nat /\ m \in Nat
        /\ \A i \in ForEach!Threads : at[i] \in Nat /\ last[i] \in Nat
    BY ForEachNats DEF ForEachInv
  <1>2. ASSUME NEW i \in visits[m], NEW j \in visits[m], i < j PROVE FALSE
    <2>1. /\ i \in ForEach!Threads /\ j \in ForEach!Threads
          /\ i < started /\ m < at[i] /\ at[i] <= last[i]
          /\ j < started /\ Start(j) <= m /\ last[i] = Start(i + 1) + Fill(i)
      BY DEF ForEachInv
    <2>2. i \in Nat /\ j \in Nat /\ i + 1 <= j /\ i + 1 # numThreads
      BY <1>1, <1>2, <2>1
    <2>3. Fill(i) = 0
      BY <2>2 DEF Fill
    <2>4. Start(i + 1) <= Start(j) /\ Start(i + 1) \in Nat /\ Start(j) \in Nat
      BY <2>2, Steps DEF ForEachInv
    <2> QED
      BY <1>1, <2>1, <2>3, <2>4
  <1>3. \A i, j \in visits[m] : i = j
    <2>1. \A i \in visits[m] : i \in Nat
      BY <1>1 DEF ForEachInv
    <2>2. \A i, j \in Nat : i = j \/ i < j \/ j < i
      OBVIOUS
    <2> QED
      BY <1>2, <2>1, <2>2
  <1>4. CASE visits[m] = {}
    <2>1. Cardinality({}) = 0
      BY FS_EmptySet
    <2> QED
      BY <1>4, <1>7, <2>1
  <1>5. CASE visits[m] # {}
    <2>1. PICK i \in visits[m] : TRUE
      BY <1>5
    <2>2. visits[m] = {i}
      BY <1>3, <2>1
    <2>3. Cardinality({i}) = 1
      BY FS_Singleton
    <2> QED
      BY <1>7, <2>2, <2>3
  <1> QED
    BY <1>4, <1>5

\* When all threads are joined they have visited exactly what lies before the
\* end of the last slice.
LEMMA VisitedAtReturn ==
    ASSUME ForEachInv, ForEach!Returned
    PROVE  ForEach!Visited = 0..(Start(numThreads) + Odd - 1)
  <1> DEFINE w == ForEach!stepWidth
             n == numThreads
  <1>1. /\ n \in Nat \ {0} /\ ForEach!Threads \subseteq Nat
        /\ ForEach!Positions \subseteq Nat /\ w \in Nat /\ Odd \in {0, 1}
        /\ Start(n) \in Nat
    BY ForEachNats, Steps DEF ForEachInv
  <1>2. started = n /\ joined = n
    BY <1>1, ForEachNats DEF ForEachInv, ForEach!Returned
  <1>3. ASSUME NEW i \in Nat, i < n
        PROVE  /\ i \in ForEach!Threads /\ at[i] = Start(i + 1) + Fill(i)
               /\ Start(i) \in Nat /\ Start(i + 1) \in Nat /\ Start(i + 1) = Start(i) + w
               /\ Fill(i) \in {0, 1} /\ Start(i + 1) <= Start(n)
    <2>1. i \in ForEach!Threads
      BY <1>1, <1>3 DEF ForEachInv, ForEach!Threads
    <2>2. i + 1 \in Nat /\ i + 1 <= n
      BY <1>1, <1>3
    <2>3. /\ Start(i) \in Nat /\ Start(i + 1) \in Nat /\ Start(i + 1) = Start(i) + w
          /\ Fill(i) \in {0, 1} /\ Start(i + 1) <= Start(n)
      BY <1>1, <2>2, Steps DEF ForEachInv
    <2>4. at[i] = last[i] /\ last[i] = Start(i + 1) + Fill(i)
      BY <1>2, <1>3, <2>1 DEF ForEachInv
    <2> QED
      BY <2>1, <2>3, <2>4
  <1> HIDE DEF w
  <1>4. ASSUME NEW m \in ForEach!Visited PROVE m \in 0..(Start(n) + Odd - 1)
    <2>1. PICK i \in visits[m] : m \in ForEach!Positions
      BY <1>4 DEF ForEach!Visited
    <2>2. i \in ForEach!Threads /\ i < n /\ m < at[i] /\ m \in Nat /\ i \in Nat
      BY <1>1, <1>2, <2>1 DEF ForEachInv
    <2>3. /\ at[i] = Start(i + 1) + Fill(i) /\ Start(i + 1) \in Nat
          /\ Fill(i) \in {0, 1} /\ Start(i + 1) <= Start(n)
      BY <1>3, <2>2
    <2>4. CASE i + 1 = n
      BY <1>1, <2>2, <2>3, <2>4 DEF Fill
    <2>5. CASE i + 1 # n
      <3>1. Fill(i) = 0
        BY <2>5 DEF Fill
      <3> QED
        BY <1>1, <2>2, <2>3, <3>1
    <2> QED
      BY <2>4, <2>5
  <1>5. ASSUME NEW m \in 0..(Start(n) + Odd - 1) PROVE m \in ForEach!Visited
    <2>1. m \in Nat /\ m < Start(n) + Odd
      BY <1>1, <1>5
    <2>2. m \in ForEach!Positions
      <3>1. Start(n) + 1 \in ForEach!Positions
        BY Steps DEF ForEachInv
      <3> QED
        BY <1>1, <2>1, <3>1 DEF ForEach!Positions
    <2>3. \E i \in Nat : i < n /\ Start(i) <= m /\ m < Start(i + 1) + Fill(i)
      <3>1. CASE m < Start(n)
        <4>1. w # 0
          BY <1>1, <2>1, <3>1 DEF Start, w
        <4> DEFINE i == m \div w
        <4>2. i \in Nat /\ m % w \in 0..(w - 1) /\ m = w * i + (m % w)
          BY <1>1, <2>1, <4>1, Division
        <4> HIDE DEF i
        <4>3. w * i = i * w /\ (i + 1) * w = i * w + w /\ i * w \in Nat
          BY <1>1, <4>2, NextMultiple, Scale
        <4>4. i * w <= m /\ m < (i + 1) * w
          BY <1>1, <2>1, <4>2, <4>3
        <4>5. i < n
          <5>1. ASSUME n <= i PROVE FALSE
            <6>1. n * w <= i * w
              BY <1>1, <4>2, <5>1, Scale
            <6> QED
              BY <1>1, <2>1, <3>1, <4>3, <4>4, <6>1 DEF Start, w
          <5> QED
            BY <1>1, <4>2, <5>1
        <4>6. Start(i) <= m /\ m < Start(i + 1)
          BY <4>4 DEF Start, w
        <4> QED
          BY <1>3, <2>1, <4>2, <4>5, <4>6
      <3>2. CASE ~(m < Start(n))
        <4>1. m = Start(n) /\ Odd = 1
          BY <1>1, <2>1, <3>2
        <4>2. n - 1 \in Nat /\ n - 1 < n /\ (n - 1) + 1 = n
          BY <1>1
        <4>3. Fill(n - 1) = 1
          BY <4>1, <4>2 DEF Fill
        <4>4. Start(n - 1) <= Start(n)
          BY <1>1, <4>2, Steps DEF ForEachInv
        <4> QED
          BY <1>1, <4>1, <4>2, <4>3, <4>4
      <3> QED
        BY <3>1, <3>2
    <2>4. PICK i \in Nat : i < n /\ Start(i) <= m /\ m < Start(i + 1) + Fill(i)
      BY <2>3
    <2>5. i \in visits[m]
      BY <1>2, <1>3, <2>2, <2>4 DEF ForEachInv
    <2> QED
      BY <2>2, <2>5 DEF ForEach!Visited
  <1> QED
    BY <1>4, <1>5

\* The end of the last slice is the end of the range exactly when the threads
\* share it evenly.
LEMMA EndIsEnd ==
    ASSUME ForEachInv
    PROVE  Start(numThreads) + Odd = dist <=> ForEach!Even
  <1> DEFINE n == numThreads
  <1>1. n \in Nat \ {0} /\ dist \in Nat
    BY DEF ForEachInv
  <1>2. Odd = dist % 2 /\ dist % 2 \in {0, 1}
    BY <1>1, Halves DEF Odd
  <1>3. CASE algo = "for_each"
    <2>1. /\ dist \div n \in Nat /\ dist % n \in Nat
          /\ dist = n * (dist \div n) + (dist % n)
      BY <1>1, Division
    <2>2. Start(n) = n * (dist \div n)
      BY <1>3 DEF Start, ForEach!stepWidth
    <2>3. ForEach!Even <=> dist % n = dist % 2
      BY <1>3 DEF ForEach!Even
    <2>4. n * (dist \div n) \in Nat
      BY <1>1, <2>1, Scale
    <2> QED
      BY <1>1, <1>2, <2>1, <2>2, <2>3, <2>4
  <1>4. CASE algo = "transform"
    <2> DEFINE h == dist \div 2
    <2>1. /\ h \in Nat /\ dist = 2 * h + (dist % 2)
          /\ h = 0 <=> dist <= 1
      BY <1>1, Halves
    <2>2. Start(n) = n * h
      BY <1>4 DEF Start, ForEach!stepWidth
    <2>3. ForEach!Even <=> n = 2 \/ dist <= 1
      BY <1>4 DEF ForEach!Even
    <2> HIDE DEF h
    <2>4. n * h = 2 * h <=> n = 2 \/ h = 0
      <3>1. CASE n <= 2
        <4>1. n = 1 \/ n = 2
          BY <1>1, <3>1
        <4> QED
          BY <2>1, <4>1
      <3>2. CASE ~(n <= 2)
        <4>1. 3 * h <= n * h /\ n * h \in Nat
          BY <1>1, <2>1, <3>2, Scale
        <4>2. h = 0 => n * h = 0
          BY <1>1
        <4> QED
          BY <1>1, <2>1, <3>2, <4>1, <4>2
      <3> QED
        BY <3>1, <3>2
    <2>5. n * h \in Nat
      BY <1>1, <2>1, Scale
    <2> QED
      BY <1>1, <1>2, <2>1, <2>2, <2>3, <2>4, <2>5
  <1> QED
    BY <1>3, <1>4 DEF ForEachInv, IsForEach

LEMMA Covers == ForEachInv => ForEach!CoversWhenEven
  <1> SUFFICES ASSUME ForEachInv, ForEach!Returned
               PROVE  ForEach!Visited = 0..(dist - 1) <=> ForEach!Even
    BY DEF ForEach!CoversWhenEven
  <1>2. numThreads \in Nat /\ dist \in Nat /\ Odd \in {0, 1}
    BY Steps DEF ForEachInv
  <1>6. Start(numThreads) \in Nat
    BY <1>2, Steps DEF ForEachInv
  <1>1. PICK end \in Nat : end = Start(numThreads) + Odd
    BY <1>2, <1>6
  <1>5. ForEach!Visited = 0..(end - 1)
    <2>1. ForEach!Visited = 0..(Start(numThreads) + Odd - 1)
      BY VisitedAtReturn
    <2> QED
      BY <1>1, <1>2, <1>6, <2>1
  <1>3. end = dist <=> ForEach!Even
    BY <1>1, EndIsEnd
  <1>4. \A a, b \in Nat : 0..(a - 1) = 0..(b - 1) => a = b
    <2> SUFFICES ASSUME NEW a \in Nat, NEW b \in Nat, 0..(a - 1) = 0..(b - 1)
                 PROVE  a = b
      OBVIOUS
    <2>1. \A c \in Nat : c < a <=> c < b
      <3>1. \A c \in Nat : (c \in 0..(a - 1) <=> c < a) /\ (c \in 0..(b - 1) <=> c < b)
        OBVIOUS
      <3> QED
        BY <3>1
    <2> QED
      BY <2>1
  <1> QED
    BY <1>2, <1>3, <1>4, <1>5
-----------------------------------------------------------------------------
(***************************************************************************)
(* The calls together                                                      *)
(***************************************************************************)
IInv == /\ IsForEach => ForEachInv
        /\ IsFind => FindInv
        /\ IsReduce => ReduceInv

Disjoint == ~(IsForEach /\ IsFind) /\ ~(IsForEach /\ IsReduce) /\ ~(IsFind /\ IsReduce)

LEMMA AlgosDiffer == Disjoint
  BY DEF Disjoint, IsForEach, IsFind, IsReduce

LEMMA InvInit == Init => IInv
  <1> SUFFICES ASSUME Init PROVE IInv
    OBVIOUS
  <1>1. CASE ForEach!Init
    <2>1. ForEachInv /\ IsForEach
      BY <1>1, ForEachInvInit DEF ForEachInv
    <2> QED
      BY <2>1, AlgosDiffer DEF Disjoint, IInv
  <1>2. CASE IsFind /\ Find!Init
    BY <1>2, FindInvInit, AlgosDiffer DEF Disjoint, IInv
  <1>3. CASE IsReduce /\ Reduce!Init
    BY <1>3, ReduceInvInit, AlgosDiffer DEF Disjoint, IInv
  <1> QED
    BY <1>1, <1>2, <1>3 DEF Init

LEMMA ForEachStutter == ForEachInv /\ UNCHANGED vars => ForEachInv'
  <1> SUFFICES ASSUME ForEachInv, UNCHANGED vars PROVE ForEachInv'
    OBVIOUS
  <1>1. UNCHANGED <<algo, dist, numThreads, started, joined, at, last, visits>>
    BY DEF vars, visitVars
  <1>2. /\ IsForEach' = IsForEach /\ Odd' = Odd
        /\ \A i : Start(i)' = Start(i) /\ Fill(i)' = Fill(i)
    BY <1>1 DEF IsForEach, Start, Odd, Fill, ForEach!stepWidth
  <1> QED
    BY <1>1, <1>2 DEF ForEachInv

LEMMA FindStutter == FindInv /\ UNCHANGED vars => FindInv'
  <1> SUFFICES ASSUME FindInv, UNCHANGED vars PROVE FindInv'
    OBVIOUS
  <1>1. UNCHANGED <<algo, size, numThreads, started, joined, cur, pc, matches, slice, be,
                    found, die>>
    BY DEF vars, findVars
  <1>2. FindTypes' /\ Covered'
    BY <1>1 DEF FindInv, FindTypes, Covered, Find!advanceSize
  <1>3. \A i : Searching(i)' = Searching(i) /\ \A m : FirstOf(i, m)' = FirstOf(i, m)
    BY <1>1 DEF Searching, FirstOf
  <1> QED
    BY <1>1, <1>2, <1>3 DEF FindInv

LEMMA ReduceStutter == ReduceInv /\ UNCHANGED vars => ReduceInv'
  <1> SUFFICES ASSUME ReduceInv, UNCHANGED vars PROVE ReduceInv'
    OBVIOUS
  <1>1. UNCHANGED <<size, numThreads, joined, cur, pc, slices, tmpStore, joinMutex, length,
                    out>>
    BY DEF vars, reduceVars
  <1>2. /\ Begun' = Begun /\ Elements' = Elements
        /\ Reduce!advanceSize' = Reduce!advanceSize
        /\ \A i : From(i)' = From(i)
    BY <1>1 DEF Begun, Elements, Reduce!advanceSize, From
  <1>3. \A m : EndsSlice(m)' = EndsSlice(m) /\ BeginsSlice(m)' = BeginsSlice(m)
    BY <1>1, <1>2 DEF EndsSlice, BeginsSlice
  <1>4. ReduceTypes' /\ SlicesOK' /\ LockOK'
    BY <1>1, <1>2 DEF ReduceInv, ReduceTypes, SlicesOK, LockOK
  <1>5. \A i \in Begun : StoreOK(i)'
    BY <1>1, <1>2 DEF ReduceInv, StoreOK
  <1>6. OutOK' /\ LastOK' /\ TogetherOK'
    BY <1>1, <1>2, <1>3 DEF ReduceInv, OutOK, LastOK, TogetherOK
  <1> QED
    BY <1>2, <1>4, <1>5, <1>6 DEF ReduceInv

\* The algorithm is chosen once: a step is one of its own.
LEMMA InvStep == IInv /\ [Next]_vars => IInv'
  <1> SUFFICES ASSUME IInv, [Next]_vars PROVE IInv'
    OBVIOUS
  <1>1. CASE UNCHANGED vars
    <2>1. IsForEach' = IsForEach /\ IsFind' = IsFind /\ IsReduce' = IsReduce
      BY <1>1 DEF vars, IsForEach, IsFind, IsReduce
    <2> QED
      BY <1>1, <2>1, ForEachStutter, FindStutter, ReduceStutter DEF IInv
  <1>2. CASE IsForEach /\ (ForEach!StartThread \/ ForEach!Join)
    <2>1. ForEachInv' /\ IsForEach'
      BY <1>2, ForEachCallerStep DEF IInv, ForEachInv
    <2> QED
      BY <2>1 DEF IInv, IsForEach, IsFind, IsReduce
  <1>3. ASSUME NEW i \in ForEach!Threads, IsForEach, ForEach!Visit(i) PROVE IInv'
    <2>1. ForEachInv' /\ IsForEach'
      BY <1>3, ForEachThreadStep DEF IInv, ForEachInv
    <2> QED
      BY <2>1 DEF IInv, IsForEach, IsFind, IsReduce
  <1>4. CASE IsFind /\ (Find!StartThread \/ Find!Join) /\ OnlyFind
    <2>1. FindInv' /\ IsFind'
      BY <1>4, FindCallerStep DEF IInv, IsFind, OnlyFind
    <2> QED
      BY <2>1 DEF IInv, IsForEach, IsFind, IsReduce
  <1>5. ASSUME NEW i \in Find!Threads, IsFind, Find!Thread(i), OnlyFind PROVE IInv'
    <2>1. FindInv' /\ IsFind'
      BY <1>5, FindThreadStep DEF IInv, IsFind, OnlyFind
    <2> QED
      BY <2>1 DEF IInv, IsForEach, IsFind, IsReduce
  <1>6. CASE /\ IsReduce
             /\ Reduce!StartThread \/ Reduce!StartRest \/ Reduce!Join
             /\ OnlyReduce
    <2>1. ReduceInv' /\ IsReduce'
      BY <1>6, ReduceCallerStep DEF IInv, IsReduce, OnlyReduce
    <2> QED
      BY <2>1 DEF IInv, IsForEach, IsFind, IsReduce
  <1>7. ASSUME NEW i \in Reduce!Threads, IsReduce, Reduce!Thread(i), OnlyReduce PROVE IInv'
    <2>1. ReduceInv' /\ IsReduce'
      BY <1>7, ReduceThreadStep DEF IInv, IsReduce, OnlyReduce
    <2> QED
      BY <2>1 DEF IInv, IsForEach, IsFind, IsReduce
  <1> QED
    BY <1>1, <1>2, <1>3, <1>4, <1>5, <1>6, <1>7 DEF Next, Caller, Thread

LEMMA AlwaysInv == Init /\ [][Next]_vars => []IInv
  BY InvInit, InvStep, PTL

\* Thread numbers, slices and places stay in their ranges in all of them
\* (parallelalgo.hpp 18-213).
THEOREM TypeCorrect == Spec => []TypeOK
  <1>1. IInv => TypeOK
    BY ForEachInvIsType, FindInvIsType, ReduceInvIsType DEF IInv, TypeOK
  <1> QED
    BY <1>1, AlwaysInv, PTL DEF Spec

\* for_each and transform give no element to two threads; they visit exactly
\* the range if, and only if, the threads share it evenly up to the odd
\* element, for ranges of any length (parallelalgo.hpp 23-32, 55-67).
THEOREM EachOnce == Spec => []EachElementOnce
  <1>1. IInv => EachElementOnce
    BY NotShared, Covers DEF IInv, EachElementOnce
  <1> QED
    BY <1>1, AlwaysInv, PTL DEF Spec

\* When find_if returns and there was a match before the last elements there
\* is a result, the first match of its slice, although found is written
\* without a lock (parallelalgo.hpp 185-196).
THEOREM HitReported == Spec => []HitIsReported
  <1>1. IInv => HitIsReported
    BY FindInvIsRight DEF IInv, HitIsReported
  <1> QED
    BY <1>1, AlwaysInv, PTL DEF Spec

\* mapReduce's output holds every result once, those of a slice together:
\* the mutex is all that the copies need (parallelalgo.hpp 113-157).
THEOREM ResultsTogether == Spec => []SlicesTogether
  <1>1. IInv => SlicesTogether
    BY ReduceInvIsRight DEF IInv, SlicesTogether
  <1> QED
    BY <1>1, AlwaysInv, PTL DEF Spec
=============================================================================
