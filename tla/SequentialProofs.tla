--------------------------- MODULE SequentialProofs ---------------------------
(***************************************************************************)
(* What is proved of the LRU cache, the allocators, the bit containers,    *)
(* the SQLite binding and Combinations, and the lemmas on numbers and      *)
(* sequences that these proofs and those of ContainerProofs rest on.       *)
(***************************************************************************)
EXTENDS MCSequential, Integers, FiniteSetTheorems, SequenceTheorems,
        WellFoundedInduction, TLAPS
-----------------------------------------------------------------------------
(***************************************************************************)
(* Numbers and sequences                                                   *)
(***************************************************************************)
\* Every set of natural numbers has a least one: the induction used below.
LEMMA Least ==
    ASSUME NEW T \in SUBSET Nat, T # {}
    PROVE  \E n \in T : \A m \in T : n <= m
  <1>1. PICK n \in T : \A m \in T : ~(<<m, n>> \in OpToRel(<, Nat))
    BY WFMin, NatLessThanWellFounded
  <1>2. \A m \in T : ~(m < n)
    BY <1>1 DEF OpToRel
  <1> QED
    BY <1>2

\* Nor is a largest one missing when there is a bound.
LEMMA Greatest ==
    ASSUME NEW n \in Nat, NEW T \in SUBSET (0 .. n), T # {}
    PROVE  \E m \in T : \A k \in T : m >= k
  <1> DEFINE C == {c \in Nat : n - c \in T}
  <1>1. C \in SUBSET Nat /\ C # {}
    <2>1. PICK k \in T : TRUE
      OBVIOUS
    <2>2. n - k \in Nat /\ n - (n - k) = k
      OBVIOUS
    <2> QED
      BY <2>2
  <1>2. PICK c \in C : \A d \in C : c <= d
    BY <1>1, Least
  <1>3. \A k \in T : n - c >= k
    <2> SUFFICES ASSUME NEW k \in T PROVE n - c >= k
      OBVIOUS
    <2>1. n - k \in C
      <3>1. n - k \in Nat /\ n - (n - k) = k
        OBVIOUS
      <3> QED
        BY <3>1
    <2>2. c <= n - k
      BY <1>2, <2>1
    <2> QED
      BY <2>2
  <1>4. n - c \in T
    OBVIOUS
  <1> QED
    BY <1>3, <1>4

\* A sequence without its i-th element.
Drop(s, i) == SubSeq(s, 1, i - 1) \o SubSeq(s, i + 1, Len(s))

LEMMA DropProperties ==
    ASSUME NEW S, NEW s \in Seq(S), NEW i \in DOMAIN s
    PROVE  /\ Drop(s, i) \in Seq(S)
           /\ Len(Drop(s, i)) = Len(s) - 1
           /\ DOMAIN Drop(s, i) = 1..(Len(s) - 1)
           /\ \A j \in 1..(Len(s) - 1) : Drop(s, i)[j] = IF j < i THEN s[j] ELSE s[j + 1]
  <1> DEFINE front == SubSeq(s, 1, i - 1)
             back == SubSeq(s, i + 1, Len(s))
  <1>1. i \in Int /\ 1 <= i /\ i <= Len(s) /\ Len(s) \in Nat
    OBVIOUS
  <1>2. /\ front \in Seq(S) /\ Len(front) = i - 1
        /\ \A j \in 1..(i - 1) : front[j] = s[j]
    BY <1>1
  <1>3. /\ back \in Seq(S) /\ Len(back) = Len(s) - i
        /\ \A j \in 1..(Len(s) - i) : back[j] = s[i + j]
    BY <1>1
  <1>4. Drop(s, i) = front \o back
    BY DEF Drop
  <1> HIDE DEF front, back
  <1>5. /\ front \o back \in Seq(S) /\ Len(front \o back) = Len(s) - 1
        /\ \A j \in 1..(Len(s) - 1) :
              (front \o back)[j] = IF j <= i - 1 THEN front[j] ELSE back[j - (i - 1)]
    <2>1. /\ front \o back \in Seq(S) /\ Len(front \o back) = Len(front) + Len(back)
          /\ \A j \in 1..(Len(front) + Len(back)) :
                (front \o back)[j] = IF j <= Len(front) THEN front[j] ELSE back[j - Len(front)]
      BY <1>2, <1>3, ConcatProperties
    <2>2. Len(front) + Len(back) = Len(s) - 1
      BY <1>1, <1>2, <1>3
    <2> QED
      BY <1>2, <2>1, <2>2
  <1>6. ASSUME NEW j \in 1..(Len(s) - 1)
        PROVE  (front \o back)[j] = IF j < i THEN s[j] ELSE s[j + 1]
    <2>1. (front \o back)[j] = IF j <= i - 1 THEN front[j] ELSE back[j - (i - 1)]
      BY <1>5
    <2>2. CASE j < i
      <3>1. j \in 1..(i - 1) /\ j <= i - 1
        BY <1>1, <2>2
      <3> QED
        BY <1>2, <2>1, <2>2, <3>1
    <2>3. CASE ~(j < i)
      <3>1. j - (i - 1) \in 1..(Len(s) - i) /\ ~(j <= i - 1)
        BY <1>1, <2>3
      <3>2. back[j - (i - 1)] = s[j + 1]
        BY <1>3, <3>1
      <3> QED
        BY <2>1, <2>3, <3>1, <3>2
    <2> QED
      BY <2>2, <2>3
  <1> QED
    BY <1>4, <1>5, <1>6

LEMMA FrontIsDrop ==
    ASSUME NEW S, NEW s \in Seq(S), s # <<>>
    PROVE  Len(s) \in DOMAIN s /\ SubSeq(s, 1, Len(s) - 1) = Drop(s, Len(s))
  <1>1. Len(s) \in Nat \ {0} /\ Len(s) \in DOMAIN s /\ Len(s) + 1 > Len(s)
    BY EmptySeq
  <1>2. SubSeq(s, Len(s) + 1, Len(s)) = <<>>
    BY <1>1
  <1>3. SubSeq(s, 1, Len(s) - 1) \in Seq(S)
    BY <1>1
  <1>4. SubSeq(s, 1, Len(s) - 1) \o <<>> = SubSeq(s, 1, Len(s) - 1)
    BY <1>3, ConcatEmptySeq
  <1> QED
    BY <1>1, <1>2, <1>4 DEF Drop

LEMMA ConsProperties ==
    ASSUME NEW S, NEW s \in Seq(S), NEW e \in S
    PROVE  /\ <<e>> \o s \in Seq(S)
           /\ Len(<<e>> \o s) = Len(s) + 1
           /\ DOMAIN (<<e>> \o s) = 1..(Len(s) + 1)
           /\ (<<e>> \o s)[1] = e
           /\ \A j \in 1..Len(s) : (<<e>> \o s)[j + 1] = s[j]
           /\ Drop(<<e>> \o s, 1) = s
  <1> DEFINE t == <<e>> \o s
  <1>1. <<e>> \in Seq(S) /\ Len(<<e>>) = 1 /\ <<e>>[1] = e /\ Len(s) \in Nat
    OBVIOUS
  <1>2. /\ t \in Seq(S) /\ Len(t) = Len(s) + 1
        /\ \A j \in 1..(Len(s) + 1) : t[j] = IF j <= 1 THEN <<e>>[j] ELSE s[j - 1]
    BY <1>1, ConcatProperties
  <1> HIDE DEF t
  <1>3. t[1] = e /\ \A j \in 1..Len(s) : t[j + 1] = s[j]
    BY <1>1, <1>2
  <1>4. 1 \in DOMAIN t /\ DOMAIN t = 1..(Len(s) + 1)
    BY <1>1, <1>2
  <1>5. /\ Drop(t, 1) \in Seq(S) /\ Len(Drop(t, 1)) = Len(s)
        /\ \A j \in 1..Len(s) : Drop(t, 1)[j] = t[j + 1]
    <2>1. /\ Drop(t, 1) \in Seq(S) /\ Len(Drop(t, 1)) = Len(t) - 1
          /\ \A j \in 1..(Len(t) - 1) : Drop(t, 1)[j] = IF j < 1 THEN t[j] ELSE t[j + 1]
      BY <1>2, <1>4, DropProperties
    <2>2. Len(t) - 1 = Len(s)
      BY <1>1, <1>2
    <2> QED
      BY <1>1, <2>1, <2>2
  <1>6. Drop(t, 1) = s
    BY <1>3, <1>5, SeqEqual
  <1> QED
    BY <1>2, <1>3, <1>4, <1>6 DEF t
-----------------------------------------------------------------------------
(***************************************************************************)
(* The bytes of a Cache                                                    *)
(***************************************************************************)
Total(l) == LRU!sizeOfSavedElementsInBytes(l)
Sized(l) == \A i \in DOMAIN l : l[i].size \in Nat

\* t has the sums of the sizes up to each entry.
SumsOf(t, l, n) == t = [m \in 0..n |-> IF m = 0 THEN 0 ELSE t[m - 1] + l[m].size]

LEMMA SumsExist ==
    ASSUME NEW l, NEW n \in Nat
    PROVE  \E t : SumsOf(t, l, n)
  <1> DEFINE T == {k \in Nat : ~\E t : SumsOf(t, l, k)}
  <1>1. CASE T = {}
    BY <1>1
  <1>2. CASE T # {}
    <2>1. PICK k \in T : \A m \in T : k <= m
      BY <1>2, Least
    <2>2. k # 0
      <3>1. SumsOf([m \in 0..0 |-> 0], l, 0)
        BY DEF SumsOf
      <3> QED
        BY <3>1
    <2>3. k - 1 \in Nat /\ k - 1 \notin T
      BY <2>1, <2>2
    <2>4. PICK t : SumsOf(t, l, k - 1)
      BY <2>3
    <2>5. SumsOf([m \in 0..k |-> IF m = k THEN t[k - 1] + l[k].size ELSE t[m]], l, k)
      <3> DEFINE u == [m \in 0..k |-> IF m = k THEN t[k - 1] + l[k].size ELSE t[m]]
      <3>1. \A m \in 0..(k - 1) : t[m] = IF m = 0 THEN 0 ELSE t[m - 1] + l[m].size
        BY <2>4 DEF SumsOf
      <3>2. ASSUME NEW m \in 0..k
            PROVE  u[m] = IF m = 0 THEN 0 ELSE u[m - 1] + l[m].size
        <4>1. CASE m = k
          BY <2>2, <2>3, <4>1
        <4>2. CASE m # k
          BY <2>3, <3>1, <4>2
        <4> QED
          BY <4>1, <4>2
      <3>3. u = [m \in 0..k |-> IF m = 0 THEN 0 ELSE u[m - 1] + l[m].size]
        BY <3>2
      <3> QED
        BY <3>3 DEF SumsOf
    <2> QED
      BY <2>5
  <1> QED
    BY <1>1, <1>2

LEMMA TotalDef ==
    ASSUME NEW S, NEW l \in Seq(S), Sized(l)
    PROVE  \E t : /\ t[0] = 0 /\ \A n \in 0..Len(l) : t[n] \in Nat
                  /\ \A n \in 1..Len(l) : t[n] = t[n - 1] + l[n].size
                  /\ Total(l) = t[Len(l)]
  <1> DEFINE t == CHOOSE f : SumsOf(f, l, Len(l))
  <1>1. Len(l) \in Nat /\ DOMAIN l = 1..Len(l)
    OBVIOUS
  <1>2. Total(l) = t[Len(l)]
    BY DEF Total, SumsOf, LRU!sizeOfSavedElementsInBytes
  <1>3. SumsOf(t, l, Len(l))
    BY <1>1, SumsExist
  <1> HIDE DEF t
  <1>4. \A n \in 0..Len(l) : t[n] = IF n = 0 THEN 0 ELSE t[n - 1] + l[n].size
    BY <1>3 DEF SumsOf
  <1>5. t[0] = 0 /\ \A n \in 1..Len(l) : t[n] = t[n - 1] + l[n].size
    BY <1>1, <1>4
  <1>6. \A n \in 0..Len(l) : t[n] \in Nat
    <2> DEFINE T == {n \in 0..Len(l) : t[n] \notin Nat}
    <2> SUFFICES ASSUME T # {} PROVE FALSE
      OBVIOUS
    <2>1. T \in SUBSET Nat
      BY <1>1
    <2>2. PICK n \in T : \A m \in T : n <= m
      BY <2>1, Least
    <2>3. n # 0
      BY <1>5, <2>2
    <2>4. n - 1 \in 0..Len(l) /\ n - 1 \notin T
      BY <1>1, <2>2, <2>3
    <2>5. t[n] = t[n - 1] + l[n].size /\ l[n].size \in Nat
      BY <1>1, <1>5, <2>2, <2>3 DEF Sized
    <2> QED
      BY <2>2, <2>4, <2>5
  <1> QED
    BY <1>2, <1>5, <1>6

\* The sums are the only ones.
LEMMA TotalUnique ==
    ASSUME NEW S, NEW l \in Seq(S), Sized(l), NEW u, u[0] = 0,
           \A n \in 1..Len(l) : u[n] = u[n - 1] + l[n].size
    PROVE  Total(l) = u[Len(l)]
  <1>1. Len(l) \in Nat
    OBVIOUS
  <1>2. PICK t : /\ t[0] = 0 /\ \A n \in 1..Len(l) : t[n] = t[n - 1] + l[n].size
                 /\ Total(l) = t[Len(l)]
    BY TotalDef
  <1> DEFINE T == {n \in 0..Len(l) : t[n] # u[n]}
  <1> SUFFICES ASSUME T # {} PROVE FALSE
    BY <1>1, <1>2
  <1>3. T \in SUBSET Nat
    BY <1>1
  <1>4. PICK n \in T : \A m \in T : n <= m
    BY <1>3, Least
  <1>5. n # 0
    BY <1>2, <1>4
  <1>6. n - 1 \in 0..Len(l) /\ n - 1 \notin T /\ n \in 1..Len(l)
    BY <1>1, <1>4, <1>5
  <1> QED
    BY <1>2, <1>4, <1>6

\* An entry that goes takes its size with it.
LEMMA TotalOfDrop ==
    ASSUME NEW S, NEW l \in Seq(S), Sized(l), NEW i \in DOMAIN l
    PROVE  /\ Sized(Drop(l, i)) /\ Total(Drop(l, i)) \in Nat /\ Total(l) \in Nat
           /\ Total(l) = Total(Drop(l, i)) + l[i].size
  <1> DEFINE d == Drop(l, i)
  <1>1. /\ Len(l) \in Nat \ {0} /\ DOMAIN l = 1..Len(l) /\ i \in 1..Len(l)
        /\ d \in Seq(S) /\ Len(d) = Len(l) - 1 /\ DOMAIN d = 1..(Len(l) - 1)
        /\ \A j \in 1..(Len(l) - 1) : d[j] = IF j < i THEN l[j] ELSE l[j + 1]
    BY DropProperties
  <1> HIDE DEF d
  <1>2. Sized(d)
    BY <1>1, SMTT(30) DEF Sized
  <1>3. PICK t : /\ t[0] = 0 /\ \A n \in 0..Len(l) : t[n] \in Nat
                 /\ \A n \in 1..Len(l) : t[n] = t[n - 1] + l[n].size
                 /\ Total(l) = t[Len(l)]
    BY TotalDef
  <1>4. l[i].size \in Nat
    BY DEF Sized
  <1> DEFINE u == [n \in 0..(Len(l) - 1) |-> IF n < i THEN t[n] ELSE t[n + 1] - l[i].size]
  <1>5. u[0] = 0
    BY <1>1, <1>3
  <1>6. ASSUME NEW n \in 1..Len(d) PROVE u[n] = u[n - 1] + d[n].size
    <2>1. /\ n \in 1..(Len(l) - 1) /\ n - 1 \in 0..(Len(l) - 1) /\ n \in 0..(Len(l) - 1)
          /\ n \in 1..Len(l) /\ n + 1 \in 1..Len(l) /\ (n + 1) - 1 = n
          /\ n \in 0..Len(l) /\ n - 1 \in 0..Len(l) /\ n + 1 \in 0..Len(l)
      BY <1>1
    <2>2. /\ t[n] = t[n - 1] + l[n].size /\ t[n + 1] = t[n] + l[n + 1].size
          /\ t[n] \in Nat /\ t[n - 1] \in Nat /\ t[n + 1] \in Nat
          /\ l[n].size \in Nat /\ l[n + 1].size \in Nat
      BY <1>1, <1>3, <2>1 DEF Sized
    <2>3. CASE n < i
      BY <1>1, <2>1, <2>2, <2>3
    <2>4. CASE n = i
      <3>1. u[n] = t[n + 1] - l[n].size /\ u[n - 1] = t[n - 1] /\ d[n] = l[n + 1]
        BY <1>1, <2>1, <2>4
      <3> HIDE DEF u
      <3>2. PICK b \in Nat : b = l[n].size
        BY <2>2
      <3>3. PICK c \in Nat : c = l[n + 1].size
        BY <2>2
      <3>4. PICK x \in Nat : x = t[n - 1]
        BY <2>2
      <3>5. t[n] = x + b /\ t[n + 1] = (x + b) + c
        BY <2>2, <3>2, <3>3, <3>4
      <3>6. u[n] = ((x + b) + c) - b /\ u[n - 1] = x /\ d[n].size = c
        BY <3>1, <3>2, <3>3, <3>4, <3>5
      <3> QED
        BY <3>6
    <2>5. CASE n > i
      <3>1. /\ u[n] = t[n + 1] - l[i].size /\ u[n - 1] = t[n] - l[i].size
            /\ d[n] = l[n + 1]
        BY <1>1, <2>1, <2>5
      <3> QED
        BY <1>4, <2>2, <3>1, SMTT(30)
    <2> QED
      BY <1>1, <2>1, <2>3, <2>4, <2>5
  <1>7. Total(d) = u[Len(d)]
    BY <1>1, <1>2, <1>5, <1>6, TotalUnique
  <1>8. u[Len(l) - 1] = t[Len(l)] - l[i].size
    <2>1. CASE i = Len(l)
      <3>1. t[Len(l)] = t[Len(l) - 1] + l[i].size /\ t[Len(l) - 1] \in Nat
        BY <1>1, <1>3, <2>1
      <3> QED
        BY <1>1, <1>4, <2>1, <3>1
    <2>2. CASE i # Len(l)
      BY <1>1, <2>2
    <2> QED
      BY <2>1, <2>2
  <1>9. t[Len(l)] \in Nat
    BY <1>1, <1>3
  <1>10. Total(d) \in Nat
    BY <1>1, <1>2, TotalDef
  <1> QED
    BY <1>1, <1>2, <1>3, <1>4, <1>7, <1>8, <1>9, <1>10 DEF d
-----------------------------------------------------------------------------
(***************************************************************************)
(* Cache: the list and the map                                             *)
(***************************************************************************)
ListEntries == LRU!ListEntry

\* The entries 1..n are in the list, each once, or have been saved.
Entries(l, s, n) ==
    /\ \A i, j \in DOMAIN l : l[i].id = l[j].id => i = j
    /\ \A i \in DOMAIN l : l[i].id \in 1..n
    /\ \A e \in s : e.id \in 1..n /\ \A i \in DOMAIN l : l[i].id # e.id
    /\ \A m \in 1..n : (\E i \in DOMAIN l : l[i].id = m) \/ (\E e \in s : e.id = m)

\* What is in the map leads to an entry of its key.
Keyed(l, m) == \A k \in DOMAIN m : \E i \in DOMAIN l : l[i].id = m[k] /\ l[i].key = k

\* Every entry is in the map, so no key has two.
Each(l, m) == \A i \in DOMAIN l : l[i].key \in DOMAIN m /\ m[l[i].key] = l[i].id

CacheTypes ==
    /\ list \in Seq(ListEntries)
    /\ map \in [DOMAIN map -> 1..ids] /\ DOMAIN map \subseteq CacheKeys
    /\ memInBytes \in Nat /\ ids \in 0..MaxInserts
    /\ saved \subseteq ListEntries /\ aborted \in BOOLEAN /\ reinserts \in BOOLEAN

\* A failed assertion ends the program with an entry taken out and not saved.
CacheInv ==
    /\ CacheTypes
    /\ memInBytes >= Total(list)
    /\ ~aborted => Entries(list, saved, ids) /\ Keyed(list, map)
    /\ ~reinserts => ~aborted /\ Each(list, map)

LEMMA EntriesSized ==
    ASSUME NEW l \in Seq(ListEntries)
    PROVE  Sized(l)
  <1> SUFFICES ASSUME NEW i \in DOMAIN l PROVE l[i].size \in Nat
    BY DEF Sized
  <1>1. l[i] \in ListEntries
    BY ElementOfSeq
  <1>2. l[i].size \in Sizes
    BY <1>1 DEF ListEntries, LRU!ListEntry
  <1> QED
    BY <1>2, CacheAssumption

\* Where an element of the shorter sequence was, and where another one goes.
LEMMA DropPlaces ==
    ASSUME NEW S, NEW l \in Seq(S), NEW i \in DOMAIN l
    PROVE  /\ \A j \in DOMAIN Drop(l, i) : \E a \in DOMAIN l : a # i /\ Drop(l, i)[j] = l[a]
           /\ \A a \in DOMAIN l : a # i => \E j \in DOMAIN Drop(l, i) : Drop(l, i)[j] = l[a]
           /\ \A j, k \in DOMAIN Drop(l, i) : j # k =>
                 \E a, b \in DOMAIN l : /\ a # b
                                        /\ Drop(l, i)[j] = l[a] /\ Drop(l, i)[k] = l[b]
  <1> DEFINE d == Drop(l, i)
             At(j) == IF j < i THEN j ELSE j + 1
  <1>1. /\ Len(l) \in Nat \ {0} /\ DOMAIN l = 1..Len(l) /\ i \in 1..Len(l)
        /\ DOMAIN d = 1..(Len(l) - 1)
        /\ \A j \in 1..(Len(l) - 1) : d[j] = IF j < i THEN l[j] ELSE l[j + 1]
    BY DropProperties
  <1> HIDE DEF d
  <1>2. \A j \in DOMAIN d : At(j) \in DOMAIN l /\ At(j) # i /\ d[j] = l[At(j)]
    BY <1>1
  <1>3. \A j, k \in DOMAIN d : j # k => At(j) # At(k)
    BY <1>1
  <1>4. ASSUME NEW a \in DOMAIN l, a # i PROVE \E j \in DOMAIN d : d[j] = l[a]
    <2>1. CASE a < i
      <3>1. a \in DOMAIN d /\ d[a] = l[a]
        BY <1>1, <2>1
      <3> QED
        BY <3>1
    <2>2. CASE a > i
      <3>1. a - 1 \in DOMAIN d /\ ~(a - 1 < i) /\ (a - 1) + 1 = a
        BY <1>1, <2>2
      <3> QED
        BY <1>1, <3>1
    <2> QED
      BY <1>1, <1>4, <2>1, <2>2
  <1> HIDE DEF At
  <1> QED
    BY <1>2, <1>3, <1>4 DEF d

\* An entry taken out of the list and saved.
LEMMA EntriesDrop ==
    ASSUME NEW l \in Seq(ListEntries), NEW s, NEW n, Entries(l, s, n), NEW i \in DOMAIN l
    PROVE  Entries(Drop(l, i), s \cup {l[i]}, n)
  <1> DEFINE d == Drop(l, i)
  <1>1. /\ \A j \in DOMAIN d : \E a \in DOMAIN l : a # i /\ d[j] = l[a]
        /\ \A a \in DOMAIN l : a # i => \E j \in DOMAIN d : d[j] = l[a]
        /\ \A j, k \in DOMAIN d : j # k =>
              \E a, b \in DOMAIN l : a # b /\ d[j] = l[a] /\ d[k] = l[b]
    BY DropPlaces
  <1> HIDE DEF d
  <1>2. \A j, k \in DOMAIN d : d[j].id = d[k].id => j = k
    BY <1>1 DEF Entries
  <1>3. \A j \in DOMAIN d : d[j].id \in 1..n
    BY <1>1 DEF Entries
  <1>4. \A e \in s \cup {l[i]} : e.id \in 1..n /\ \A j \in DOMAIN d : d[j].id # e.id
    BY <1>1 DEF Entries
  <1>5. \A m \in 1..n : \/ \E j \in DOMAIN d : d[j].id = m
                        \/ \E e \in s \cup {l[i]} : e.id = m
    BY <1>1, SMTT(30) DEF Entries
  <1> QED
    BY <1>2, <1>3, <1>4, <1>5 DEF Entries, d

LEMMA KeyedDrop ==
    ASSUME NEW l \in Seq(ListEntries), NEW i \in DOMAIN l,
           NEW m, Keyed(l, m)
    PROVE  Keyed(Drop(l, i), LRU!Without(m, l[i].key))
  <1> DEFINE w == LRU!Without(m, l[i].key)
  <1>1. \A k \in DOMAIN w : k \in DOMAIN m /\ k # l[i].key /\ w[k] = m[k]
    BY DEF LRU!Without
  <1>2. \A a \in DOMAIN l : a # i => \E j \in DOMAIN Drop(l, i) : Drop(l, i)[j] = l[a]
    BY DropPlaces
  <1> HIDE DEF w
  <1>3. ASSUME NEW k \in DOMAIN w
        PROVE  \E j \in DOMAIN Drop(l, i) : Drop(l, i)[j].id = w[k] /\ Drop(l, i)[j].key = k
    <2>1. PICK a \in DOMAIN l : l[a].id = m[k] /\ l[a].key = k
      BY <1>1, <1>3 DEF Keyed
    <2>2. a # i
      BY <1>1, <1>3, <2>1
    <2> QED
      BY <1>1, <1>2, <1>3, <2>1, <2>2
  <1> QED
    BY <1>3 DEF Keyed, w

LEMMA EachDrop ==
    ASSUME NEW l \in Seq(ListEntries), NEW s, NEW n, Entries(l, s, n), NEW i \in DOMAIN l,
           NEW m, Each(l, m)
    PROVE  Each(Drop(l, i), LRU!Without(m, l[i].key))
  <1> SUFFICES ASSUME NEW j \in DOMAIN Drop(l, i)
               PROVE  /\ Drop(l, i)[j].key \in DOMAIN LRU!Without(m, l[i].key)
                      /\ LRU!Without(m, l[i].key)[Drop(l, i)[j].key] = Drop(l, i)[j].id
    BY DEF Each
  <1>1. PICK a \in DOMAIN l : a # i /\ Drop(l, i)[j] = l[a]
    BY DropPlaces
  <1>2. /\ l[a].key \in DOMAIN m /\ m[l[a].key] = l[a].id
        /\ l[i].key \in DOMAIN m /\ m[l[i].key] = l[i].id
        /\ l[a].id # l[i].id
    BY <1>1 DEF Each, Entries
  <1>3. l[a].key # l[i].key
    BY <1>2
  <1> QED
    BY <1>1, <1>2, <1>3 DEF LRU!Without

\* A new entry in front.
LEMMA EntriesCons ==
    ASSUME NEW l \in Seq(ListEntries), NEW s, NEW n \in Nat, Entries(l, s, n),
           NEW e \in ListEntries, e.id = n + 1
    PROVE  Entries(<<e>> \o l, s, n + 1)
  <1> DEFINE c == <<e>> \o l
  <1>1. /\ Len(l) \in Nat /\ DOMAIN l = 1..Len(l) /\ DOMAIN c = 1..(Len(l) + 1)
        /\ c[1] = e /\ \A j \in 1..Len(l) : c[j + 1] = l[j]
    BY ConsProperties
  <1> HIDE DEF c
  <1>2. /\ 1 \in DOMAIN c
        /\ \A j \in DOMAIN l : j + 1 \in DOMAIN c
        /\ \A j \in DOMAIN c : j = 1 \/ (j - 1 \in DOMAIN l /\ c[j] = l[j - 1])
    BY <1>1
  <1>3. \A m \in 1..n : m \in 1..(n + 1) /\ m # n + 1
    OBVIOUS
  <1>4. \A m \in 1..(n + 1) : m \in 1..n \/ m = n + 1
    OBVIOUS
  <1>5. n + 1 \in 1..(n + 1)
    OBVIOUS
  <1>6. \A i, j \in DOMAIN c : c[i].id = c[j].id => i = j
    <2> SUFFICES ASSUME NEW i \in DOMAIN c, NEW j \in DOMAIN c, c[i].id = c[j].id
                 PROVE  i = j
      OBVIOUS
    <2>1. i = 1 <=> c[i].id = n + 1
      BY <1>1, <1>2, <1>3 DEF Entries
    <2>2. j = 1 <=> c[j].id = n + 1
      BY <1>1, <1>2, <1>3 DEF Entries
    <2>3. CASE i # 1 /\ j # 1
      <3>1. i - 1 \in DOMAIN l /\ j - 1 \in DOMAIN l /\ l[i - 1].id = l[j - 1].id
        BY <1>2, <2>3
      <3>2. i - 1 = j - 1
        BY <3>1 DEF Entries
      <3> QED
        BY <1>1, <3>2
    <2> QED
      BY <2>1, <2>2, <2>3
  <1>7. \A i \in DOMAIN c : c[i].id \in 1..(n + 1)
    BY <1>1, <1>2, <1>3, <1>5 DEF Entries
  <1>8. \A f \in s : f.id \in 1..(n + 1) /\ \A i \in DOMAIN c : c[i].id # f.id
    <2> SUFFICES ASSUME NEW f \in s
                 PROVE  f.id \in 1..(n + 1) /\ \A i \in DOMAIN c : c[i].id # f.id
      OBVIOUS
    <2>1. f.id \in 1..n /\ \A j \in DOMAIN l : l[j].id # f.id
      BY DEF Entries
    <2>2. f.id \in 1..(n + 1) /\ f.id # n + 1
      BY <1>3, <2>1
    <2> QED
      BY <1>1, <1>2, <2>1, <2>2
  <1>9. ASSUME NEW m \in 1..(n + 1)
        PROVE  (\E i \in DOMAIN c : c[i].id = m) \/ (\E f \in s : f.id = m)
    <2>1. CASE m = n + 1
      BY <1>1, <1>2, <2>1
    <2>2. CASE m \in 1..n
      <3>1. (\E j \in DOMAIN l : l[j].id = m) \/ (\E f \in s : f.id = m)
        BY <2>2 DEF Entries
      <3>2. \A j \in DOMAIN l : c[j + 1] = l[j]
        BY <1>1
      <3> QED
        BY <1>2, <3>1, <3>2
    <2> QED
      BY <1>4, <2>1, <2>2
  <1> QED
    BY <1>6, <1>7, <1>8, <1>9 DEF Entries, c

\* What map.insert() makes of the map.
Added(m, e) == IF e.key \in DOMAIN m THEN m
               ELSE [j \in DOMAIN m \cup {e.key} |-> IF j = e.key THEN e.id ELSE m[j]]

LEMMA KeyedCons ==
    ASSUME NEW l \in Seq(ListEntries), NEW m, Keyed(l, m), NEW e \in ListEntries
    PROVE  Keyed(<<e>> \o l, Added(m, e))
  <1> DEFINE c == <<e>> \o l
  <1>1. /\ DOMAIN l = 1..Len(l) /\ DOMAIN c = 1..(Len(l) + 1) /\ Len(l) \in Nat
        /\ c[1] = e /\ \A j \in 1..Len(l) : c[j + 1] = l[j]
    BY ConsProperties
  <1>2. 1 \in DOMAIN c /\ \A j \in DOMAIN l : j + 1 \in DOMAIN c /\ c[j + 1] = l[j]
    BY <1>1
  <1> HIDE DEF c
  <1>3. \A k \in DOMAIN m : \E i \in DOMAIN c : c[i].id = m[k] /\ c[i].key = k
    BY <1>2 DEF Keyed
  <1>4. CASE e.key \in DOMAIN m
    BY <1>3, <1>4 DEF Keyed, Added, c
  <1>5. CASE e.key \notin DOMAIN m
    <2>1. /\ DOMAIN Added(m, e) = DOMAIN m \cup {e.key}
          /\ \A k \in DOMAIN m : Added(m, e)[k] = m[k]
          /\ Added(m, e)[e.key] = e.id
      BY <1>5 DEF Added
    <2> QED
      BY <1>1, <1>2, <1>3, <2>1 DEF Keyed, c
  <1> QED
    BY <1>4, <1>5

LEMMA EachCons ==
    ASSUME NEW l \in Seq(ListEntries), NEW m, Each(l, m), NEW e \in ListEntries,
           e.key \notin DOMAIN m
    PROVE  Each(<<e>> \o l, Added(m, e))
  <1> DEFINE c == <<e>> \o l
  <1>1. /\ DOMAIN l = 1..Len(l) /\ DOMAIN c = 1..(Len(l) + 1) /\ Len(l) \in Nat
        /\ c[1] = e /\ \A j \in 1..Len(l) : c[j + 1] = l[j]
    BY ConsProperties
  <1>2. \A j \in DOMAIN c : j = 1 \/ (j - 1 \in DOMAIN l /\ c[j] = l[j - 1])
    BY <1>1
  <1>3. /\ DOMAIN Added(m, e) = DOMAIN m \cup {e.key}
        /\ \A k \in DOMAIN m : Added(m, e)[k] = m[k]
        /\ Added(m, e)[e.key] = e.id
    BY DEF Added
  <1> HIDE DEF c
  <1> QED
    BY <1>1, <1>2, <1>3 DEF Each, c

\* An entry moved to the front.
LEMMA Moved ==
    ASSUME NEW l \in Seq(ListEntries), NEW s, NEW n, Entries(l, s, n), NEW i \in DOMAIN l,
           NEW m
    PROVE  LET r == <<l[i]>> \o Drop(l, i)
           IN /\ r \in Seq(ListEntries) /\ Entries(r, s, n) /\ Total(r) = Total(l)
              /\ Keyed(l, m) => Keyed(r, m)
              /\ Each(l, m) => Each(r, m)
  <1> DEFINE d == Drop(l, i)
             r == <<l[i]>> \o d
  <1>1. /\ d \in Seq(ListEntries) /\ l[i] \in ListEntries
        /\ \A j \in DOMAIN d : \E a \in DOMAIN l : a # i /\ d[j] = l[a]
        /\ \A a \in DOMAIN l : a # i => \E j \in DOMAIN d : d[j] = l[a]
    BY DropPlaces, DropProperties
  <1>2. \A j, k \in DOMAIN d : j # k =>
              \E a, b \in DOMAIN l : a # b /\ d[j] = l[a] /\ d[k] = l[b]
    BY DropPlaces
  <1>3. Total(l) = Total(d) + l[i].size
    BY EntriesSized, TotalOfDrop
  <1> HIDE DEF d
  <1>4. /\ r \in Seq(ListEntries) /\ Len(d) \in Nat /\ DOMAIN d = 1..Len(d)
        /\ DOMAIN r = 1..(Len(d) + 1) /\ r[1] = l[i]
        /\ \A j \in 1..Len(d) : r[j + 1] = d[j]
        /\ Drop(r, 1) = d
    BY <1>1, ConsProperties
  <1> HIDE DEF r
  <1>5. /\ 1 \in DOMAIN r
        /\ \A j \in DOMAIN d : j + 1 \in DOMAIN r
        /\ \A j \in DOMAIN r : j = 1 \/ (j - 1 \in DOMAIN d /\ r[j] = d[j - 1])
    BY <1>4
  <1>6. Total(r) = Total(l)
    BY <1>3, <1>4, <1>5, EntriesSized, TotalOfDrop
  <1>7. \A a \in DOMAIN l : \E j \in DOMAIN r : r[j] = l[a]
    BY <1>1, <1>4, <1>5
  <1>8. \A j \in DOMAIN r : \E a \in DOMAIN l : r[j] = l[a]
    BY <1>1, <1>4, <1>5, SMTT(30)
  <1>9. ASSUME NEW j \in DOMAIN r, NEW k \in DOMAIN r, r[j].id = r[k].id PROVE j = k
    <2>1. \A h \in DOMAIN d : d[h].id # l[i].id
      BY <1>1 DEF Entries
    <2>2. CASE j = 1 \/ k = 1
      BY <1>4, <1>5, <1>9, <2>1, <2>2
    <2>3. CASE j # 1 /\ k # 1
      <3>1. j - 1 \in DOMAIN d /\ k - 1 \in DOMAIN d /\ d[j - 1].id = d[k - 1].id
        BY <1>5, <1>9, <2>3
      <3>2. j - 1 = k - 1
        BY <1>2, <3>1 DEF Entries
      <3> QED
        BY <1>4, <3>2
    <2> QED
      BY <2>2, <2>3
  <1>10. Entries(r, s, n)
    BY <1>7, <1>8, <1>9 DEF Entries
  <1>11. Keyed(l, m) => Keyed(r, m)
    BY <1>7 DEF Keyed
  <1>12. Each(l, m) => Each(r, m)
    BY <1>8 DEF Each
  <1> QED
    BY <1>4, <1>6, <1>10, <1>11, <1>12 DEF r, d
-----------------------------------------------------------------------------
(***************************************************************************)
(* Cache: the operations                                                   *)
(***************************************************************************)
LEMMA ListOps ==
    /\ \A s, i : LRU!RemoveAt(s, i) = Drop(s, i)
    /\ \A s : LRU!Last(s) = s[Len(s)]
    /\ \A S : \A s \in Seq(S) : s # <<>> => /\ Len(s) \in DOMAIN s
                                            /\ LRU!Front(s) = Drop(s, Len(s))
  BY FrontIsDrop DEF LRU!RemoveAt, LRU!Last, LRU!Front, Drop

LEMMA CacheInitOK == LRU!Init => CacheInv
  <1> SUFFICES ASSUME LRU!Init PROVE CacheInv
    OBVIOUS
  <1>1. /\ list = <<>> /\ Len(list) = 0 /\ DOMAIN list = {} /\ DOMAIN map = {}
        /\ ids = 0 /\ saved = {} /\ ~aborted
    BY DEF LRU!Init
  <1>2. CacheTypes
    <2>1. list \in Seq(ListEntries)
      BY <1>1
    <2>2. map \in [DOMAIN map -> 1..ids] /\ DOMAIN map \subseteq CacheKeys
      <3>1. map = [k \in {} |-> k] /\ DOMAIN map = {}
        BY <1>1 DEF LRU!Init
      <3> QED
        BY <3>1
    <2>3. memInBytes \in Nat /\ ids \in 0..MaxInserts
      BY <1>1, CacheAssumption DEF LRU!Init
    <2>4. saved \subseteq ListEntries
      BY <1>1
    <2>5. aborted \in BOOLEAN /\ reinserts \in BOOLEAN
      BY DEF LRU!Init
    <2> QED
      BY <2>1, <2>2, <2>3, <2>4, <2>5 DEF CacheTypes
  <1>3. Total(list) = 0
    <2> DEFINE u == [n \in {0} |-> 0]
    <2>1. Sized(list) /\ list \in Seq({})
      BY <1>1 DEF Sized
    <2>2. u[0] = 0 /\ \A n \in 1..Len(list) : u[n] = u[n - 1] + list[n].size
      BY <1>1
    <2> HIDE DEF u
    <2> QED
      BY <1>1, <2>1, <2>2, TotalUnique
  <1>4. Entries(list, saved, ids) /\ Keyed(list, map) /\ Each(list, map)
    BY <1>1 DEF Entries, Keyed, Each
  <1> QED
    BY <1>1, <1>2, <1>3, <1>4 DEF CacheInv, LRU!Init

\* The second half of insert(), on what the first has made of list and map.
LEMMA PushFrontOK ==
    ASSUME CacheTypes, ~aborted, ids < MaxInserts,
           NEW k \in CacheKeys, NEW bytes \in Sizes,
           NEW l \in Seq(ListEntries),
           NEW m, m \in [DOMAIN m -> 1..ids], DOMAIN m \subseteq CacheKeys,
           NEW s, s \subseteq ListEntries, saved' = s,
           Entries(l, s, ids), Keyed(l, m),
           ~reinserts => Each(l, m) /\ k \notin DOMAIN m,
           LRU!PushFront(k, bytes, l, m), UNCHANGED <<aborted, reinserts>>
    PROVE  CacheInv'
  <1> DEFINE e == [key |-> k, size |-> bytes, id |-> ids + 1]
  <1>1. ids \in Nat /\ ids + 1 \in 0..MaxInserts /\ ids + 1 \in 1..MaxInserts
    BY CacheAssumption DEF CacheTypes
  <1>2. e \in ListEntries /\ e.id = ids + 1 /\ e.key = k
    BY <1>1 DEF ListEntries, LRU!ListEntry
  <1>3. /\ list' = <<e>> \o l /\ map' = Added(m, e) /\ ids' = ids + 1
        /\ memInBytes' = Total(list')
    BY DEF LRU!PushFront, Added, Total
  <1> HIDE DEF e
  <1>4. list' \in Seq(ListEntries)
    BY <1>2, <1>3, ConsProperties
  <1>5. map' \in [DOMAIN map' -> 1..ids'] /\ DOMAIN map' \subseteq CacheKeys
    <2>1. \A n \in 1..ids : n \in 1..(ids + 1)
      BY <1>1
    <2>2. ids + 1 \in 1..(ids + 1)
      BY <1>1
    <2>3. CASE k \in DOMAIN m
      BY <1>2, <1>3, <2>1, <2>3 DEF Added
    <2>4. CASE k \notin DOMAIN m
      <3>1. map' = [j \in DOMAIN m \cup {k} |-> IF j = k THEN ids + 1 ELSE m[j]]
        BY <1>2, <1>3, <2>4 DEF Added
      <3>2. DOMAIN map' = DOMAIN m \cup {k}
        BY <3>1
      <3>3. \A j \in DOMAIN m \cup {k} : (IF j = k THEN ids + 1 ELSE m[j]) \in 1..(ids + 1)
        BY <2>1, <2>2
      <3> QED
        BY <1>3, <3>1, <3>2, <3>3
    <2> QED
      BY <2>3, <2>4
  <1>6. memInBytes' \in Nat
    <2>1. Sized(list')
      BY <1>4, EntriesSized
    <2>2. 1 \in DOMAIN list'
      BY <1>2, <1>3, ConsProperties
    <2> QED
      BY <1>3, <1>4, <2>1, <2>2, TotalOfDrop
  <1>7. CacheTypes'
    BY <1>1, <1>3, <1>4, <1>5, <1>6 DEF CacheTypes
  <1>8. Entries(list', saved', ids')
    BY <1>1, <1>2, <1>3, EntriesCons
  <1>9. Keyed(list', map')
    BY <1>2, <1>3, KeyedCons
  <1>10. ~reinserts => Each(list', map')
    BY <1>2, <1>3, EachCons
  <1>11. (Total(list))' = Total(list')
    BY DEF Total, LRU!sizeOfSavedElementsInBytes
  <1>12. /\ Entries(list, saved, ids)' = Entries(list', saved', ids')
         /\ Keyed(list, map)' = Keyed(list', map')
         /\ Each(list, map)' = Each(list', map')
    BY DEF Entries, Keyed, Each
  <1> QED
    BY <1>3, <1>6, <1>7, <1>8, <1>9, <1>10, <1>11, <1>12 DEF CacheInv

\* The last entry taken out, and with it the map's entry of its key.
LEMMA EvictedOK ==
    ASSUME CacheInv, ~aborted, list # <<>>, LRU!Last(list).key \in DOMAIN map
    PROVE  LET l == LRU!Front(list)
               m == LRU!Without(map, LRU!Last(list).key)
               s == saved \cup {LRU!Last(list)}
           IN /\ l \in Seq(ListEntries) /\ s \subseteq ListEntries
              /\ m \in [DOMAIN m -> 1..ids] /\ DOMAIN m \subseteq DOMAIN map
              /\ Entries(l, s, ids) /\ Keyed(l, m)
              /\ Total(l) \in Nat /\ Total(l) <= Total(list) /\ Total(list) \in Nat
              /\ ~reinserts => Each(l, m)
  <1> DEFINE i == Len(list)
             m == LRU!Without(map, list[i].key)
  <1>1. /\ list \in Seq(ListEntries) /\ i \in DOMAIN list
        /\ LRU!Last(list) = list[i] /\ LRU!Front(list) = Drop(list, i)
    BY ListOps DEF CacheInv, CacheTypes
  <1>2. Drop(list, i) \in Seq(ListEntries) /\ list[i] \in ListEntries
    BY <1>1, DropProperties, ElementOfSeq
  <1>3. m \in [DOMAIN m -> 1..ids] /\ DOMAIN m \subseteq DOMAIN map
    BY DEF LRU!Without, CacheInv, CacheTypes
  <1>4. Entries(Drop(list, i), saved \cup {list[i]}, ids)
    BY <1>1, EntriesDrop DEF CacheInv
  <1>5. Keyed(Drop(list, i), m)
    BY <1>1, KeyedDrop DEF CacheInv
  <1>6. ~reinserts => Each(Drop(list, i), m)
    BY <1>1, EachDrop DEF CacheInv
  <1>7. /\ Total(Drop(list, i)) \in Nat /\ Total(list) \in Nat /\ list[i].size \in Nat
        /\ Total(list) = Total(Drop(list, i)) + list[i].size
    BY <1>1, EntriesSized, TotalOfDrop DEF Sized
  <1>8. Total(Drop(list, i)) <= Total(list)
    BY <1>7
  <1> HIDE DEF i, m
  <1>9. saved \cup {list[i]} \subseteq ListEntries
    BY <1>2 DEF CacheInv, CacheTypes
  <1> QED
    BY <1>1, <1>2, <1>3, <1>4, <1>5, <1>6, <1>7, <1>8, <1>9 DEF m

LEMMA InsertFitsOK ==
    ASSUME CacheInv, ~aborted, ids < MaxInserts, UNCHANGED reinserts,
           NEW k \in CacheKeys, NEW bytes \in Sizes,
           reinserts \/ k \notin DOMAIN map, LRU!InsertFits(k, bytes)
    PROVE  CacheInv'
  <1>1. /\ CacheTypes /\ list \in Seq(ListEntries)
        /\ map \in [DOMAIN map -> 1..ids] /\ DOMAIN map \subseteq CacheKeys
        /\ saved \subseteq ListEntries
        /\ Entries(list, saved, ids) /\ Keyed(list, map)
        /\ ~reinserts => Each(list, map) /\ k \notin DOMAIN map
    BY DEF CacheInv, CacheTypes
  <1>2. LRU!PushFront(k, bytes, list, map) /\ UNCHANGED <<saved, aborted>>
    BY DEF LRU!InsertFits
  <1> QED
    BY <1>1, <1>2, PushFrontOK

LEMMA InsertEvictsOK ==
    ASSUME CacheInv, ~aborted, ids < MaxInserts, UNCHANGED reinserts,
           NEW k \in CacheKeys, NEW bytes \in Sizes,
           reinserts \/ k \notin DOMAIN map, LRU!InsertEvicts(k, bytes)
    PROVE  CacheInv'
  <1> DEFINE l == LRU!Front(list)
             m == LRU!Without(map, LRU!Last(list).key)
             s == saved \cup {LRU!Last(list)}
  <1>1. /\ list # <<>> /\ LRU!Last(list).key \in DOMAIN map
        /\ saved' = s /\ UNCHANGED aborted /\ LRU!PushFront(k, bytes, l, m)
    BY DEF LRU!InsertEvicts, LRU!Full
  <1>2. /\ l \in Seq(ListEntries) /\ s \subseteq ListEntries
        /\ m \in [DOMAIN m -> 1..ids] /\ DOMAIN m \subseteq DOMAIN map
        /\ Entries(l, s, ids) /\ Keyed(l, m)
        /\ ~reinserts => Each(l, m)
    BY <1>1, EvictedOK
  <1>3. CacheTypes /\ DOMAIN m \subseteq CacheKeys
    BY <1>2 DEF CacheInv, CacheTypes
  <1> HIDE DEF l, m, s
  <1>4. ~reinserts => Each(l, m) /\ k \notin DOMAIN m
    BY <1>2
  <1> QED
    BY <1>1, <1>2, <1>3, <1>4, PushFrontOK

\* What is in the list, the map and what has been saved, when the rest stays.
LEMMA TakenOutOK ==
    ASSUME CacheInv, ~aborted, UNCHANGED <<memInBytes, ids, aborted, reinserts>>,
           list' \in Seq(ListEntries), saved' \subseteq ListEntries,
           map' \in [DOMAIN map' -> 1..ids], DOMAIN map' \subseteq DOMAIN map,
           Entries(list', saved', ids), Keyed(list', map'),
           Total(list') <= Total(list), Total(list') \in Nat, Total(list) \in Nat,
           ~reinserts => Each(list', map')
    PROVE  CacheInv'
  <1>1. CacheTypes'
    BY DEF CacheInv, CacheTypes
  <1>2. memInBytes >= Total(list')
    BY DEF CacheInv, CacheTypes
  <1>3. (Total(list))' = Total(list')
    BY DEF Total, LRU!sizeOfSavedElementsInBytes
  <1>4. /\ Entries(list, saved, ids)' = Entries(list', saved', ids)
        /\ Keyed(list, map)' = Keyed(list', map')
        /\ Each(list, map)' = Each(list', map')
    BY DEF Entries, Keyed, Each
  <1> QED
    BY <1>1, <1>2, <1>3, <1>4 DEF CacheInv

LEMMA InsertThrowsOK ==
    ASSUME CacheInv, ~aborted, UNCHANGED reinserts, NEW bytes \in Sizes,
           LRU!InsertThrows(bytes)
    PROVE  CacheInv'
  <1> DEFINE l == LRU!Front(list)
             m == LRU!Without(map, LRU!Last(list).key)
             s == saved \cup {LRU!Last(list)}
  <1>1. /\ list # <<>> /\ LRU!Last(list).key \in DOMAIN map
        /\ list' = l /\ map' = m /\ saved' = s
        /\ UNCHANGED <<memInBytes, ids, aborted>>
    BY DEF LRU!InsertThrows, LRU!Full
  <1>2. /\ l \in Seq(ListEntries) /\ s \subseteq ListEntries
        /\ m \in [DOMAIN m -> 1..ids] /\ DOMAIN m \subseteq DOMAIN map
        /\ Entries(l, s, ids) /\ Keyed(l, m)
        /\ Total(l) \in Nat /\ Total(l) <= Total(list) /\ Total(list) \in Nat
        /\ ~reinserts => Each(l, m)
    BY <1>1, EvictedOK
  <1> HIDE DEF l, m, s
  <1> QED
    BY <1>1, <1>2, TakenOutOK

\* The assertion fails only when a key has been inserted again.
LEMMA InsertAbortsOK ==
    ASSUME CacheInv, ~aborted, UNCHANGED reinserts, NEW bytes \in Sizes,
           LRU!InsertAborts(bytes)
    PROVE  CacheInv'
  <1> DEFINE i == Len(list)
  <1>1. /\ list # <<>> /\ LRU!Last(list).key \notin DOMAIN map
        /\ list' = LRU!Front(list) /\ aborted' = TRUE
        /\ UNCHANGED <<map, memInBytes, ids, saved>>
    BY DEF LRU!InsertAborts, LRU!Full
  <1>2. /\ list \in Seq(ListEntries) /\ i \in DOMAIN list
        /\ LRU!Last(list) = list[i] /\ list' = Drop(list, i)
    BY <1>1, ListOps DEF CacheInv, CacheTypes
  <1>3. list' \in Seq(ListEntries)
    BY <1>2, DropProperties
  <1>4. /\ Total(list') \in Nat /\ Total(list) \in Nat /\ list[i].size \in Nat
        /\ Total(list) = Total(list') + list[i].size
    BY <1>2, EntriesSized, TotalOfDrop DEF Sized
  <1>5. reinserts
    BY <1>1, <1>2 DEF CacheInv, Each
  <1> HIDE DEF i
  <1>6. CacheTypes'
    BY <1>1, <1>3 DEF CacheInv, CacheTypes
  <1>7. memInBytes >= Total(list')
    BY <1>4 DEF CacheInv, CacheTypes
  <1>8. (Total(list))' = Total(list')
    BY DEF Total, LRU!sizeOfSavedElementsInBytes
  <1> QED
    BY <1>1, <1>5, <1>6, <1>7, <1>8 DEF CacheInv

\* Where the iterator of a key leads.
LEMMA PlaceOK ==
    ASSUME CacheInv, ~aborted, NEW k \in DOMAIN map
    PROVE  /\ LRU!Place(map[k]) \in DOMAIN list
           /\ list[LRU!Place(map[k])].id = map[k]
           /\ list[LRU!Place(map[k])].key = k
  <1>1. PICK i \in DOMAIN list : list[i].id = map[k] /\ list[i].key = k
    BY DEF CacheInv, Keyed
  <1>2. \A j \in DOMAIN list : list[j].id = map[k] => j = i
    BY <1>1 DEF CacheInv, Entries
  <1>3. LRU!Place(map[k]) = i
    BY <1>1, <1>2 DEF LRU!Place
  <1> QED
    BY <1>1, <1>3

LEMMA EraseOK ==
    ASSUME CacheInv, ~aborted, NEW k \in CacheKeys, LRU!Erase(k)
    PROVE  CacheInv'
  <1> DEFINE i == LRU!Place(map[k])
             m == LRU!Without(map, k)
  <1>1. /\ k \in DOMAIN map /\ saved' = saved \cup {list[i]}
        /\ list' = Drop(list, i) /\ map' = m
        /\ UNCHANGED <<memInBytes, ids, aborted, reinserts>>
    BY ListOps DEF LRU!Erase
  <1>2. i \in DOMAIN list /\ list[i].key = k /\ list \in Seq(ListEntries)
    BY <1>1, PlaceOK DEF CacheInv, CacheTypes
  <1>3. Drop(list, i) \in Seq(ListEntries) /\ list[i] \in ListEntries
    BY <1>2, DropProperties, ElementOfSeq
  <1>4. m \in [DOMAIN m -> 1..ids] /\ DOMAIN m \subseteq DOMAIN map
    BY DEF LRU!Without, CacheInv, CacheTypes
  <1>5. Entries(Drop(list, i), saved \cup {list[i]}, ids)
    BY <1>2, EntriesDrop DEF CacheInv
  <1>6. Keyed(Drop(list, i), m)
    BY <1>2, KeyedDrop DEF CacheInv
  <1>7. ~reinserts => Each(Drop(list, i), m)
    BY <1>2, EachDrop DEF CacheInv
  <1>8. /\ Total(Drop(list, i)) \in Nat /\ Total(list) \in Nat /\ list[i].size \in Nat
        /\ Total(list) = Total(Drop(list, i)) + list[i].size
    BY <1>2, EntriesSized, TotalOfDrop DEF Sized
  <1>9. Total(Drop(list, i)) <= Total(list)
    BY <1>8
  <1>10. saved \cup {list[i]} \subseteq ListEntries
    BY <1>3 DEF CacheInv, CacheTypes
  <1> HIDE DEF i, m
  <1> QED
    BY <1>1, <1>3, <1>4, <1>5, <1>6, <1>7, <1>8, <1>9, <1>10, TakenOutOK

LEMMA FindOK ==
    ASSUME CacheInv, ~aborted, NEW k \in CacheKeys, LRU!Find(k)
    PROVE  CacheInv'
  <1> DEFINE i == LRU!Place(map[k])
             r == <<list[i]>> \o Drop(list, i)
  <1>1. /\ k \in DOMAIN map /\ list' = r
        /\ UNCHANGED <<map, memInBytes, ids, saved, aborted, reinserts>>
    BY ListOps DEF LRU!Find
  <1>2. i \in DOMAIN list /\ list \in Seq(ListEntries)
    BY <1>1, PlaceOK DEF CacheInv, CacheTypes
  <1>3. /\ r \in Seq(ListEntries) /\ Entries(r, saved, ids) /\ Total(r) = Total(list)
        /\ Keyed(list, map) => Keyed(r, map)
        /\ Each(list, map) => Each(r, map)
    BY <1>2, Moved DEF CacheInv
  <1>4. Total(list) \in Nat
    BY <1>2, EntriesSized, TotalOfDrop
  <1> HIDE DEF i, r
  <1>5. /\ map \in [DOMAIN map -> 1..ids] /\ saved \subseteq ListEntries
        /\ Keyed(r, map)
        /\ ~reinserts => Each(r, map)
    BY <1>3 DEF CacheInv, CacheTypes
  <1>6. Total(r) <= Total(list) /\ Total(r) \in Nat
    BY <1>3, <1>4
  <1> QED
    BY <1>1, <1>3, <1>4, <1>5, <1>6, TakenOutOK

LEMMA CacheNextOK ==
    ASSUME CacheInv, LRU!Next
    PROVE  CacheInv'
  <1>1. ~aborted
    BY DEF LRU!Next
  <1>2. PICK k \in CacheKeys :
           LRU!Erase(k) \/ LRU!Find(k) \/ \E bytes \in Sizes : LRU!Insert(k, bytes)
    BY DEF LRU!Next
  <1>3. CASE LRU!Erase(k)
    BY <1>1, <1>3, EraseOK
  <1>4. CASE LRU!Find(k)
    BY <1>1, <1>4, FindOK
  <1>5. CASE \E bytes \in Sizes : LRU!Insert(k, bytes)
    <2>1. PICK bytes \in Sizes : LRU!Insert(k, bytes)
      BY <1>5
    <2>2. /\ ids < MaxInserts /\ UNCHANGED reinserts
          /\ reinserts \/ k \notin DOMAIN map
      BY <2>1 DEF LRU!Insert
    <2>3. CASE LRU!InsertFits(k, bytes)
      BY <1>1, <2>2, <2>3, InsertFitsOK
    <2>4. CASE LRU!InsertEvicts(k, bytes)
      BY <1>1, <2>2, <2>4, InsertEvictsOK
    <2>5. CASE LRU!InsertThrows(bytes)
      BY <1>1, <2>2, <2>5, InsertThrowsOK
    <2>6. CASE LRU!InsertAborts(bytes)
      BY <1>1, <2>2, <2>6, InsertAbortsOK
    <2> QED
      BY <2>1, <2>3, <2>4, <2>5, <2>6 DEF LRU!Insert
  <1> QED
    BY <1>2, <1>3, <1>4, <1>5

LEMMA CacheStutterOK ==
    ASSUME CacheInv, UNCHANGED cacheVars
    PROVE  CacheInv'
  <1>1. UNCHANGED <<list, map, memInBytes, ids, saved, aborted, reinserts>>
    BY DEF cacheVars
  <1>2. (Total(list))' = Total(list)
    BY <1>1 DEF Total, LRU!sizeOfSavedElementsInBytes
  <1> QED
    BY <1>1, <1>2 DEF CacheInv, CacheTypes, Entries, Keyed, Each

\* What the invariant says of the list, the map and the bytes.
LEMMA CacheInvCoherent ==
    ASSUME CacheInv
    PROVE  LRU!NoDanglingIterator /\ LRU!EveryEntryOnce /\ LRU!NeverUndercounts
  <1>1. LRU!NoDanglingIterator
    BY DEF CacheInv, Keyed, LRU!NoDanglingIterator
  <1>2. LRU!NeverUndercounts
    BY DEF CacheInv, Total, LRU!NeverUndercounts
  <1>3. ASSUME ~aborted
        PROVE  /\ {e.id : e \in LRU!Range(list) \cup saved} = 1..ids
               /\ LRU!Range(list) \cap saved = {}
               /\ LRU!Cardinality(LRU!Range(list)) = Len(list)
    <2>1. /\ list \in Seq(ListEntries) /\ Len(list) \in Nat /\ DOMAIN list = 1..Len(list)
          /\ Entries(list, saved, ids)
      BY <1>3 DEF CacheInv, CacheTypes
    <2>2. LRU!Range(list) = {list[i] : i \in DOMAIN list}
      BY DEF LRU!Range
    <2>3. {e.id : e \in LRU!Range(list) \cup saved} = 1..ids
      BY <2>1, <2>2 DEF Entries
    <2>4. LRU!Range(list) \cap saved = {}
      BY <2>1, <2>2 DEF Entries
    <2>5. Cardinality(LRU!Range(list)) = Len(list)
      <3>1. list \in Bijection(1..Len(list), LRU!Range(list))
        BY <2>1, <2>2 DEF Entries, Bijection, Injection, IsInjective, Surjection
      <3>2. IsFiniteSet(1..Len(list)) /\ Cardinality(1..Len(list)) = Len(list)
        BY <2>1, FS_Interval
      <3> QED
        BY <3>1, <3>2, FS_Bijection DEF ExistsBijection
    <2>6. LRU!Cardinality(LRU!Range(list)) = Cardinality(LRU!Range(list))
      BY DEF LRU!Cardinality, Cardinality
    <2> QED
      BY <2>3, <2>4, <2>5, <2>6
  <1> QED
    BY <1>1, <1>2, <1>3 DEF LRU!EveryEntryOnce

\* Each behaviour is of one part.
LEMMA CacheStep ==
    ASSUME SequentialNext, IsCache
    PROVE  LRU!Next /\ UNCHANGED part
  <1>1. UNCHANGED part /\ part = "Cache"
    BY DEF SequentialNext, IsCache
  <1> QED
    BY <1>1 DEF SequentialNext, ContainersNext, IsFector, IsFap, IsCache, IsCombinations,
                IsBllocator, IsBits, IsSqlite, IsClient

LEMMA CacheStarts ==
    ASSUME SequentialInit, IsCache
    PROVE  LRU!Init
  <1>1. part = "Cache"
    BY DEF IsCache
  <1> QED
    BY <1>1 DEF SequentialInit, ContainersInit, IsFector, IsFap, IsCache, IsCombinations,
                IsBllocator, IsBits, IsSqlite, IsClient

LEMMA CacheInvariant == SequentialSpec => [](IsCache => CacheInv)
  <1> DEFINE Inv == IsCache => CacheInv
  <1>1. SequentialInit => Inv
    BY CacheStarts, CacheInitOK
  <1>2. Inv /\ [SequentialNext]_sequentialVars => Inv'
    <2> SUFFICES ASSUME Inv, [SequentialNext]_sequentialVars, IsCache' PROVE CacheInv'
      BY DEF IsCache
    <2>1. UNCHANGED part /\ IsCache
      BY DEF SequentialNext, sequentialVars, IsCache
    <2>2. CASE SequentialNext
      BY <2>1, <2>2, CacheStep, CacheNextOK
    <2>3. CASE UNCHANGED sequentialVars
      BY <2>1, <2>3, CacheStutterOK DEF sequentialVars, containerVars
    <2> QED
      BY <2>2, <2>3
  <1> QED
    BY <1>1, <1>2, PTL DEF SequentialSpec

\* Whatever is inserted again and however often saving fails, no iterator in the
\* map of a Cache dangles, no entry is lost or kept twice, and the bytes are
\* never counted too low (cache.hpp 128-197).
THEOREM CacheCoherent == SequentialSpec => []CacheIsCoherent
  <1>1. (IsCache => CacheInv) => CacheIsCoherent
    BY CacheInvCoherent DEF CacheIsCoherent
  <1> QED
    BY <1>1, CacheInvariant, PTL
-----------------------------------------------------------------------------
(***************************************************************************)
(* Cache: which entry goes                                                 *)
(***************************************************************************)
LEMMA AbstractListOps ==
    /\ \A s, i : LeastRecentlyUsed!RemoveAt(s, i) = Drop(s, i)
    /\ \A s : LeastRecentlyUsed!Last(s) = LRU!Last(s)
    /\ \A s : LeastRecentlyUsed!Front(s) = LRU!Front(s)
  BY DEF LeastRecentlyUsed!RemoveAt, LeastRecentlyUsed!Last, LeastRecentlyUsed!Front,
         LRU!Last, LRU!Front, Drop

LEMMA PlainStep ==
    ASSUME CacheInv, Plain, LRU!Next, UNCHANGED part
    PROVE  LeastRecentlyUsed!Next
  <1>1. /\ ~aborted /\ ~reinserts /\ UNCHANGED reinserts /\ Plain' /\ Each(list, map)
    BY DEF LRU!Next, LRU!Erase, LRU!Find, LRU!Insert, Plain, IsCache, CacheInv
  <1>2. PICK k \in CacheKeys :
           LRU!Erase(k) \/ LRU!Find(k) \/ \E bytes \in Sizes : LRU!Insert(k, bytes)
    BY DEF LRU!Next
  <1>3. ASSUME NEW j, j \notin DOMAIN map PROVE ~LeastRecentlyUsed!Cached(j)
    BY <1>1, <1>3 DEF LeastRecentlyUsed!Cached, Each
  <1>4. CASE LRU!Erase(k)
    <2> DEFINE i == LRU!Place(map[k])
    <2>1. i \in DOMAIN list
      BY <1>1, <1>4, PlaceOK DEF LRU!Erase
    <2>2. list' = Drop(list, i) /\ saved' = saved \cup {list[i]}
      BY <1>4, ListOps DEF LRU!Erase
    <2> HIDE DEF i
    <2>3. LeastRecentlyUsed!Erase(i)
      BY <1>1, <2>2, AbstractListOps DEF LeastRecentlyUsed!Erase
    <2> QED
      BY <1>1, <2>1, <2>3 DEF LeastRecentlyUsed!Next
  <1>5. CASE LRU!Find(k)
    <2> DEFINE i == LRU!Place(map[k])
    <2>1. i \in DOMAIN list
      BY <1>1, <1>5, PlaceOK DEF LRU!Find
    <2>2. list' = <<list[i]>> \o Drop(list, i) /\ saved' = saved
      BY <1>5, ListOps DEF LRU!Find
    <2> HIDE DEF i
    <2>3. LeastRecentlyUsed!Use(i)
      BY <1>1, <2>2, AbstractListOps DEF LeastRecentlyUsed!Use
    <2> QED
      BY <1>1, <2>1, <2>3 DEF LeastRecentlyUsed!Next
  <1>6. CASE \E bytes \in Sizes : LRU!Insert(k, bytes)
    <2>1. PICK bytes \in Sizes : LRU!Insert(k, bytes)
      BY <1>6
    <2> DEFINE e == [key |-> k, size |-> bytes, id |-> ids + 1]
    <2>2. k \notin DOMAIN map /\ ids \in Nat /\ ids < MaxInserts
      BY <1>1, <2>1 DEF LRU!Insert, CacheInv, CacheTypes
    <2>3. e \in ListEntries /\ e.key = k
      BY <2>2, CacheAssumption DEF ListEntries, LRU!ListEntry
    <2>4. ~LeastRecentlyUsed!Cached(e.key)
      BY <1>3, <2>2, <2>3
    <2>5. CASE LRU!InsertFits(k, bytes)
      <3>1. list' = <<e>> \o list /\ saved' = saved
        BY <2>5 DEF LRU!InsertFits, LRU!PushFront
      <3> HIDE DEF e
      <3>2. LeastRecentlyUsed!Insert(e)
        BY <1>1, <2>4, <3>1 DEF LeastRecentlyUsed!Insert
      <3> QED
        BY <2>3, <3>2 DEF LeastRecentlyUsed!Next, ListEntries
    <2>6. CASE LRU!InsertEvicts(k, bytes)
      <3>1. /\ list # <<>> /\ list' = <<e>> \o LRU!Front(list)
            /\ saved' = saved \cup {LRU!Last(list)}
        BY <2>6 DEF LRU!InsertEvicts, LRU!Full, LRU!PushFront
      <3> HIDE DEF e
      <3>2. LeastRecentlyUsed!Evict
        BY <1>1, <2>3, <2>4, <3>1, AbstractListOps DEF LeastRecentlyUsed!Evict, ListEntries
      <3> QED
        BY <3>2 DEF LeastRecentlyUsed!Next
    <2>7. CASE LRU!InsertThrows(bytes)
      <3>1. /\ list # <<>> /\ list' = LRU!Front(list)
            /\ saved' = saved \cup {LRU!Last(list)}
        BY <2>7 DEF LRU!InsertThrows, LRU!Full
      <3>2. LeastRecentlyUsed!Evict
        BY <1>1, <3>1, AbstractListOps DEF LeastRecentlyUsed!Evict
      <3> QED
        BY <3>2 DEF LeastRecentlyUsed!Next
    <2>8. CASE LRU!InsertAborts(bytes)
      <3>1. list # <<>> /\ LRU!Last(list).key \notin DOMAIN map
        BY <2>8 DEF LRU!InsertAborts, LRU!Full
      <3>2. list \in Seq(ListEntries)
        BY DEF CacheInv, CacheTypes
      <3>3. Len(list) \in DOMAIN list /\ LRU!Last(list) = list[Len(list)]
        BY <3>1, <3>2, ListOps
      <3> QED
        BY <1>1, <3>1, <3>3 DEF Each
    <2> QED
      BY <2>1, <2>5, <2>6, <2>7, <2>8 DEF LRU!Insert
  <1> QED
    BY <1>2, <1>4, <1>5, <1>6

\* As long as no key is inserted twice a Cache does what AbstractCache promises:
\* the entry that goes is the one used longest ago, it goes only to make room,
\* and it is saved (cache.hpp 128-197).
THEOREM CacheRefines == SequentialSpec => ImplementsCache
  <1> DEFINE Inv == IsCache => CacheInv
  <1>1. SequentialInit => LeastRecentlyUsed!Init
    <2> SUFFICES ASSUME SequentialInit PROVE LeastRecentlyUsed!Init
      OBVIOUS
    <2>1. Plain => list = <<>> /\ saved = {}
      BY CacheStarts DEF Plain, LRU!Init
    <2> QED
      BY <2>1 DEF LeastRecentlyUsed!Init
  <1>2. Inv /\ [SequentialNext]_sequentialVars
            => [LeastRecentlyUsed!Next]_(LeastRecentlyUsed!vars)
    <2> SUFFICES ASSUME Inv, [SequentialNext]_sequentialVars
                 PROVE  LeastRecentlyUsed!Next \/ UNCHANGED LeastRecentlyUsed!vars
      OBVIOUS
    <2>1. UNCHANGED part
      BY DEF SequentialNext, sequentialVars
    <2>2. CASE Plain /\ SequentialNext
      <3>1. CacheInv /\ LRU!Next
        BY <2>2, CacheStep DEF Plain
      <3> QED
        BY <2>1, <2>2, <3>1, PlainStep
    <2>3. CASE ~IsCache
      BY <2>1, <2>3 DEF LeastRecentlyUsed!vars, Plain, IsCache
    <2>4. CASE IsCache /\ ~Plain /\ SequentialNext
      <3>1. UNCHANGED reinserts
        BY <2>4, CacheStep DEF LRU!Next, LRU!Erase, LRU!Find, LRU!Insert
      <3> QED
        BY <2>1, <2>4, <3>1 DEF LeastRecentlyUsed!vars, Plain, IsCache
    <2>5. CASE UNCHANGED sequentialVars
      BY <2>5 DEF LeastRecentlyUsed!vars, Plain, IsCache, sequentialVars, containerVars, cacheVars
    <2> QED
      BY <2>2, <2>3, <2>4, <2>5
  <1> QED
    BY <1>1, <1>2, CacheInvariant, PTL
    DEF SequentialSpec, ImplementsCache, LeastRecentlyUsed!Spec
-----------------------------------------------------------------------------
(***************************************************************************)
(* Allocators                                                              *)
(***************************************************************************)
BlocksPossible == Memory!Blocks

\* What the client holds and what is kept for it is apart, in the used part of
\* the array or from malloc(); only blocks of the array are kept, and only by a
\* FreeDequeAllocator.
MemoryInv ==
    /\ idx \in 0..ArraySize /\ freeDeque \in BOOLEAN
    /\ store \in Seq(BlocksPossible) /\ live \subseteq BlocksPossible
    /\ \A a, b \in live : a # b => Memory!Apart(a, b)
    /\ \A b \in live : \A i \in DOMAIN store : Memory!Apart(b, store[i])
    /\ \A i, j \in DOMAIN store : i # j => Memory!Apart(store[i], store[j])
    /\ \A b \in live : b.region = "array" => b.start + b.size <= idx
    /\ \A i \in DOMAIN store : /\ store[i].region = "array"
                               /\ store[i].start + store[i].size <= idx
    /\ freeDeque \/ store = <<>>

LEMMA BlockProperties ==
    ASSUME NEW b \in BlocksPossible
    PROVE  /\ b.start \in Nat /\ b.start <= ArraySize
           /\ b.size \in Nat /\ b.size > 0
           /\ ~Memory!Apart(b, b)
  <1>1. b.start \in 0..ArraySize /\ b.size \in Requests
    BY DEF BlocksPossible, Memory!Blocks
  <1>2. b.start \in Nat /\ b.start <= ArraySize /\ b.size \in Nat /\ b.size > 0
    <2>1. b.size \in Nat \ {0}
      BY <1>1, BlockAssumption
    <2>2. b.size > 0
      BY <2>1
    <2>3. b.start \in Nat /\ b.start <= ArraySize
      BY <1>1, BlockAssumption
    <2> QED
      BY <2>1, <2>2, <2>3
  <1>3. ~(b.start + b.size <= b.start)
    BY <1>2
  <1>4. ~Memory!Apart(b, b)
    BY <1>3 DEF Memory!Apart
  <1> QED
    BY <1>2, <1>4

LEMMA ApartSymmetric ==
    \A a, b : Memory!Apart(a, b) <=> Memory!Apart(b, a)
  BY DEF Memory!Apart

\* What a call hands out is a block apart from what the client holds.
HandsOut == \E b \in BlocksPossible \ live : /\ \A a \in live : Memory!Apart(a, b)
                                             /\ live' = live \cup {b}

LEMMA ReuseOK ==
    ASSUME MemoryInv, NEW n \in Requests, Memory!Reuse(n), UNCHANGED freeDeque
    PROVE  MemoryInv' /\ HandsOut
  <1>1. PICK i \in DOMAIN store : /\ freeDeque /\ live' = live \cup {store[i]}
                                 /\ store' = Drop(store, i) /\ UNCHANGED idx
    BY DEF Memory!Reuse, Memory!Fitting, Memory!RemoveAt, Drop
  <1>2. /\ store \in Seq(BlocksPossible) /\ store[i] \in BlocksPossible
        /\ store' \in Seq(BlocksPossible)
    BY <1>1, DropProperties, ElementOfSeq DEF MemoryInv
  <1>3. /\ \A j \in DOMAIN store' : \E a \in DOMAIN store : a # i /\ store'[j] = store[a]
        /\ \A j, k \in DOMAIN store' : j # k =>
              \E a, b \in DOMAIN store : /\ a # b
                                         /\ store'[j] = store[a] /\ store'[k] = store[b]
    BY <1>1, <1>2, DropPlaces
  <1>4. store[i] \notin live
    BY <1>2, BlockProperties DEF MemoryInv
  <1>5. HandsOut
    BY <1>1, <1>2, <1>4 DEF MemoryInv, HandsOut
  <1>6. \A a, b \in live' : a # b => Memory!Apart(a, b)
    BY <1>1, ApartSymmetric DEF MemoryInv
  <1>7. \A b \in live' : \A j \in DOMAIN store' : Memory!Apart(b, store'[j])
    BY <1>1, <1>3, ApartSymmetric DEF MemoryInv
  <1>8. \A j, k \in DOMAIN store' : j # k => Memory!Apart(store'[j], store'[k])
    BY <1>3 DEF MemoryInv
  <1>9. \A b \in live' : b.region = "array" => b.start + b.size <= idx
    BY <1>1 DEF MemoryInv
  <1>10. \A j \in DOMAIN store' : /\ store'[j].region = "array"
                                  /\ store'[j].start + store'[j].size <= idx
    BY <1>3 DEF MemoryInv
  <1>11. live' \subseteq BlocksPossible
    BY <1>1, <1>2 DEF MemoryInv
  <1>12. MemoryInv'
    BY <1>1, <1>2, <1>6, <1>7, <1>8, <1>9, <1>10, <1>11 DEF MemoryInv, Memory!Apart
  <1> QED
    BY <1>5, <1>12

\* A new block, from the array or from malloc().
LEMMA NewBlockOK ==
    ASSUME MemoryInv, UNCHANGED <<freeDeque, store>>, NEW b \in BlocksPossible,
           live' = live \cup {b}, idx' \in idx..ArraySize,
           \A a \in live : Memory!Apart(a, b),
           \A i \in DOMAIN store : Memory!Apart(b, store[i]),
           b.region = "array" => b.start + b.size <= idx'
    PROVE  MemoryInv' /\ HandsOut
  <1>1. b \notin live
    BY BlockProperties
  <1>2. HandsOut
    BY <1>1 DEF HandsOut
  <1>3. idx \in Nat /\ idx' \in 0..ArraySize /\ idx <= idx'
    BY BlockAssumption DEF MemoryInv
  <1>4. \A a \in live : a.region = "array" => a.start + a.size <= idx'
    <2> SUFFICES ASSUME NEW a \in live, a.region = "array" PROVE a.start + a.size <= idx'
      OBVIOUS
    <2>1. a.start \in Nat /\ a.size \in Nat /\ a.start + a.size <= idx
      BY BlockProperties DEF MemoryInv
    <2> QED
      BY <1>3, <2>1
  <1>5. \A i \in DOMAIN store : /\ store[i].region = "array"
                                /\ store[i].start + store[i].size <= idx'
    <2> SUFFICES ASSUME NEW i \in DOMAIN store
                 PROVE  /\ store[i].region = "array"
                        /\ store[i].start + store[i].size <= idx'
      OBVIOUS
    <2>1. store[i] \in BlocksPossible
      BY ElementOfSeq DEF MemoryInv
    <2>2. /\ store[i].region = "array" /\ store[i].start + store[i].size <= idx
          /\ store[i].start \in Nat /\ store[i].size \in Nat
      BY <2>1, BlockProperties DEF MemoryInv
    <2> QED
      BY <1>3, <2>2
  <1>6. \A c, d \in live' : c # d => Memory!Apart(c, d)
    BY ApartSymmetric DEF MemoryInv
  <1>7. \A c \in live' : \A i \in DOMAIN store : Memory!Apart(c, store[i])
    BY DEF MemoryInv
  <1>8. MemoryInv'
    BY <1>3, <1>4, <1>5, <1>6, <1>7 DEF MemoryInv, Memory!Apart
  <1> QED
    BY <1>2, <1>8

\* The sum that the array's end is compared with does not wrap.
LEMMA NIdxIsTheSum ==
    ASSUME MemoryInv, NEW n \in Requests
    PROVE  Memory!NIdx(n) = idx + n
  <1>1. /\ idx \in Nat /\ n \in Nat /\ SizeRange \in Nat /\ ArraySize \in Nat
        /\ idx <= ArraySize /\ ArraySize + n < SizeRange
    BY BlockAssumption DEF MemoryInv
  <1>2. idx + n \in Nat /\ idx + n < SizeRange
    BY <1>1
  <1>3. (idx + n) % SizeRange = idx + n
    BY <1>1, <1>2
  <1> QED
    BY <1>3 DEF Memory!NIdx

LEMMA BumpOK ==
    ASSUME MemoryInv, NEW n \in Requests, Memory!Bump(n), UNCHANGED freeDeque
    PROVE  MemoryInv' /\ HandsOut
  <1> DEFINE b == Memory!Block(idx, n)
  <1>1. /\ idx + n <= ArraySize /\ live' = live \cup {b} /\ idx' = idx + n /\ store' = store
    BY NIdxIsTheSum DEF Memory!Bump, Memory!Fits
  <1>2. idx \in Nat /\ idx <= ArraySize /\ n \in Nat /\ n > 0 /\ ArraySize \in Nat
    BY BlockAssumption DEF MemoryInv
  <1>3. b \in BlocksPossible /\ b.region = "array" /\ b.start = idx /\ b.size = n
    BY <1>2 DEF Memory!Block, BlocksPossible, Memory!Blocks
  <1> HIDE DEF b
  <1>4. \A a \in live : Memory!Apart(a, b)
    BY <1>3 DEF MemoryInv, Memory!Apart
  <1>5. \A i \in DOMAIN store : Memory!Apart(b, store[i])
    BY <1>3 DEF MemoryInv, Memory!Apart
  <1>6. idx' \in idx..ArraySize /\ b.start + b.size <= idx'
    BY <1>1, <1>2, <1>3
  <1> QED
    BY <1>1, <1>3, <1>4, <1>5, <1>6, NewBlockOK

LEMMA MallocOK ==
    ASSUME MemoryInv, NEW n \in Requests, Memory!Malloc(n), UNCHANGED freeDeque
    PROVE  MemoryInv' /\ HandsOut
  <1>1. PICK r \in HeapRegions :
           /\ \A b \in live : b.region # r
           /\ live' = live \cup {[region |-> r, start |-> 0, size |-> n]}
    BY DEF Memory!Malloc
  <1> DEFINE b == [region |-> r, start |-> 0, size |-> n]
  <1>2. UNCHANGED <<idx, store>>
    BY DEF Memory!Malloc
  <1>3. b \in BlocksPossible /\ b.region = r /\ r # "array"
    BY BlockAssumption DEF BlocksPossible, Memory!Blocks
  <1>4. live' = live \cup {b}
    BY <1>1
  <1> HIDE DEF b
  <1>5. \A a \in live : Memory!Apart(a, b)
    BY <1>1, <1>3 DEF Memory!Apart
  <1>6. \A i \in DOMAIN store : Memory!Apart(b, store[i])
    BY <1>3 DEF MemoryInv, Memory!Apart
  <1>7. idx' \in idx..ArraySize
    BY <1>2, BlockAssumption DEF MemoryInv
  <1> QED
    BY <1>2, <1>3, <1>4, <1>5, <1>6, <1>7, NewBlockOK

LEMMA KeepOK ==
    ASSUME MemoryInv, NEW b \in live, Memory!Keep(b), UNCHANGED freeDeque
    PROVE  MemoryInv' /\ live' = live \ {b}
  <1>1. /\ freeDeque /\ b.region = "array" /\ store' = Append(store, b)
        /\ live' = live \ {b} /\ UNCHANGED idx
    BY DEF Memory!Keep, Memory!Allocated
  <1>2. /\ b \in BlocksPossible /\ store \in Seq(BlocksPossible) /\ Len(store) \in Nat
        /\ DOMAIN store = 1..Len(store)
    BY DEF MemoryInv
  <1>3. /\ store' \in Seq(BlocksPossible) /\ DOMAIN store' = 1..(Len(store) + 1)
        /\ \A i \in 1..Len(store) : store'[i] = store[i]
        /\ store'[Len(store) + 1] = b
    BY <1>1, <1>2, AppendProperties
  <1>4. \A i \in DOMAIN store' : \/ i \in DOMAIN store /\ store'[i] = store[i]
                                 \/ i = Len(store) + 1 /\ store'[i] = b
    BY <1>2, <1>3
  <1>5. \A c \in live' : \A i \in DOMAIN store' : Memory!Apart(c, store'[i])
    BY <1>1, <1>4 DEF MemoryInv
  <1>6. \A i, j \in DOMAIN store' : i # j => Memory!Apart(store'[i], store'[j])
    BY <1>4, ApartSymmetric DEF MemoryInv
  <1>7. \A i \in DOMAIN store' : /\ store'[i].region = "array"
                                 /\ store'[i].start + store'[i].size <= idx
    BY <1>1, <1>4 DEF MemoryInv
  <1>8. /\ live' \subseteq BlocksPossible
        /\ \A c, d \in live' : c # d => Memory!Apart(c, d)
        /\ \A c \in live' : c.region = "array" => c.start + c.size <= idx
    BY <1>1 DEF MemoryInv
  <1>9. MemoryInv'
    BY <1>1, <1>3, <1>5, <1>6, <1>7, <1>8 DEF MemoryInv, Memory!Apart
  <1> QED
    BY <1>1, <1>9

\* The last block goes: what else is in the array ends where it started.
LEMMA PopOK ==
    ASSUME MemoryInv, NEW b \in live, Memory!Pop(b), UNCHANGED freeDeque
    PROVE  MemoryInv' /\ live' = live \ {b}
  <1>1. /\ ~freeDeque /\ b.region = "array" /\ live' = live \ {b} /\ UNCHANGED store
        /\ idx' = IF b.start + b.size = idx THEN idx - b.size ELSE idx
    BY DEF Memory!Pop, Memory!Allocated
  <1>2. /\ store = <<>> /\ idx \in Nat /\ idx <= ArraySize /\ ArraySize \in Nat
        /\ b.start \in Nat /\ b.size \in Nat /\ b.size > 0
    BY <1>1, BlockAssumption, BlockProperties DEF MemoryInv
  <1>3. idx' \in 0..ArraySize
    <2>1. CASE b.start + b.size = idx
      BY <1>1, <1>2, <2>1
    <2>2. CASE b.start + b.size # idx
      BY <1>1, <1>2, <2>2
    <2> QED
      BY <2>1, <2>2
  <1>4. ASSUME NEW c \in live', c.region = "array" PROVE c.start + c.size <= idx'
    <2>1. /\ c \in live /\ c # b /\ c.start \in Nat /\ c.size \in Nat /\ c.size > 0
          /\ c.start + c.size <= idx /\ Memory!Apart(c, b)
      BY <1>1, <1>4, BlockProperties DEF MemoryInv
    <2>2. CASE b.start + b.size = idx
      <3>1. c.start + c.size <= b.start \/ idx <= c.start
        BY <1>1, <1>4, <2>1, <2>2 DEF Memory!Apart
      <3>2. idx' = b.start
        BY <1>1, <1>2, <2>2
      <3> QED
        BY <1>2, <2>1, <3>1, <3>2
    <2>3. CASE b.start + b.size # idx
      BY <1>1, <2>1, <2>3
    <2> QED
      BY <2>2, <2>3
  <1>5. /\ live' \subseteq BlocksPossible
        /\ \A c, d \in live' : c # d => Memory!Apart(c, d)
    BY <1>1 DEF MemoryInv
  <1>6. MemoryInv'
    BY <1>1, <1>2, <1>3, <1>4, <1>5 DEF MemoryInv, Memory!Apart
  <1> QED
    BY <1>1, <1>6

LEMMA FreeOK ==
    ASSUME MemoryInv, NEW b \in live, Memory!Free(b), UNCHANGED freeDeque
    PROVE  MemoryInv' /\ live' = live \ {b}
  <1>1. live' = live \ {b} /\ UNCHANGED <<idx, store>>
    BY DEF Memory!Free
  <1> QED
    BY <1>1 DEF MemoryInv, Memory!Apart

\* Every step keeps the invariant and is one of the abstract allocator's.
LEMMA MemoryNextOK ==
    ASSUME MemoryInv, Memory!Next
    PROVE  MemoryInv' /\ (HandsOut \/ \E b \in live : live' = live \ {b})
  <1>1. UNCHANGED freeDeque
    BY DEF Memory!Next
  <1>2. CASE \E n \in Requests : Memory!Allocate(n)
    <2>1. PICK n \in Requests : Memory!Allocate(n)
      BY <1>2
    <2> QED
      BY <1>1, <2>1, ReuseOK, BumpOK, MallocOK DEF Memory!Allocate
  <1>3. CASE \E b \in live : Memory!Deallocate(b)
    <2>1. PICK b \in live : Memory!Deallocate(b)
      BY <1>3
    <2> QED
      BY <1>1, <2>1, KeepOK, PopOK, FreeOK DEF Memory!Deallocate
  <1> QED
    BY <1>2, <1>3 DEF Memory!Next

LEMMA MemoryStep ==
    ASSUME SequentialNext, IsBllocator
    PROVE  Memory!Next /\ UNCHANGED part
  <1>1. UNCHANGED part /\ part = "Bllocator"
    BY DEF SequentialNext, IsBllocator
  <1> QED
    BY <1>1 DEF SequentialNext, ContainersNext, IsFector, IsFap, IsCache, IsCombinations,
                IsBllocator, IsBits, IsSqlite, IsClient

LEMMA MemoryStarts ==
    ASSUME SequentialInit, IsBllocator
    PROVE  Memory!Init
  <1>1. part = "Bllocator"
    BY DEF IsBllocator
  <1> QED
    BY <1>1 DEF SequentialInit, ContainersInit, IsFector, IsFap, IsCache, IsCombinations,
                IsBllocator, IsBits, IsSqlite, IsClient

\* Whatever the order in which blocks come back, the blocks the client holds
\* never overlap with each other nor with those kept for it, they lie in the
\* array's used part or come from malloc(), and each goes back where it comes
\* from (bllocator.hpp 57-231).
THEOREM BlocksNeverOverlap == SequentialSpec => ImplementsAllocator
  <1> DEFINE Inv == IsBllocator => MemoryInv
  <1>1. SequentialInit => Inv
    <2> SUFFICES ASSUME SequentialInit, IsBllocator PROVE MemoryInv
      OBVIOUS
    <2>1. freeDeque \in BOOLEAN /\ idx = 0 /\ store = <<>> /\ live = {}
      BY MemoryStarts DEF Memory!Init
    <2> QED
      BY <2>1, BlockAssumption DEF MemoryInv
  <1>2. Inv /\ [SequentialNext]_sequentialVars => Inv'
    <2> SUFFICES ASSUME Inv, [SequentialNext]_sequentialVars, IsBllocator' PROVE MemoryInv'
      BY DEF IsBllocator
    <2>1. UNCHANGED part /\ IsBllocator
      BY DEF SequentialNext, sequentialVars, IsBllocator
    <2>2. CASE SequentialNext
      BY <2>1, <2>2, MemoryStep, MemoryNextOK
    <2>3. CASE UNCHANGED sequentialVars
      BY <2>1, <2>3
      DEF sequentialVars, containerVars, arrayVars, blockVars, MemoryInv, Memory!Apart
    <2> QED
      BY <2>2, <2>3
  <1>3. Inv => (IsBllocator => Memory!NoSharedByte /\ Memory!ReturnedToOwner)
    <2> SUFFICES ASSUME MemoryInv PROVE Memory!NoSharedByte /\ Memory!ReturnedToOwner
      OBVIOUS
    <2>1. Memory!ToSet(store) = {store[i] : i \in DOMAIN store}
      BY DEF Memory!ToSet
    <2>2. Memory!NoSharedByte
      BY <2>1 DEF MemoryInv, Memory!NoSharedByte
    <2>3. Memory!ReturnedToOwner
      <3> SUFFICES ASSUME NEW b \in live, b.region = "array" PROVE b.start <= idx
        BY DEF Memory!ReturnedToOwner, Memory!Allocated
      <3>1. b.start \in Nat /\ b.size \in Nat /\ b.start + b.size <= idx /\ idx \in Nat
        BY BlockProperties DEF MemoryInv
      <3> QED
        BY <3>1
    <2> QED
      BY <2>2, <2>3
  <1>4. SequentialInit => BlocksApart!Init
    BY MemoryStarts DEF Memory!Init, BlocksApart!Init
  <1>5. Inv /\ [SequentialNext]_sequentialVars
            => [BlocksApart!Allocate \/ BlocksApart!Deallocate]_(IF IsBllocator THEN live ELSE {})
    <2> SUFFICES ASSUME Inv, [SequentialNext]_sequentialVars
                 PROVE  \/ BlocksApart!Allocate \/ BlocksApart!Deallocate
                        \/ UNCHANGED (IF IsBllocator THEN live ELSE {})
      OBVIOUS
    <2>1. UNCHANGED part
      BY DEF SequentialNext, sequentialVars
    <2>2. CASE ~IsBllocator
      BY <2>1, <2>2 DEF IsBllocator
    <2>3. CASE UNCHANGED sequentialVars
      BY <2>3 DEF sequentialVars, containerVars, blockVars, IsBllocator
    <2>4. CASE IsBllocator /\ SequentialNext
      <3>1. IsBllocator' /\ (HandsOut \/ \E b \in live : live' = live \ {b})
        BY <2>1, <2>4, MemoryStep, MemoryNextOK DEF IsBllocator
      <3>2. HandsOut => BlocksApart!Allocate
        BY <2>4, <3>1 DEF HandsOut, BlocksApart!Allocate, BlocksPossible, BlocksApart!Apart, Memory!Apart
      <3>3. (\E b \in live : live' = live \ {b}) => BlocksApart!Deallocate
        BY <2>4, <3>1 DEF BlocksApart!Deallocate
      <3> QED
        BY <3>1, <3>2, <3>3
    <2> QED
      BY <2>2, <2>3, <2>4
  <1> QED
    BY <1>1, <1>2, <1>3, <1>4, <1>5, PTL
    DEF SequentialSpec, ImplementsAllocator, BlocksApart!Spec
-----------------------------------------------------------------------------
(***************************************************************************)
(* Sets of bits                                                            *)
(***************************************************************************)
\* A store holds bits it has, and those it was asked for where nothing is spoilt.
BitsInv ==
    /\ kind \in {"Bitset", "BitVector"} /\ size \in Nat \ {0} /\ rest \in Nat
    /\ Set!IsBitset => bitStore \subseteq Set!All /\ bits \subseteq Set!All
    /\ Set!IsBitVector => size = Base /\ bitStore \subseteq 0 .. Base + rest - 1
    /\ bitStore \ spoilt = bits \ spoilt

\* What 1 << i gives: bits of the store, the one of i among them if an int has
\* it, and beside it only bits that count as spoilt.
LEMMA MaskIs ==
    ASSUME size \in Nat \ {0}, NEW i \in Nat
    PROVE  /\ \A m \in Set!Mask(i) :
                 /\ m \subseteq Set!All /\ m \subseteq {i} \cup Set!SpoiltBy(i)
                 /\ i < IntBits /\ i \in Set!All => i \in m
           /\ i < IntBits => Set!Mask(i) = {Set!Reaches(i)}
           /\ ~(i < IntBits) /\ i \in Set!All => i \in Set!SpoiltBy(i)
  <1> DEFINE Shifted(j) == IF j = IntBits - 1 THEN {b \in Set!All : b >= j}
                           ELSE {j} \cap Set!All
  <1>1. Set!Mask(i) = IF i < IntBits THEN {Shifted(i)} ELSE {Shifted(i % IntBits), {}}
    BY DEF Set!Mask
  <1>2. ASSUME NEW j \in Nat PROVE Shifted(j) = Set!Reaches(j)
    <2>1. CASE j = IntBits - 1
      <3>1. \A b : b \in Set!All <=> b \in Int /\ 0 <= b /\ b <= size - 1
        BY DEF Set!All
      <3>2. \A b : b \in Shifted(j) <=> b \in Set!All /\ b >= j
        BY <2>1
      <3>3. \A b : b \in j .. size - 1 <=> b \in Int /\ j <= b /\ b <= size - 1
        OBVIOUS
      <3> HIDE DEF Shifted
      <3>4. \A b : b \in Shifted(j) <=> b \in j .. size - 1
        BY <3>1, <3>2, <3>3
      <3>5. Set!Reaches(j) = j .. size - 1
        BY <2>1 DEF Set!Reaches
      <3> QED
        BY <3>4, <3>5
    <2>2. CASE j # IntBits - 1
      BY <2>2 DEF Set!Reaches
    <2> QED
      BY <2>1, <2>2
  <1>3. \A j : Shifted(j) \subseteq Set!All
    OBVIOUS
  <1>4. i % IntBits \in Nat
    BY BitsAssumption
  <1>5. i \in Set!All => i \in Shifted(i)
    OBVIOUS
  <1>6. CASE i < IntBits
    <2>1. Set!Mask(i) = {Shifted(i)} /\ Set!SpoiltBy(i) = Shifted(i) \ {i}
      BY <1>1, <1>2, <1>6 DEF Set!SpoiltBy
    <2> HIDE DEF Shifted
    <2> QED
      BY <1>2, <1>3, <1>5, <1>6, <2>1
  <1>7. CASE ~(i < IntBits)
    <2>1. /\ Set!Mask(i) = {Shifted(i % IntBits), {}}
          /\ Set!SpoiltBy(i) = Shifted(i % IntBits) \cup ({i} \cap Set!All)
      BY <1>1, <1>2, <1>4, <1>7 DEF Set!SpoiltBy
    <2> HIDE DEF Shifted
    <2> QED
      BY <1>3, <1>7, <2>1
  <1> QED
    BY <1>6, <1>7

\* A bit that is set, reset or flipped: outside of what the index spoils the
\* store stays what is asked for.
LEMMA MaskedOK ==
    ASSUME BitsInv, Set!IsBitset, NEW i \in Nat, NEW m \in Set!Mask(i)
    PROVE  LET bad == spoilt \cup Set!SpoiltBy(i)
           IN  /\ (bitStore \cup m) \ Set!Written(i) = Set!With(i) \ Set!Written(i)
               /\ (bitStore \ m) \ Set!Written(i) = Set!Without(i) \ Set!Written(i)
               /\ ((bitStore \ m) \cup (m \ bitStore)) \ bad
                    = (IF i \in bits THEN Set!Without(i) ELSE Set!With(i)) \ bad
  <1> DEFINE bad == spoilt \cup Set!SpoiltBy(i)
  <1>1. /\ bitStore \subseteq Set!All /\ bits \subseteq Set!All
        /\ \A b : b \notin spoilt => (b \in bitStore <=> b \in bits)
    BY DEF BitsInv
  <1>2. /\ m \subseteq Set!All /\ m \subseteq {i} \cup Set!SpoiltBy(i)
        /\ i < IntBits /\ i \in Set!All => i \in m
        /\ ~(i < IntBits) /\ i \in Set!All => i \in Set!SpoiltBy(i)
    BY MaskIs DEF BitsInv
  <1>3. \A b : b \in Set!With(i) <=> b \in bits \/ (b = i /\ i \in Set!All)
    BY DEF Set!With
  <1>4. \A b : b \in Set!Without(i) <=> b \in bits /\ b # i
    BY DEF Set!Without
  <1>5. ASSUME NEW b, b \notin Set!Written(i)
        PROVE  /\ b \in bitStore \cup m <=> b \in Set!With(i)
               /\ b \in bitStore \ m <=> b \in Set!Without(i)
    <2>1. b \notin Set!SpoiltBy(i) /\ (b \in spoilt => b = i /\ i < IntBits)
      BY <1>5 DEF Set!Written
    <2> QED
      BY <1>1, <1>2, <1>3, <1>4, <2>1
  <1>6. ASSUME NEW b, b \notin bad
        PROVE  b \in (bitStore \ m) \cup (m \ bitStore)
                 <=> b \in IF i \in bits THEN Set!Without(i) ELSE Set!With(i)
    <2>1. b \notin Set!SpoiltBy(i) /\ b \notin spoilt
      BY <1>6
    <2> QED
      BY <1>1, <1>2, <1>3, <1>4, <2>1
  <1> HIDE DEF bad
  <1>7. ((bitStore \ m) \cup (m \ bitStore)) \ bad
          = (IF i \in bits THEN Set!Without(i) ELSE Set!With(i)) \ bad
    BY <1>6
  <1>8. /\ (bitStore \cup m) \ Set!Written(i) = Set!With(i) \ Set!Written(i)
        /\ (bitStore \ m) \ Set!Written(i) = Set!Without(i) \ Set!Written(i)
    BY <1>5
  <1> QED
    BY <1>7, <1>8 DEF bad

\* A step of a Bitset that asks of the bits what it does to the store.
LEMMA StoresOK ==
    ASSUME BitsInv, Set!IsBitset, NEW s, NEW wanted, NEW bad, Set!Stores(s, wanted, bad),
           s \subseteq Set!All, wanted \subseteq Set!All, s \ bad = wanted \ bad
    PROVE  BitsInv'
  <1>1. /\ bitStore' = s /\ bits' = wanted /\ spoilt' = bad
        /\ UNCHANGED <<kind, size, rest>>
    BY DEF Set!Stores
  <1>2. kind = "Bitset" /\ Set!IsBitset' /\ ~Set!IsBitVector' /\ Set!All' = Set!All
    BY <1>1 DEF Set!IsBitset, Set!IsBitVector, Set!All
  <1> QED
    BY <1>1, <1>2 DEF BitsInv

LEMMA BitsetNextOK ==
    ASSUME BitsInv, Set!BitsetNext
    PROVE  BitsInv'
  <1>1. /\ Set!IsBitset /\ bitStore \subseteq Set!All /\ bits \subseteq Set!All
        /\ size \in Nat \ {0} /\ bitStore \ spoilt = bits \ spoilt
    BY DEF BitsInv, Set!BitsetNext
  <1>2. \A i \in 0 .. MaxBits - 1 : i \in Nat
    OBVIOUS
  <1>3. \A i : Set!With(i) \subseteq Set!All /\ Set!Without(i) \subseteq Set!All
    BY <1>1 DEF Set!With, Set!Without
  <1>4. \A i \in 0 .. MaxBits - 1 : \A m \in Set!Mask(i) : m \subseteq Set!All
    BY <1>1, <1>2, MaskIs
  <1>5. ASSUME NEW i \in 0 .. MaxBits - 1,
               Set!ResetBit(i) \/ Set!SetTo(i, TRUE) \/ Set!SetTo(i, FALSE)
        PROVE  BitsInv'
    <2>1. PICK m \in Set!Mask(i) :
             \/ Set!Stores(bitStore \ m, Set!Without(i), Set!Written(i))
             \/ Set!Stores(bitStore \cup m, Set!With(i), Set!Written(i))
      BY <1>5 DEF Set!ResetBit, Set!SetTo
    <2>2. bitStore \ m \subseteq Set!All /\ bitStore \cup m \subseteq Set!All
      BY <1>1, <1>4
    <2>3. /\ (bitStore \cup m) \ Set!Written(i) = Set!With(i) \ Set!Written(i)
          /\ (bitStore \ m) \ Set!Written(i) = Set!Without(i) \ Set!Written(i)
      BY <1>1, <1>2, MaskedOK
    <2> QED
      BY <1>1, <1>3, <2>1, <2>2, <2>3, StoresOK
  <1>6. ASSUME NEW i \in 0 .. MaxBits - 1, Set!FlipBit(i) PROVE BitsInv'
    <2> DEFINE wanted == IF i \in bits THEN Set!Without(i) ELSE Set!With(i)
               bad == spoilt \cup Set!SpoiltBy(i)
    <2>1. PICK m \in Set!Mask(i) : Set!Stores((bitStore \ m) \cup (m \ bitStore), wanted, bad)
      BY <1>6 DEF Set!FlipBit
    <2>2. (bitStore \ m) \cup (m \ bitStore) \subseteq Set!All /\ wanted \subseteq Set!All
      BY <1>1, <1>3, <1>4
    <2>3. ((bitStore \ m) \cup (m \ bitStore)) \ bad = wanted \ bad
      BY <1>1, <1>2, MaskedOK
    <2> HIDE DEF wanted, bad
    <2> QED
      BY <1>1, <2>1, <2>2, <2>3, StoresOK
  <1>7. CASE Set!SetAll \/ Set!ResetAll
    BY <1>1, <1>7, StoresOK DEF Set!SetAll, Set!ResetAll
  <1>8. CASE Set!Flip
    <2>1. (Set!All \ bitStore) \ spoilt = (Set!All \ bits) \ spoilt
      BY <1>1
    <2> QED
      BY <1>1, <1>8, <2>1, StoresOK DEF Set!Flip
  <1>9. ASSUME NEW b \in {{}, {0}, {1, 2} \cap Set!All, Set!All}
        PROVE  /\ Set!Combine(b) => BitsInv'
               /\ \A i \in Set!All, j \in Set!All : Set!AssignReference(i, b, j) => BitsInv'
    <2>1. b \subseteq Set!All
      <3>1. 0 \in Set!All
        BY <1>1 DEF Set!All
      <3> QED
        BY <3>1
    <2>2. /\ bitStore \cap b \subseteq Set!All /\ bits \cap b \subseteq Set!All
          /\ bitStore \cup b \subseteq Set!All /\ bits \cup b \subseteq Set!All
          /\ (bitStore \ b) \cup (b \ bitStore) \subseteq Set!All
          /\ (bits \ b) \cup (b \ bits) \subseteq Set!All
      BY <1>1, <2>1
    <2>3. (bitStore \cap b) \ (spoilt \cap b) = (bits \cap b) \ (spoilt \cap b)
      BY <1>1
    <2>4. (bitStore \cup b) \ (spoilt \ b) = (bits \cup b) \ (spoilt \ b)
      BY <1>1
    <2>5. ((bitStore \ b) \cup (b \ bitStore)) \ spoilt = ((bits \ b) \cup (b \ bits)) \ spoilt
      BY <1>1
    <2>6. Set!Combine(b) => BitsInv'
      <3>1. CASE Set!Stores(bitStore \cap b, bits \cap b, spoilt \cap b)
        BY <1>1, <2>2, <2>3, <3>1, StoresOK
      <3>2. CASE Set!Stores(bitStore \cup b, bits \cup b, spoilt \ b)
        BY <1>1, <2>2, <2>4, <3>2, StoresOK
      <3>3. CASE Set!Stores((bitStore \ b) \cup (b \ bitStore), (bits \ b) \cup (b \ bits), spoilt)
        BY <1>1, <2>2, <2>5, <3>3, StoresOK
      <3> QED
        BY <3>1, <3>2, <3>3 DEF Set!Combine
    <2>7. ASSUME NEW i \in Set!All, NEW j \in Set!All, Set!AssignReference(i, b, j)
          PROVE  BitsInv'
      <3> DEFINE wanted == IF j \in b THEN Set!With(i) ELSE Set!Without(i)
      <3>1. Set!Stores(b, wanted, Set!All)
        BY <2>7 DEF Set!AssignReference
      <3>2. wanted \subseteq Set!All
        BY <1>3
      <3>3. b \ Set!All = wanted \ Set!All
        BY <2>1, <3>2
      <3> HIDE DEF wanted
      <3> QED
        BY <1>1, <2>1, <3>1, <3>2, <3>3, StoresOK
    <2> QED
      BY <2>6, <2>7
  <1>10. ASSUME NEW n \in 1 .. 2, Set!ShiftBy(n) PROVE BitsInv'
    <2> DEFINE Up(s) == {i + n : i \in s} \cap Set!All
               Down(s) == {i - n : i \in {j \in s : j >= n}}
    <2>1. \/ Set!Stores(Up(bitStore), Up(bits), Up(spoilt))
          \/ Set!Stores(Down(bitStore), Down(bits), Down(spoilt))
      BY <1>10 DEF Set!ShiftBy
    <2>2. \A s : Up(s) \subseteq Set!All
      OBVIOUS
    <2>3. \A s \in SUBSET Set!All : Down(s) \subseteq Set!All
      <3>1. \A i \in Set!All : i >= n => i - n \in Set!All
        BY <1>1 DEF Set!All
      <3> QED
        BY <3>1
    <2>4. Up(bitStore) \ Up(spoilt) = Up(bits) \ Up(spoilt)
      BY <1>1
    <2>5. Down(bitStore) \ Down(spoilt) = Down(bits) \ Down(spoilt)
      BY <1>1
    <2> HIDE DEF Up, Down
    <2> QED
      BY <1>1, <2>1, <2>2, <2>3, <2>4, <2>5, StoresOK
  <1> QED
    BY <1>5, <1>6, <1>7, <1>8, <1>9, <1>10 DEF Set!BitsetNext

LEMMA BitVectorNextOK ==
    ASSUME BitsInv, Set!BitVectorNext
    PROVE  BitsInv'
  <1>1. /\ kind = "BitVector" /\ size = Base /\ rest \in Nat /\ Base \in Nat \ {0}
        /\ bitStore \subseteq 0 .. Base + rest - 1
        /\ \A b : b \notin spoilt => (b \in bitStore <=> b \in bits)
    BY BitsAssumption DEF BitsInv, Set!BitVectorNext, Set!IsBitVector
  <1>2. PICK i \in 0 .. MaxBits - 1 : Set!VectorSet(i) \/ Set!Unset(i)
    BY DEF Set!BitVectorNext
  <1>3. UNCHANGED <<kind, size>> /\ rest' = Set!Grown(i)
    BY <1>2 DEF Set!VectorSet, Set!Unset
  <1>4. /\ i \in Nat /\ Set!Grown(i) \in Nat /\ rest <= Set!Grown(i)
        /\ i <= Base + Set!Grown(i) - 1
    BY <1>1 DEF Set!Grown
  <1>5. i \in 0 .. Base + rest' - 1 /\ bitStore \subseteq 0 .. Base + rest' - 1
    BY <1>1, <1>3, <1>4
  <1>6. bitStore' \subseteq 0 .. Base + rest' - 1
    <2>1. bitStore' \subseteq bitStore \cup {i}
      BY <1>2 DEF Set!VectorSet, Set!Unset
    <2> HIDE DEF Set!Grown
    <2> QED
      BY <1>5, <2>1
  <1>7. ASSUME NEW b, b \notin spoilt' PROVE b \in bitStore' <=> b \in bits'
    <2>1. CASE Set!VectorSet(i)
      BY <1>1, <1>7, <2>1 DEF Set!VectorSet
    <2>2. CASE Set!Unset(i) /\ i < Base
      <3>1. Set!Cleared(i) = {i}
        BY <2>2 DEF Set!Cleared
      <3> QED
        BY <1>1, <1>7, <2>2, <3>1 DEF Set!Unset
    <2>3. CASE Set!Unset(i) /\ ~(i < Base)
      <3>1. Set!Cleared(i) \subseteq {i - Base} /\ spoilt' = spoilt \cup {i, i - Base}
        BY <2>3 DEF Set!Cleared, Set!Unset
      <3> QED
        BY <1>1, <1>7, <2>3, <3>1 DEF Set!Unset
    <2> QED
      BY <1>2, <2>1, <2>2, <2>3
  <1>8. bitStore' \ spoilt' = bits' \ spoilt'
    BY <1>7
  <1> QED
    BY <1>1, <1>3, <1>4, <1>6, <1>8 DEF BitsInv, Set!IsBitset, Set!IsBitVector

LEMMA BitsInvAsked ==
    ASSUME BitsInv
    PROVE  Set!BitsAreAskedFor
  <1>1. bitStore \ spoilt = bits \ spoilt
    BY DEF BitsInv
  <1>2. spoilt = {} => Set!Count(bitStore) = Set!Cardinality(bits)
    BY <1>1 DEF Set!Count
  <1>3. ASSUME NEW i \in Set!All, i < IntBits, Set!Reaches(i) \cap spoilt = {},
               NEW t \in Set!Tests(i)
        PROVE  t <=> Set!Reaches(i) \cap bits # {}
    <2>1. i \in Nat /\ size \in Nat \ {0}
      BY DEF Set!All, BitsInv
    <2>2. Set!Mask(i) = {Set!Reaches(i)}
      BY <1>3, <2>1, MaskIs
    <2>3. t = (bitStore \cap Set!Reaches(i) # {})
      BY <1>3, <2>2, Zenon DEF Set!Tests
    <2>4. bitStore \cap Set!Reaches(i) = Set!Reaches(i) \cap bits
      BY <1>1, <1>3
    <2> QED
      BY <2>3, <2>4
  <1>4. ASSUME Set!IsBitVector, NEW i \in 0 .. MaxBits - 1, i \notin spoilt
        PROVE  Set!At(i) = (i \in bits)
    <2>1. bitStore \subseteq 0 .. Base + rest - 1 /\ rest \in Nat /\ Base \in Nat
      BY <1>4, BitsAssumption DEF BitsInv
    <2>2. i \in bitStore => i - Base < rest
      BY <2>1
    <2>3. (i \in bitStore) = (i \in bits)
      BY <1>1, <1>4
    <2> QED
      BY <2>2, <2>3 DEF Set!At
  <1> QED
    BY <1>1, <1>2, <1>3, <1>4 DEF Set!BitsAreAskedFor

LEMMA BitsStep ==
    ASSUME SequentialNext, IsBits
    PROVE  (Set!BitsetNext \/ Set!BitVectorNext) /\ UNCHANGED part
  <1>1. UNCHANGED part /\ part = "Bits"
    BY DEF SequentialNext, IsBits
  <1> QED
    BY <1>1 DEF SequentialNext, ContainersNext, IsFector, IsFap, IsCache, IsCombinations,
                IsBllocator, IsBits, IsSqlite, IsClient

LEMMA BitsStart ==
    ASSUME SequentialInit, IsBits
    PROVE  Set!BitsetInit \/ Set!BitVectorInit
  <1>1. part = "Bits"
    BY DEF IsBits
  <1> QED
    BY <1>1 DEF SequentialInit, ContainersInit, IsFector, IsFap, IsCache, IsCombinations,
                IsBllocator, IsBits, IsSqlite, IsClient

\* For every width of a store and of an int, the bits that nothing has spoilt are
\* those that were asked for, however they are looked at, and only a shift beyond
\* the int or to the sign of a shorter one, the assignment of a Reference and
\* unset() behind the first bits spoil any (bitset.hpp 78-208, bitvector.hpp 18-51).
THEOREM BitsKept == SequentialSpec => []BitsAreAskedFor
  <1> DEFINE Inv == IsBits => BitsInv
  <1>1. SequentialInit => Inv
    <2> SUFFICES ASSUME SequentialInit, IsBits PROVE BitsInv
      OBVIOUS
    <2>1. CASE Set!BitsetInit
      <3>1. size \in Nat \ {0}
        BY <2>1, BitsAssumption DEF Set!BitsetInit
      <3> QED
        BY <2>1, <3>1 DEF Set!BitsetInit, BitsInv, Set!IsBitset, Set!IsBitVector
    <2>2. CASE Set!BitVectorInit
      BY <2>2, BitsAssumption DEF Set!BitVectorInit, BitsInv, Set!IsBitset, Set!IsBitVector
    <2> QED
      BY <2>1, <2>2, BitsStart
  <1>2. Inv /\ [SequentialNext]_sequentialVars => Inv'
    <2> SUFFICES ASSUME Inv, [SequentialNext]_sequentialVars, IsBits' PROVE BitsInv'
      BY DEF IsBits
    <2>1. UNCHANGED part /\ IsBits
      BY DEF SequentialNext, sequentialVars, IsBits
    <2>2. CASE SequentialNext
      BY <2>1, <2>2, BitsStep, BitsetNextOK, BitVectorNextOK
    <2>3. CASE UNCHANGED sequentialVars
      BY <2>1, <2>3
      DEF sequentialVars, bitVars, BitsInv, Set!IsBitset, Set!IsBitVector, Set!All
    <2> QED
      BY <2>2, <2>3
  <1>3. Inv => BitsAreAskedFor
    BY BitsInvAsked DEF BitsAreAskedFor
  <1> QED
    BY <1>1, <1>2, <1>3, PTL DEF SequentialSpec
-----------------------------------------------------------------------------
(***************************************************************************)
(* The SQLite binding                                                      *)
(***************************************************************************)
TableOK(t) == /\ DOMAIN t.at \subseteq 0 .. MaxKey
              /\ \A k \in DOMAIN t.at : t.at[k] \in Nat
RowPairs == (0 .. MaxKey) \X Attrs
Iterators == [code : {"none", "row", "done"}, handed : Seq(Nat \X Nat),
              clean : BOOLEAN, live : BOOLEAN]

\* What has been handed out is the rows of these keys, once and in order.
Handed(h, t, K) ==
    /\ \A i, j \in DOMAIN h : i < j => h[i][1] < h[j][1]
    /\ \A i \in DOMAIN h : h[i][1] \in K /\ h[i] = <<h[i][1], t.at[h[i][1]]>>
    /\ \A k \in K : \E i \in DOMAIN h : h[i] = <<k, t.at[k]>>

Before(i, t) == {k \in DOMAIN t.at : i.code = "done" \/ k <= i.handed[Len(i.handed)][1]}

\* While a loop goes on undisturbed its table is there.
Loops == /\ iter \in Iterators
         /\ iter.clean /\ iter.code # "none" =>
                /\ rows.exists
                /\ iter.code = "row" => iter.handed # <<>>
                /\ Handed(iter.handed, rows, Before(iter, rows))

\* The file has what is told; the connection has what the calls that returned
\* have made, and the rows of the range that is being inserted.
Known == /\ Database!Holds(durable, told)
         /\ batch = Database!Idle => Database!Holds(rows, now)
         /\ batch # Database!Idle => inTx /\ Database!Holds(rows, batch[2])

SqlInv == /\ TableOK(rows) /\ TableOK(durable)
          /\ batch = Database!Idle \/ \E b \in Seq(RowPairs) : \E t : batch = <<b, t>>
          /\ plain => Known
          /\ Loops

LEMMA Remainder ==
    ASSUME NEW v \in Nat
    PROVE  Database!Narrowed(v) \in Nat /\ (v < IntRange => Database!Narrowed(v) = v)
  BY SqlAssumption DEF Database!Narrowed

LEMMA MinIs ==
    ASSUME NEW T \in SUBSET Nat, T # {}
    PROVE  Database!Min(T) \in T /\ \A k \in T : Database!Min(T) <= k
  <1>1. \E n \in T : \A k \in T : n <= k
    BY Least
  <1> QED
    BY <1>1 DEF Database!Min

LEMMA MaxIs ==
    ASSUME NEW n \in Nat, NEW T \in SUBSET (0 .. n), T # {}
    PROVE  Database!Max(T) \in T
  <1>1. \E m \in T : \A k \in T : m >= k
    BY Greatest
  <1> QED
    BY <1>1 DEF Database!Max

LEMMA KeyOK ==
    ASSUME TableOK(rows), NEW k \in 0 .. MaxKey, Database!Room(k)
    PROVE  Database!Key(rows, k) \in 0 .. MaxKey
  <1>1. MaxKey \in Nat /\ DOMAIN rows.at \cup {0} \in SUBSET (0 .. MaxKey)
    BY SqlAssumption DEF TableOK
  <1>2. Database!Max(DOMAIN rows.at \cup {0}) \in 0 .. MaxKey
    BY <1>1, MaxIs
  <1>3. Database!Key(rows, k) <= MaxKey
    BY DEF Database!Room
  <1>4. CASE k = 0
    BY <1>1, <1>2, <1>3, <1>4 DEF Database!Key
  <1>5. CASE k # 0
    BY <1>5 DEF Database!Key
  <1> QED
    BY <1>4, <1>5

LEMMA HoldsEmpty ==
    /\ Database!Holds(Database!NoTable, Database!NoTable) /\ TableOK(Database!NoTable)
    /\ Database!Holds(Database!Table(<<>>), Database!Table(<<>>))
    /\ TableOK(Database!Table(<<>>))
  <1>1. DOMAIN <<>> = {}
    OBVIOUS
  <1> QED
    BY <1>1 DEF Database!Holds, Database!NoTable, Database!Table, TableOK

LEMMA HoldsWith ==
    ASSUME NEW t, NEW u, TableOK(t), Database!Holds(t, u), NEW k \in 0 .. MaxKey, NEW v \in Nat
    PROVE  /\ Database!Holds(Database!With(t, k, Database!Narrowed(v)), Database!With(u, k, v))
           /\ TableOK(Database!With(t, k, Database!Narrowed(v)))
  <1> DEFINE w == Database!With(t, k, Database!Narrowed(v))
             x == Database!With(u, k, v)
  <1>1. /\ w.exists = TRUE /\ DOMAIN w.at = DOMAIN t.at \cup {k}
        /\ \A j \in DOMAIN w.at : w.at[j] = IF j = k THEN Database!Narrowed(v) ELSE t.at[j]
    BY DEF Database!With, Database!Table
  <1>2. /\ x.exists = TRUE /\ DOMAIN x.at = DOMAIN u.at \cup {k}
        /\ \A j \in DOMAIN x.at : x.at[j] = IF j = k THEN v ELSE u.at[j]
    BY DEF Database!With, Database!Table
  <1> HIDE DEF w, x
  <1>3. TableOK(w)
    BY <1>1, Remainder DEF TableOK
  <1>4. Database!Holds(w, x)
    BY <1>1, <1>2, Remainder DEF Database!Holds
  <1> QED
    BY <1>3, <1>4 DEF w, x

LEMMA HoldsWithout ==
    ASSUME NEW t, NEW u, TableOK(t), Database!Holds(t, u), NEW k
    PROVE  /\ Database!Holds(Database!Without(t, k), Database!Without(u, k))
           /\ TableOK(Database!Without(t, k))
  BY DEF Database!Without, Database!Table, Database!Holds, TableOK

LEMMA LoopStays ==
    ASSUME Loops, UNCHANGED <<iter, rows>> \/ Database!Changed \/ iter' = Database!NoIter
    PROVE  Loops'
  <1>1. CASE UNCHANGED <<iter, rows>>
    BY <1>1 DEF Loops, Handed, Before
  <1>2. CASE Database!Changed
    <2>1. iter' = [iter EXCEPT !.clean = FALSE] /\ iter \in Iterators
      BY <1>2 DEF Database!Changed, Loops
    <2>2. iter' \in Iterators /\ iter'.clean = FALSE
      BY <2>1 DEF Iterators
    <2> QED
      BY <2>2 DEF Loops
  <1>3. CASE iter' = Database!NoIter
    <2>1. iter'.code = "none" /\ iter' \in Iterators
      BY <1>3 DEF Database!NoIter, Iterators
    <2> QED
      BY <2>1 DEF Loops
  <1> QED
    BY <1>1, <1>2, <1>3

\* Calls that leave the table alone.
LEMMA SameTableOK ==
    ASSUME SqlInv, plain, batch = Database!Idle, Loops',
           UNCHANGED <<rows, durable, batch, now, told>>
    PROVE  SqlInv'
  BY DEF SqlInv, Known, TableOK, Database!Holds

\* Calls whose statement changes it.
LEMMA WrittenOK ==
    ASSUME SqlInv, plain, batch = Database!Idle, Loops', UNCHANGED <<inTx, batch>>,
           NEW t, NEW u, TableOK(t), Database!Holds(t, u),
           Database!Writes(t), Database!Knows(u)
    PROVE  SqlInv'
  <1>1. /\ rows' = t /\ durable' = IF inTx THEN durable ELSE t
        /\ now' = u /\ told' = IF inTx THEN told ELSE u
    BY DEF Database!Writes, Database!Knows
  <1>2. TableOK(rows') /\ TableOK(durable')
    BY <1>1 DEF SqlInv
  <1>3. Database!Holds(durable', told') /\ Database!Holds(rows', now')
    BY <1>1 DEF SqlInv, Known
  <1> QED
    BY <1>2, <1>3 DEF SqlInv, Known, TableOK, Database!Holds

LEMMA CreateTableOK ==
    ASSUME SqlInv, plain, Database!CreateTable
    PROVE  SqlInv'
  <1>1. batch = Database!Idle /\ UNCHANGED <<inTx, iter, batch, plain>>
    BY DEF Database!CreateTable, Database!Calling
  <1>2. CASE UNCHANGED <<rows, durable, now, told>>
    <2>1. Loops'
      BY <1>1, <1>2, LoopStays DEF SqlInv
    <2> QED
      BY <1>1, <1>2, <2>1, SameTableOK
  <1>3. CASE /\ ~rows.exists
             /\ Database!Writes(Database!Table(<<>>)) /\ Database!Knows(Database!Table(<<>>))
    <2>1. Loops'
      BY <1>1, <1>3 DEF SqlInv, Loops
    <2> QED
      BY <1>1, <1>3, <2>1, WrittenOK, HoldsEmpty
  <1> QED
    BY <1>2, <1>3 DEF Database!CreateTable

LEMMA DropTableOK ==
    ASSUME SqlInv, plain, Database!DropTable
    PROVE  SqlInv'
  <1>1. /\ batch = Database!Idle /\ UNCHANGED <<inTx, batch>>
        /\ Database!Knows(Database!NoTable) /\ Database!Changed
    BY DEF Database!DropTable, Database!Calling
  <1>2. Loops'
    BY <1>1, LoopStays DEF SqlInv
  <1>3. CASE Database!Writes(Database!NoTable)
    BY <1>1, <1>2, <1>3, WrittenOK, HoldsEmpty
  <1>4. CASE plain' = FALSE /\ UNCHANGED <<rows, durable>>
    BY <1>1, <1>2, <1>4 DEF SqlInv, TableOK
  <1> QED
    BY <1>3, <1>4 DEF Database!DropTable

LEMMA InsertRowOK ==
    ASSUME SqlInv, plain, NEW k \in 0 .. MaxKey, NEW v \in Attrs, Database!Insert(k, v)
    PROVE  SqlInv'
  <1>1. batch = Database!Idle /\ Database!Room(k) /\ UNCHANGED <<inTx, batch>>
    BY DEF Database!Insert, Database!Calling
  <1>2. CASE UNCHANGED <<rows, durable, iter, now, told>>
    <2>1. Loops'
      BY <1>2, LoopStays DEF SqlInv
    <2> QED
      BY <1>1, <1>2, <2>1, SameTableOK
  <1>3. CASE /\ Database!Writes(Database!With(rows, Database!Key(rows, k), Database!Narrowed(v)))
             /\ Database!Knows(Database!With(now, Database!Key(rows, k), v))
             /\ Database!Changed
    <2>1. Loops'
      BY <1>3, LoopStays DEF SqlInv
    <2>2. Database!Key(rows, k) \in 0 .. MaxKey /\ v \in Nat
      BY <1>1, KeyOK, SqlAssumption DEF SqlInv
    <2>3. TableOK(rows) /\ Database!Holds(rows, now)
      BY <1>1 DEF SqlInv, Known
    <2> QED
      BY <1>1, <1>3, <2>1, <2>2, <2>3, HoldsWith, WrittenOK
  <1> QED
    BY <1>2, <1>3 DEF Database!Insert

LEMMA RemoveRowOK ==
    ASSUME SqlInv, plain, NEW k, Database!RemoveRow(k)
    PROVE  SqlInv'
  <1>1. batch = Database!Idle /\ UNCHANGED <<inTx, batch>>
    BY DEF Database!RemoveRow, Database!Calling
  <1>2. CASE UNCHANGED <<rows, durable, iter, now, told>>
    <2>1. Loops'
      BY <1>2, LoopStays DEF SqlInv
    <2> QED
      BY <1>1, <1>2, <2>1, SameTableOK
  <1>3. CASE /\ Database!Writes(Database!Without(rows, k))
             /\ Database!Knows(Database!Without(now, k)) /\ Database!Changed
    <2>1. Loops'
      BY <1>3, LoopStays DEF SqlInv
    <2>2. TableOK(rows) /\ Database!Holds(rows, now)
      BY <1>1 DEF SqlInv, Known
    <2> QED
      BY <1>1, <1>3, <2>1, <2>2, HoldsWithout, WrittenOK
  <1> QED
    BY <1>2, <1>3 DEF Database!RemoveRow

\* A range is inserted in a transaction of its own.
LEMMA BeginBatchOK ==
    ASSUME SqlInv, plain, Database!BeginBatch
    PROVE  SqlInv'
  <1>1. PICK b \in Database!SeqOf(RowPairs, MaxBatch) :
           /\ batch = Database!Idle
           /\ batch' = <<b, now>> /\ inTx' = TRUE
           /\ UNCHANGED <<rows, durable, iter, now, told>>
    BY DEF Database!BeginBatch, Database!Calling, RowPairs
  <1>2. b \in Seq(RowPairs)
    BY DEF Database!SeqOf
  <1>3. Loops'
    BY <1>1, LoopStays DEF SqlInv
  <1>4. batch'[2] = now
    BY <1>1
  <1>5. Known'
    BY <1>1, <1>4 DEF SqlInv, Known, Database!Holds
  <1> QED
    BY <1>1, <1>2, <1>3, <1>5 DEF SqlInv, TableOK

LEMMA InsertRangeRowOK ==
    ASSUME SqlInv, plain, Database!InsertRow
    PROVE  SqlInv'
  <1>1. /\ batch # Database!Idle /\ batch[1] # <<>> /\ UNCHANGED <<inTx, now, told>>
        /\ Database!Room(Head(batch[1])[1])
    BY DEF Database!InsertRow, Database!Calling
  <1>2. PICK b \in Seq(RowPairs) : \E t : batch = <<b, t>>
    BY <1>1 DEF SqlInv
  <1>3. PICK t : batch = <<b, t>>
    BY <1>2
  <1> DEFINE k == Head(b)[1]
             v == Head(b)[2]
             key == Database!Key(rows, k)
  <1>4. batch[1] = b /\ batch[2] = t /\ b # <<>>
    BY <1>1, <1>3
  <1>5. Head(b) \in RowPairs /\ Tail(b) \in Seq(RowPairs)
    BY <1>4
  <1>6. k \in 0 .. MaxKey /\ v \in Nat
    BY <1>5, SqlAssumption DEF RowPairs
  <1>7. key \in 0 .. MaxKey
    BY <1>1, <1>4, <1>6, KeyOK DEF SqlInv
  <1>8. CASE batch' = Database!Idle /\ plain' = FALSE /\ UNCHANGED <<rows, durable, iter>>
    <2>1. Loops'
      BY <1>8, LoopStays DEF SqlInv
    <2> QED
      BY <1>8, <2>1 DEF SqlInv, TableOK, Database!Idle
  <1>9. CASE /\ batch' = <<Tail(b), Database!With(t, key, v)>>
             /\ Database!Writes(Database!With(rows, key, Database!Narrowed(v)))
             /\ Database!Changed
    <2>1. Loops'
      BY <1>9, LoopStays DEF SqlInv
    <2>2. TableOK(rows) /\ Database!Holds(rows, t) /\ inTx /\ Database!Holds(durable, told)
      BY <1>1, <1>4 DEF SqlInv, Known
    <2> HIDE DEF k, v, key
    <2>3. /\ Database!Holds(Database!With(rows, key, Database!Narrowed(v)),
                            Database!With(t, key, v))
          /\ TableOK(Database!With(rows, key, Database!Narrowed(v)))
      BY <1>6, <1>7, <2>2, HoldsWith
    <2>4. rows' = Database!With(rows, key, Database!Narrowed(v)) /\ durable' = durable
      BY <1>9, <2>2 DEF Database!Writes
    <2>5. batch' # Database!Idle /\ batch'[2] = Database!With(t, key, v)
      BY <1>9 DEF Database!Idle
    <2>6. Database!Holds(rows', batch'[2]) /\ TableOK(rows')
      BY <2>3, <2>4, <2>5
    <2>7. Known'
      BY <1>1, <2>2, <2>4, <2>5, <2>6 DEF Known, Database!Holds
    <2>8. \E c \in Seq(RowPairs) : \E u : batch' = <<c, u>>
      BY <1>5, <1>9
    <2>9. TableOK(rows)' /\ TableOK(durable)'
      BY <2>4, <2>6 DEF SqlInv, TableOK
    <2> QED
      BY <2>1, <2>7, <2>8, <2>9 DEF SqlInv
  <1>10. \/ batch' = Database!Idle /\ plain' = FALSE /\ UNCHANGED <<rows, durable, iter>>
         \/ /\ batch' = <<Tail(b), Database!With(t, key, v)>>
            /\ Database!Writes(Database!With(rows, key, Database!Narrowed(v)))
            /\ Database!Changed
    BY <1>4 DEF Database!InsertRow
  <1> QED
    BY <1>8, <1>9, <1>10

LEMMA CommitBatchOK ==
    ASSUME SqlInv, plain, Database!CommitBatch
    PROVE  SqlInv'
  <1>1. /\ batch # Database!Idle /\ batch' = Database!Idle
        /\ Database!Commits /\ now' = batch[2] /\ told' = batch[2]
        /\ plain' = (plain /\ others = "nothing") /\ UNCHANGED <<rows, iter>>
    BY DEF Database!CommitBatch, Database!Calling
  <1>2. Loops'
    BY <1>1, LoopStays DEF SqlInv
  <1>3. Database!Holds(rows, batch[2])
    BY <1>1 DEF SqlInv, Known
  <1>4. TableOK(rows') /\ TableOK(durable')
    BY <1>1 DEF SqlInv, Database!Commits
  <1>5. plain' => durable' = rows
    BY <1>1 DEF Database!Commits
  <1>6. plain' => Database!Holds(durable', told') /\ Database!Holds(rows', now')
    BY <1>1, <1>3, <1>5
  <1> QED
    BY <1>1, <1>2, <1>4, <1>6 DEF SqlInv, Known, TableOK, Database!Holds

LEMMA EndTransactionOK ==
    ASSUME SqlInv, plain, Database!EndTransaction
    PROVE  SqlInv'
  <1>1. /\ batch = Database!Idle /\ Database!Commits /\ told' = now
        /\ plain' = (plain /\ others = "nothing") /\ UNCHANGED <<rows, iter, batch, now>>
    BY DEF Database!EndTransaction, Database!Calling
  <1>2. Loops'
    BY <1>1, LoopStays DEF SqlInv
  <1>3. Database!Holds(rows, now)
    BY <1>1 DEF SqlInv, Known
  <1>4. TableOK(rows') /\ TableOK(durable')
    BY <1>1 DEF SqlInv, Database!Commits
  <1>5. plain' => durable' = rows
    BY <1>1 DEF Database!Commits
  <1>6. plain' => Database!Holds(durable', told') /\ Database!Holds(rows', now')
    BY <1>1, <1>3, <1>5
  <1> QED
    BY <1>1, <1>2, <1>4, <1>6 DEF SqlInv, Known, TableOK, Database!Holds

\* The connection starts again from the file.
LEMMA ReopenOK ==
    ASSUME SqlInv, plain, Database!Reopen \/ Database!Restart
    PROVE  SqlInv'
  <1>1. /\ rows' = durable /\ now' = told /\ batch' = Database!Idle
        /\ iter' = Database!NoIter /\ UNCHANGED <<durable, told, plain>>
    BY DEF Database!Reopen, Database!Restart, Database!Calling
  <1>2. Loops'
    BY <1>1, LoopStays DEF SqlInv
  <1> QED
    BY <1>1, <1>2 DEF SqlInv, Known, TableOK, Database!Holds

\* One more row, behind those that have been handed out.
LEMMA HandedMore ==
    ASSUME NEW h \in Seq(Nat \X Nat), NEW t, NEW K, Handed(h, t, K),
           NEW k \in Nat, \A j \in K : j \in Nat /\ j < k
    PROVE  Handed(Append(h, <<k, t.at[k]>>), t, K \cup {k})
  <1> DEFINE g == Append(h, <<k, t.at[k]>>)
  <1>1. /\ Len(h) \in Nat /\ DOMAIN h = 1..Len(h) /\ DOMAIN g = 1..(Len(h) + 1)
        /\ \A i \in 1..Len(h) : g[i] = h[i]
        /\ g[Len(h) + 1] = <<k, t.at[k]>>
    OBVIOUS
  <1> HIDE DEF g
  <1>2. \A i \in DOMAIN g : \/ i \in DOMAIN h /\ g[i] = h[i] /\ i # Len(h) + 1
                            \/ i = Len(h) + 1 /\ g[i] = <<k, t.at[k]>>
    BY <1>1
  <1>3. \A i \in DOMAIN g : g[i][1] \in K \cup {k} /\ g[i] = <<g[i][1], t.at[g[i][1]]>>
    BY <1>2 DEF Handed
  <1>4. \A j \in K \cup {k} : \E i \in DOMAIN g : g[i] = <<j, t.at[j]>>
    <2>1. \A i \in DOMAIN h : i \in DOMAIN g /\ g[i] = h[i]
      BY <1>1
    <2>2. Len(h) + 1 \in DOMAIN g
      BY <1>1
    <2> QED
      BY <1>1, <2>1, <2>2 DEF Handed
  <1>5. ASSUME NEW i \in DOMAIN g, NEW j \in DOMAIN g, i < j PROVE g[i][1] < g[j][1]
    <2>1. i \in DOMAIN h /\ g[i] = h[i]
      BY <1>1, <1>2, <1>5
    <2>2. CASE j \in DOMAIN h
      BY <1>1, <1>5, <2>1, <2>2 DEF Handed
    <2>3. CASE j = Len(h) + 1
      <3>1. g[j][1] = k /\ h[i][1] \in K
        BY <1>1, <2>1, <2>3 DEF Handed
      <3> QED
        BY <2>1, <3>1
    <2> QED
      BY <1>2, <2>2, <2>3
  <1> QED
    BY <1>3, <1>4, <1>5 DEF Handed, g

LEMMA StandsOnOK ==
    ASSUME TableOK(rows), NEW i \in Iterators, NEW keys, keys \subseteq DOMAIN rows.at,
           i.clean => /\ rows.exists
                      /\ Handed(i.handed, rows, DOMAIN rows.at \ keys)
                      /\ \A j \in DOMAIN rows.at \ keys : \A k \in keys : j < k,
           iter' = Database!StandsOn(i, keys), UNCHANGED rows
    PROVE  Loops'
  <1>1. \A k \in DOMAIN rows.at : k \in Nat /\ rows.at[k] \in Nat
    BY DEF TableOK
  <1>2. CASE keys = {}
    <2>1. iter' = [i EXCEPT !.code = "done"]
      BY <1>2 DEF Database!StandsOn
    <2>2. /\ iter' \in Iterators /\ iter'.code = "done" /\ iter'.clean = i.clean
          /\ iter'.handed = i.handed
      BY <2>1 DEF Iterators
    <2>3. Before(iter', rows) = DOMAIN rows.at /\ DOMAIN rows.at \ keys = DOMAIN rows.at
      BY <1>2, <2>2 DEF Before
    <2>4. i.clean => rows.exists /\ Handed(iter'.handed, rows, Before(iter', rows))
      BY <2>2, <2>3
    <2> QED
      BY <2>2, <2>4 DEF Loops, Handed, Before
  <1>3. CASE keys # {}
    <2> DEFINE n == Database!Min(keys)
               h == Append(i.handed, <<n, rows.at[n]>>)
    <2>1. n \in keys /\ \A k \in keys : n <= k
      <3>1. keys \in SUBSET Nat
        BY <1>1
      <3> QED
        BY <1>3, <3>1, MinIs
    <2>2. iter' = [i EXCEPT !.code = "row", !.handed = h]
      BY <1>3 DEF Database!StandsOn
    <2> HIDE DEF n
    <2>3. n \in Nat /\ n \in DOMAIN rows.at /\ <<n, rows.at[n]>> \in Nat \X Nat
      BY <1>1, <2>1
    <2>4. i.handed \in Seq(Nat \X Nat)
      BY DEF Iterators
    <2>5. /\ h \in Seq(Nat \X Nat) /\ h # <<>> /\ h[Len(h)] = <<n, rows.at[n]>>
      BY <2>3, <2>4, SMTT(30)
    <2> HIDE DEF h
    <2>6. /\ iter' \in Iterators /\ iter'.code = "row" /\ iter'.clean = i.clean
          /\ iter'.handed = h
      BY <2>2, <2>5 DEF Iterators
    <2>7. Before(iter', rows) = {k \in DOMAIN rows.at : k <= n}
      BY <2>5, <2>6 DEF Before
    <2>8. ASSUME i.clean PROVE Handed(h, rows, Before(iter', rows))
      <3>1. \A j \in DOMAIN rows.at \ keys : j \in Nat /\ j < n
        BY <1>1, <2>1, <2>8
      <3>2. Handed(h, rows, (DOMAIN rows.at \ keys) \cup {n})
        BY <2>3, <2>4, <2>8, <3>1, HandedMore DEF h
      <3>3. {k \in DOMAIN rows.at : k <= n} = (DOMAIN rows.at \ keys) \cup {n}
        BY <1>1, <2>1, <2>3, <3>1
      <3> QED
        BY <2>7, <3>2, <3>3
    <2> QED
      BY <2>5, <2>6, <2>8 DEF Loops, Handed, Before
  <1> QED
    BY <1>2, <1>3

LEMMA SelectOK ==
    ASSUME SqlInv, plain, Database!Select
    PROVE  SqlInv'
  <1> DEFINE i == [Database!NoIter EXCEPT !.live = DOMAIN rows.at # {}]
  <1>1. /\ batch = Database!Idle /\ rows.exists /\ iter' = Database!StandsOn(i, DOMAIN rows.at)
        /\ UNCHANGED <<rows, durable, batch, now, told>>
    BY DEF Database!Select, Database!Calling
  <1>2. i \in Iterators /\ i.handed = <<>>
    <2>1. Database!NoIter \in Iterators /\ Database!NoIter.handed = <<>>
      BY DEF Database!NoIter, Iterators
    <2>2. \A j \in Iterators : \A x \in BOOLEAN :
             [j EXCEPT !.live = x] \in Iterators /\ [j EXCEPT !.live = x].handed = j.handed
      BY DEF Iterators
    <2>3. (DOMAIN rows.at # {}) \in BOOLEAN
      OBVIOUS
    <2> QED
      BY <2>1, <2>2, <2>3, Zenon
  <1> HIDE DEF i
  <1>3. Handed(i.handed, rows, {})
    BY <1>2 DEF Handed
  <1>4. DOMAIN rows.at \ DOMAIN rows.at = {}
    OBVIOUS
  <1>5. Loops'
    BY <1>1, <1>2, <1>3, <1>4, StandsOnOK DEF SqlInv
  <1> QED
    BY <1>1, <1>5, SameTableOK

LEMMA NextRowOK ==
    ASSUME SqlInv, plain, Database!NextRow
    PROVE  SqlInv'
  <1> DEFINE final == iter.handed[Len(iter.handed)][1]
             keys == {k \in DOMAIN rows.at : k > final}
  <1>1. /\ batch = Database!Idle /\ iter.code = "row" /\ iter' = Database!StandsOn(iter, keys)
        /\ UNCHANGED <<rows, durable, batch, now, told>>
    BY DEF Database!NextRow, Database!Calling, Database!Last
  <1>2. iter \in Iterators /\ TableOK(rows)
    BY DEF SqlInv, Loops
  <1>3. ASSUME iter.clean
        PROVE  /\ rows.exists
               /\ Handed(iter.handed, rows, DOMAIN rows.at \ keys)
               /\ \A j \in DOMAIN rows.at \ keys : \A k \in keys : j < k
    <2>1. /\ rows.exists /\ iter.handed # <<>>
          /\ Handed(iter.handed, rows, Before(iter, rows))
      BY <1>1, <1>3 DEF SqlInv, Loops
    <2>2. final \in Nat
      <3>1. iter.handed \in Seq(Nat \X Nat) /\ Len(iter.handed) \in DOMAIN iter.handed
        BY <1>2, <2>1 DEF Iterators
      <3>2. iter.handed[Len(iter.handed)] \in Nat \X Nat
        BY <3>1, ElementOfSeq
      <3> QED
        BY <3>2
    <2>3. \A k \in DOMAIN rows.at : k \in Nat
      BY <1>2 DEF TableOK
    <2> HIDE DEF final
    <2>4. Before(iter, rows) = DOMAIN rows.at \ keys
      BY <1>1, <2>2, <2>3, SMTT(30) DEF Before, final
    <2>5. \A j \in DOMAIN rows.at \ keys : \A k \in keys : j < k
      BY <2>2, <2>3
    <2> QED
      BY <2>1, <2>4, <2>5
  <1>4. keys \subseteq DOMAIN rows.at
    OBVIOUS
  <1> HIDE DEF keys
  <1>5. Loops'
    BY <1>1, <1>2, <1>3, <1>4, StandsOnOK
  <1> QED
    BY <1>1, <1>5, SameTableOK

LEMMA SqlNextOK ==
    ASSUME SqlInv, Database!SqlNext
    PROVE  SqlInv'
  <1>1. plain
    BY DEF Database!SqlNext
  <1>2. CASE \E k \in 0 .. MaxKey : \/ Database!RemoveRow(k)
                                     \/ \E v \in Attrs : Database!Insert(k, v)
    BY <1>1, <1>2, RemoveRowOK, InsertRowOK
  <1>3. CASE Database!BeginTransaction
    <2>1. batch = Database!Idle /\ UNCHANGED <<rows, durable, iter, batch, now, told>>
      BY <1>3 DEF Database!BeginTransaction, Database!Calling
    <2>2. Loops'
      BY <2>1, LoopStays DEF SqlInv
    <2> QED
      BY <1>1, <2>1, <2>2, SameTableOK
  <1>4. CASE Database!Abandon
    <2>1. /\ batch = Database!Idle /\ iter' = Database!NoIter
          /\ UNCHANGED <<rows, durable, batch, now, told>>
      BY <1>4 DEF Database!Abandon, Database!Calling
    <2>2. Loops'
      BY <2>1, LoopStays DEF SqlInv
    <2> QED
      BY <1>1, <2>1, <2>2, SameTableOK
  <1> QED
    BY <1>1, <1>2, <1>3, <1>4, CreateTableOK, DropTableOK, BeginBatchOK, InsertRangeRowOK,
       CommitBatchOK, EndTransactionOK, SelectOK, NextRowOK, ReopenOK DEF Database!SqlNext

LEMMA SqlStep ==
    ASSUME SequentialNext, IsSqlite
    PROVE  Database!SqlNext /\ UNCHANGED part
  <1>1. UNCHANGED part /\ part = "Sqlite"
    BY DEF SequentialNext, IsSqlite
  <1> QED
    BY <1>1 DEF SequentialNext, ContainersNext, IsFector, IsFap, IsCache, IsCombinations,
                IsBllocator, IsBits, IsSqlite, IsClient

LEMMA SqlStarts ==
    ASSUME SequentialInit, IsSqlite
    PROVE  Database!SqlInit
  <1>1. part = "Sqlite"
    BY DEF IsSqlite
  <1> QED
    BY <1>1 DEF SequentialInit, ContainersInit, IsFector, IsFap, IsCache, IsCombinations,
                IsBllocator, IsBits, IsSqlite, IsClient

LEMMA SqlInvariant == SequentialSpec => [](IsSqlite => SqlInv)
  <1> DEFINE Inv == IsSqlite => SqlInv
  <1>1. SequentialInit => Inv
    <2> SUFFICES ASSUME SequentialInit, IsSqlite PROVE SqlInv
      OBVIOUS
    <2>1. /\ rows = Database!NoTable /\ durable = Database!NoTable
          /\ now = Database!NoTable /\ told = Database!NoTable
          /\ iter = Database!NoIter /\ batch = Database!Idle
      BY SqlStarts DEF Database!SqlInit
    <2>2. Loops
      BY <2>1 DEF Loops, Database!NoIter, Iterators
    <2> QED
      BY <2>1, <2>2, HoldsEmpty DEF SqlInv, Known
  <1>2. Inv /\ [SequentialNext]_sequentialVars => Inv'
    <2> SUFFICES ASSUME Inv, [SequentialNext]_sequentialVars, IsSqlite' PROVE SqlInv'
      BY DEF IsSqlite
    <2>1. UNCHANGED part /\ IsSqlite
      BY DEF SequentialNext, sequentialVars, IsSqlite
    <2>2. CASE SequentialNext
      BY <2>1, <2>2, SqlStep, SqlNextOK
    <2>3. CASE UNCHANGED sequentialVars
      <3>1. UNCHANGED <<rows, durable, inTx, iter, batch, now, told, plain>>
        BY <2>3 DEF sequentialVars, sqlVars
      <3> QED
        BY <2>1, <3>1 DEF SqlInv, Known, TableOK, Database!Holds, Loops, Handed, Before
    <2> QED
      BY <2>2, <2>3
  <1> QED
    BY <1>1, <1>2, PTL DEF SequentialSpec

\* What the calls that have returned made of a table is what there is, in the
\* connection and, once a transaction has ended, in the file, also after a
\* restart at any step (sweetqlimpl/sqliteimpl.hpp 167-310).
THEOREM CommittedIsKept == SequentialSpec => []RowsAreKept
  <1>1. (IsSqlite => SqlInv) => RowsAreKept
    BY DEF RowsAreKept, SqlInv, Known, Database!RowsAreKept, Database!Calling
  <1> QED
    BY <1>1, SqlInvariant, PTL

\* A loop over a table that nobody changes meanwhile is handed every row once, in
\* the order of the keys (sweetqlimpl/sqliteimpl.hpp 22-33, 78-91).
THEOREM LoopsAreComplete == SequentialSpec => []EveryRowIsHandedOut
  <1>1. ASSUME SqlInv PROVE Database!EveryRowIsHandedOut
    <2> SUFFICES ASSUME iter.clean, iter.code # "none"
                 PROVE  LET h == iter.handed
                            before == {k \in DOMAIN rows.at : \/ iter.code = "done"
                                                              \/ k <= Database!Last(h)[1]}
                        IN /\ \A i, j \in DOMAIN h : i < j => h[i][1] < h[j][1]
                           /\ Database!Range(h) = {<<k, rows.at[k]>> : k \in before}
      BY DEF Database!EveryRowIsHandedOut
    <2>1. Handed(iter.handed, rows, Before(iter, rows))
      BY <1>1 DEF SqlInv, Loops
    <2>2. Database!Range(iter.handed) = {iter.handed[i] : i \in DOMAIN iter.handed}
      BY DEF Database!Range
    <2>3. Database!Range(iter.handed) = {<<k, rows.at[k]>> : k \in Before(iter, rows)}
      <3>1. \A i \in DOMAIN iter.handed :
               iter.handed[i] \in {<<k, rows.at[k]>> : k \in Before(iter, rows)}
        BY <2>1 DEF Handed
      <3>2. \A k \in Before(iter, rows) : <<k, rows.at[k]>> \in Database!Range(iter.handed)
        BY <2>1, <2>2 DEF Handed
      <3> QED
        BY <2>2, <3>1, <3>2
    <2> QED
      BY <2>1, <2>3 DEF Handed, Before, Database!Last
  <1>2. (IsSqlite => SqlInv) => EveryRowIsHandedOut
    BY <1>1 DEF EveryRowIsHandedOut
  <1> QED
    BY <1>2, SqlInvariant, PTL
-----------------------------------------------------------------------------
(***************************************************************************)
(* Combinations                                                            *)
(***************************************************************************)
\* The combinations of r of the numbers 0..n-1, and which of two comes earlier.
Rising(c, r) == \A i, j \in 1..r : i < j => c[i] < c[j]
Chosen(n, r) == {c \in [1..r -> 0..(n - 1)] : Rising(c, r)}
Differ(c, d, i) == c[i] # d[i] /\ \A j \in 1..(i - 1) : c[j] = d[j]
Earlier(c, d, r) == \E i \in 1..r : c[i] < d[i] /\ \A j \in 1..(i - 1) : c[j] = d[j]

LEMMA FirstDifference ==
    ASSUME NEW r \in Nat, NEW c \in [1..r -> Nat], NEW d \in [1..r -> Nat], c # d
    PROVE  \E i \in 1..r : Differ(c, d, i)
  <1> DEFINE T == {i \in 1..r : c[i] # d[i]}
  <1>1. T \in SUBSET Nat /\ T # {}
    BY SMTT(30)
  <1>2. PICK i \in T : \A j \in T : i <= j
    BY <1>1, Least
  <1>3. i \in 1..r /\ c[i] # d[i] /\ i \in Nat
    OBVIOUS
  <1>4. ASSUME NEW j \in 1..(i - 1) PROVE c[j] = d[j]
    <2>1. j \in 1..r /\ ~(i <= j)
      BY <1>3
    <2>2. j \notin T
      BY <1>2, <2>1
    <2> QED
      BY <2>1, <2>2
  <1> QED
    BY <1>3, <1>4 DEF Differ

LEMMA EarlierIs ==
    ASSUME NEW r \in Nat, NEW c \in [1..r -> Nat], NEW d \in [1..r -> Nat]
    PROVE  /\ c = d \/ Earlier(c, d, r) \/ Earlier(d, c, r)
           /\ ~(Earlier(c, d, r) /\ Earlier(d, c, r))
           /\ ~Earlier(c, c, r)
  <1>1. c = d \/ Earlier(c, d, r) \/ Earlier(d, c, r)
    <2> SUFFICES ASSUME c # d PROVE Earlier(c, d, r) \/ Earlier(d, c, r)
      OBVIOUS
    <2>1. PICK i \in 1..r : Differ(c, d, i)
      BY FirstDifference
    <2>2. c[i] \in Nat /\ d[i] \in Nat /\ c[i] # d[i]
          /\ \A j \in 1..(i - 1) : c[j] = d[j] /\ d[j] = c[j]
      BY <2>1 DEF Differ
    <2>3. c[i] < d[i] \/ d[i] < c[i]
      BY <2>2
    <2> QED
      BY <2>2, <2>3 DEF Earlier
  <1>2. ASSUME Earlier(c, d, r), Earlier(d, c, r) PROVE FALSE
    <2>1. PICK i \in 1..r : c[i] < d[i] /\ \A k \in 1..(i - 1) : c[k] = d[k]
      BY <1>2 DEF Earlier
    <2>2. PICK j \in 1..r : d[j] < c[j] /\ \A k \in 1..(j - 1) : d[k] = c[k]
      BY <1>2 DEF Earlier
    <2>3. c[i] \in Nat /\ d[i] \in Nat /\ c[j] \in Nat /\ d[j] \in Nat /\ i \in Nat /\ j \in Nat
      OBVIOUS
    <2>4. ~(i < j) /\ ~(j < i)
      <3>1. i < j => i \in 1..(j - 1)
        BY <2>3
      <3>2. j < i => j \in 1..(i - 1)
        BY <2>3
      <3> QED
        BY <2>1, <2>2, <2>3, <3>1, <3>2
    <2>5. i = j
      BY <2>3, <2>4
    <2> QED
      BY <2>1, <2>2, <2>3, <2>5
  <1>3. ~Earlier(c, c, r)
    <2> SUFFICES ASSUME NEW i \in 1..r, c[i] < c[i] PROVE FALSE
      BY DEF Earlier
    <2>1. c[i] \in Nat
      OBVIOUS
    <2> QED
      BY <2>1
  <1> QED
    BY <1>1, <1>2, <1>3

LEMMA EarlierTrans ==
    ASSUME NEW r \in Nat, NEW c \in [1..r -> Nat], NEW d \in [1..r -> Nat],
           NEW e \in [1..r -> Nat], Earlier(c, d, r), Earlier(d, e, r)
    PROVE  Earlier(c, e, r)
  <1>1. PICK i \in 1..r : c[i] < d[i] /\ \A k \in 1..(i - 1) : c[k] = d[k]
    BY DEF Earlier
  <1>2. PICK j \in 1..r : d[j] < e[j] /\ \A k \in 1..(j - 1) : d[k] = e[k]
    BY DEF Earlier
  <1>3. /\ c[i] \in Nat /\ d[i] \in Nat /\ c[j] \in Nat /\ d[j] \in Nat /\ e[i] \in Nat
        /\ e[j] \in Nat /\ i \in Nat /\ j \in Nat
    OBVIOUS
  <1>4. CASE i <= j
    <2>1. c[i] < e[i]
      <3>1. i = j \/ i \in 1..(j - 1)
        BY <1>3, <1>4
      <3> QED
        BY <1>1, <1>2, <1>3, <3>1
    <2>2. \A k \in 1..(i - 1) : c[k] = e[k]
      <3>1. \A k \in 1..(i - 1) : k \in 1..(j - 1)
        BY <1>3, <1>4
      <3> QED
        BY <1>1, <1>2, <3>1
    <2> QED
      BY <2>1, <2>2 DEF Earlier
  <1>5. CASE j < i
    <2>1. c[j] < e[j]
      <3>1. j \in 1..(i - 1)
        BY <1>3, <1>5
      <3> QED
        BY <1>1, <1>2, <1>3, <3>1
    <2>2. \A k \in 1..(j - 1) : c[k] = e[k]
      <3>1. \A k \in 1..(j - 1) : k \in 1..(i - 1)
        BY <1>3, <1>5
      <3> QED
        BY <1>1, <1>2, <3>1
    <2> QED
      BY <2>1, <2>2 DEF Earlier
  <1> QED
    BY <1>3, <1>4, <1>5

\* Rising numbers are as far apart as their places, at least.
LEMMA Gap ==
    ASSUME NEW r \in Nat, NEW c \in [1..r -> Nat], Rising(c, r),
           NEW i \in 1..r, NEW j \in 1..r, i <= j
    PROVE  c[i] + (j - i) <= c[j]
  <1> DEFINE T == {k \in Nat : i + k \in 1..r /\ ~(c[i] + k <= c[i + k])}
  <1>1. T = {}
    <2> SUFFICES ASSUME T # {} PROVE FALSE
      OBVIOUS
    <2>1. T \in SUBSET Nat
      OBVIOUS
    <2>2. PICK k \in T : \A m \in T : k <= m
      BY <2>1, Least
    <2>3. k \in Nat /\ i + k \in 1..r /\ ~(c[i] + k <= c[i + k]) /\ c[i] \in Nat /\ c[i + k] \in Nat
          /\ i \in Nat
      OBVIOUS
    <2>4. k # 0
      <3>1. k = 0 => i + k = i /\ c[i] + k = c[i]
        BY <2>3
      <3> QED
        BY <2>3, <3>1
    <2>5. k - 1 \in Nat /\ i + (k - 1) \in 1..r /\ i + (k - 1) < i + k /\ ~(k <= k - 1)
      BY <2>3, <2>4
    <2>6. k - 1 \notin T
      BY <2>2, <2>5
    <2>7. c[i] + (k - 1) <= c[i + (k - 1)] /\ c[i + (k - 1)] < c[i + k] /\ c[i + (k - 1)] \in Nat
      BY <2>3, <2>5, <2>6 DEF Rising
    <2> QED
      BY <2>3, <2>5, <2>7
  <1>2. j - i \in Nat /\ i + (j - i) = j
    OBVIOUS
  <1>3. j - i \notin T
    BY <1>1
  <1> HIDE DEF T
  <1>4. c[i] + (j - i) <= c[i + (j - i)]
    BY <1>2, <1>3 DEF T
  <1> QED
    BY <1>2, <1>4

LEMMA ChosenAre ==
    ASSUME NEW n \in Nat, NEW r \in Nat, NEW c \in Chosen(n, r)
    PROVE  /\ c \in [1..r -> Nat] /\ c \in [1..r -> 0..(n - 1)] /\ Rising(c, r)
           /\ \A i \in 1..r : i - 1 <= c[i] /\ c[i] <= n - r + (i - 1)
  <1>1. c \in [1..r -> 0..(n - 1)] /\ Rising(c, r)
    BY DEF Chosen
  <1>2. c \in [1..r -> Nat]
    BY <1>1
  <1>3. ASSUME NEW i \in 1..r PROVE i - 1 <= c[i] /\ c[i] <= n - r + (i - 1)
    <2>1. i \in Nat /\ 1 \in 1..r /\ r \in 1..r /\ 1 <= i /\ i <= r
      OBVIOUS
    <2>2. c[1] + (i - 1) <= c[i] /\ c[i] + (r - i) <= c[r]
      BY <1>1, <1>2, <2>1, Gap
    <2>3. c[1] \in Nat /\ c[i] \in Nat /\ c[r] \in Nat /\ c[r] <= n - 1
      BY <1>1, <2>1
    <2> QED
      BY <2>1, <2>2, <2>3
  <1> QED
    BY <1>1, <1>2, <1>3

\* Which combinations come before the next one: those that come before this one,
\* and this one.  All numbers behind m are as large as they can be; the one at m
\* grows by one and those behind follow it.
LEMMA Successor ==
    ASSUME NEW n \in Nat, NEW r \in Nat, NEW c \in Chosen(n, r), NEW d \in [1..r -> Nat],
           NEW m \in 1..r, c[m] < n - r + (m - 1),
           \A i \in 1..r : i > m => c[i] = n - r + (i - 1),
           \A i \in 1..r : d[i] = IF i < m THEN c[i] ELSE c[m] + 1 + (i - m)
    PROVE  /\ d \in Chosen(n, r)
           /\ Earlier(c, d, r)
           /\ \A e \in Chosen(n, r) : Earlier(e, d, r) <=> e = c \/ Earlier(e, c, r)
  <1>1. /\ c \in [1..r -> Nat] /\ c \in [1..r -> 0..(n - 1)] /\ Rising(c, r)
        /\ m \in Nat /\ c[m] \in Nat
    <2>1. c \in [1..r -> Nat] /\ c \in [1..r -> 0..(n - 1)] /\ Rising(c, r)
      BY ChosenAre, Zenon
    <2> QED
      BY <2>1
  <1>2. d \in Chosen(n, r)
    <2>1. ASSUME NEW i \in 1..r PROVE d[i] \in 0..(n - 1)
      <3>1. c[i] \in 0..(n - 1) /\ d[i] \in Nat /\ i \in Nat
        BY <1>1
      <3>2. CASE i < m
        BY <3>1, <3>2
      <3>3. CASE ~(i < m)
        <4>1. d[i] = c[m] + 1 + (i - m)
          BY <3>3
        <4> QED
          BY <1>1, <3>1, <3>3, <4>1
      <3> QED
        BY <3>2, <3>3
    <2>2. ASSUME NEW i \in 1..r, NEW j \in 1..r, i < j PROVE d[i] < d[j]
      <3>1. i \in Nat /\ j \in Nat /\ c[i] \in Nat /\ c[j] \in Nat
        BY <1>1
      <3>2. CASE j < m
        <4>1. d[i] = c[i] /\ d[j] = c[j]
          BY <2>2, <3>1, <3>2
        <4> QED
          BY <1>1, <2>2, <4>1 DEF Rising
      <3>3. CASE i < m /\ ~(j < m)
        <4>1. d[i] = c[i] /\ d[j] = c[m] + 1 + (j - m) /\ c[i] < c[m]
          BY <1>1, <3>1, <3>3 DEF Rising
        <4> QED
          BY <1>1, <3>1, <3>3, <4>1, SMTT(30)
      <3>4. CASE ~(i < m)
        <4>1. d[i] = c[m] + 1 + (i - m) /\ d[j] = c[m] + 1 + (j - m)
          BY <1>1, <2>2, <3>1, <3>4
        <4> QED
          BY <1>1, <2>2, <3>1, <4>1
      <3> QED
        BY <2>2, <3>1, <3>2, <3>3, <3>4
    <2>3. d \in [1..r -> 0..(n - 1)]
      BY <2>1
    <2> QED
      BY <2>2, <2>3 DEF Chosen, Rising
  <1>3. Earlier(c, d, r)
    <2>1. d[m] = c[m] + 1 + (m - m) /\ \A j \in 1..(m - 1) : j \in 1..r /\ j < m
      BY <1>1
    <2>2. c[m] < d[m] /\ \A j \in 1..(m - 1) : c[j] = d[j]
      BY <1>1, <2>1
    <2> QED
      BY <2>2 DEF Earlier
  <1>4. ASSUME NEW e \in Chosen(n, r), Earlier(e, d, r) PROVE e = c \/ Earlier(e, c, r)
    <2>1. e \in [1..r -> Nat] /\ Rising(e, r)
      BY ChosenAre
    <2> SUFFICES ASSUME Earlier(c, e, r) PROVE FALSE
      BY <1>1, <2>1, EarlierIs
    <2>2. ~Earlier(d, e, r)
      BY <1>4, <2>1, EarlierIs
    <2>3. PICK i \in 1..r : c[i] < e[i] /\ \A j \in 1..(i - 1) : c[j] = e[j]
      BY DEF Earlier
    <2>4. c[i] \in Nat /\ e[i] \in Nat /\ e[i] <= n - r + (i - 1) /\ i \in Nat
      <3>1. e[i] <= n - r + (i - 1)
        BY ChosenAre, Zenon
      <3> QED
        BY <1>1, <2>1, <3>1
    <2>5. i <= m
      <3>1. ~(i > m)
        BY <2>3, <2>4, SMTT(30)
      <3> QED
        BY <1>1, <2>4, <3>1
    <2>6. \A j \in 1..(i - 1) : d[j] = e[j]
      <3>1. \A j \in 1..(i - 1) : j \in 1..r /\ j < m
        BY <1>1, <2>4, <2>5
      <3> QED
        BY <2>3, <3>1
    <2>7. ~(d[i] < e[i])
      BY <2>2, <2>6 DEF Earlier
    <2>8. i = m
      <3>1. i < m => d[i] = c[i]
        OBVIOUS
      <3> QED
        BY <1>1, <2>3, <2>4, <2>5, <2>7, <3>1
    <2>9. d[m] = c[m] + 1 /\ e[m] = d[m] /\ e[m] \in Nat
      <3>1. d[m] = c[m] + 1 + (m - m)
        BY <1>1
      <3>2. d[m] = c[m] + 1
        BY <1>1, <3>1
      <3>3. c[m] < e[m] /\ ~(d[m] < e[m]) /\ e[m] \in Nat
        BY <2>3, <2>4, <2>7, <2>8
      <3> QED
        BY <1>1, <3>2, <3>3
    <2>10. PICK k \in 1..r : e[k] < d[k] /\ \A j \in 1..(k - 1) : e[j] = d[j]
      BY <1>4 DEF Earlier
    <2>11. e[k] \in Nat /\ d[k] \in Nat /\ k \in Nat
      BY <2>1
    <2>12. k > m
      <3>1. k < m => k \in 1..(i - 1)
        BY <1>1, <2>8, <2>11
      <3>2. k # m
        BY <2>9, <2>10, <2>11
      <3>3. ~(k < m)
        BY <2>6, <2>10, <2>11, <3>1
      <3> QED
        BY <1>1, <2>11, <3>2, <3>3
    <2>13. e[m] + (k - m) <= e[k]
      <3>1. m <= k
        BY <1>1, <2>11, <2>12
      <3> QED
        BY <2>1, <3>1, Gap
    <2>14. d[k] = c[m] + 1 + (k - m) /\ k - m \in Nat
      BY <1>1, <2>11, <2>12
    <2>15. (c[m] + 1) + (k - m) <= e[k]
      BY <2>9, <2>13
    <2>16. e[k] < (c[m] + 1) + (k - m)
      BY <2>10, <2>14
    <2> QED
      <3>1. PICK a \in Nat : a = (c[m] + 1) + (k - m)
        BY <1>1, <2>14
      <3>2. PICK b \in Nat : b = e[k]
        BY <2>11
      <3> QED
        BY <2>15, <2>16, <3>1, <3>2
  <1>5. ASSUME NEW e \in Chosen(n, r), e = c \/ Earlier(e, c, r) PROVE Earlier(e, d, r)
    <2>1. e \in [1..r -> Nat]
      BY ChosenAre
    <2> QED
      BY <1>1, <1>3, <1>5, <2>1, EarlierTrans
  <1> QED
    BY <1>2, <1>3, <1>4, <1>5

\* The combination none of whose numbers can grow is the last, and the first is
\* made of the first numbers.
LEMMA LastChosen ==
    ASSUME NEW n \in Nat, NEW r \in Nat, NEW c \in Chosen(n, r),
           \A i \in 1..r : c[i] = n - r + (i - 1),
           NEW e \in Chosen(n, r)
    PROVE  e = c \/ Earlier(e, c, r)
  <1>1. c \in [1..r -> Nat] /\ e \in [1..r -> Nat]
    BY ChosenAre
  <1> SUFFICES ASSUME Earlier(c, e, r) PROVE FALSE
    BY <1>1, EarlierIs
  <1>2. PICK i \in 1..r : c[i] < e[i]
    BY DEF Earlier
  <1>3. e[i] <= n - r + (i - 1) /\ e[i] \in Nat /\ c[i] \in Nat
    BY <1>1, ChosenAre
  <1> QED
    BY <1>2, <1>3

LEMMA FirstChosen ==
    ASSUME NEW n \in Nat, NEW r \in Nat, r <= n, NEW c \in [1..r -> Nat],
           \A i \in 1..r : c[i] = i - 1
    PROVE  c \in Chosen(n, r) /\ \A e \in Chosen(n, r) : ~Earlier(e, c, r)
  <1>1. c \in Chosen(n, r)
    <2>1. \A i \in 1..r : c[i] \in 0..(n - 1)
      OBVIOUS
    <2>2. Rising(c, r)
      BY DEF Rising
    <2> QED
      BY <2>1, <2>2 DEF Chosen
  <1>2. ASSUME NEW e \in Chosen(n, r), Earlier(e, c, r) PROVE FALSE
    <2>1. PICK i \in 1..r : e[i] < c[i]
      BY <1>2 DEF Earlier
    <2>2. i - 1 <= e[i] /\ e[i] \in Nat /\ c[i] = i - 1 /\ i \in Nat
      BY ChosenAre
    <2> QED
      BY <2>1, <2>2
  <1> QED
    BY <1>1, <1>2

LEMMA GreatestIs ==
    ASSUME NEW n \in Nat, NEW T \in SUBSET (0 .. n), T # {}
    PROVE  Subsets!Max(T) \in T /\ \A k \in T : Subsets!Max(T) >= k
  <1>1. \E m \in T : \A k \in T : m >= k
    BY Greatest
  <1> QED
    BY <1>1 DEF Subsets!Max

\* Until it is completed the generator has handed out those that come before the
\* one it is about to hand out, the last of them last.
Generating == /\ curr \in [0..R -> Nat]
              /\ Subsets!combination \in Chosen(N, R)
              /\ completed => handed = Chosen(N, R)
              /\ ~completed =>
                   /\ handed = {e \in Chosen(N, R) : Earlier(e, Subsets!combination, R)}
                   /\ handed # {} => Earlier(last, Subsets!combination, R)

CombinationsInv == /\ N \in Nat /\ R \in Nat /\ completed \in BOOLEAN
                   /\ (N < 1 \/ R > N) => completed /\ handed = {}
                   /\ ~(N < 1 \/ R > N) => Generating

LEMMA CombinationsInitOK ==
    ASSUME Subsets!Init
    PROVE  CombinationsInv
  <1>1. /\ N \in Nat /\ R \in Nat /\ curr = [i \in 0..R |-> i]
        /\ completed = (N < 1 \/ R > N) /\ last = <<>> /\ handed = {}
    BY CombinationsAssumption DEF Subsets!Init
  <1>2. ASSUME ~(N < 1 \/ R > N) PROVE Generating
    <2>1. R <= N /\ curr \in [0..R -> Nat]
      BY <1>1, <1>2
    <2> DEFINE c == Subsets!combination
    <2>2. c \in [1..R -> Nat] /\ \A i \in 1..R : c[i] = i - 1
      <3>1. \A i \in 1..R : i - 1 \in 0..R /\ i - 1 \in Nat
        BY <1>1
      <3> QED
        BY <1>1, <3>1 DEF Subsets!combination
    <2> HIDE DEF c
    <2>3. c \in Chosen(N, R) /\ \A e \in Chosen(N, R) : ~Earlier(e, c, R)
      BY <1>1, <2>1, <2>2, FirstChosen
    <2>4. ~completed /\ {e \in Chosen(N, R) : Earlier(e, c, R)} = {}
      BY <1>1, <1>2, <2>3
    <2> QED
      BY <1>1, <2>1, <2>3, <2>4 DEF Generating, c
  <1>3. completed \in BOOLEAN
    BY <1>1
  <1> QED
    BY <1>1, <1>2, <1>3 DEF CombinationsInv

LEMMA CombinationsNextOK ==
    ASSUME CombinationsInv, Subsets!Next
    PROVE  CombinationsInv' /\ Subsets!ComesLater
  <1> DEFINE c == Subsets!combination
             growing == Subsets!Growing
             room == N - R
  <1>1. /\ N \in Nat /\ R \in Nat /\ ~completed /\ ~(N < 1 \/ R > N) /\ UNCHANGED <<N, R>>
        /\ handed' = handed \cup {c} /\ last' = c
    BY DEF CombinationsInv, Subsets!Next
  <1>2. /\ curr \in [0..R -> Nat] /\ c \in Chosen(N, R)
        /\ handed = {e \in Chosen(N, R) : Earlier(e, c, R)}
        /\ handed # {} => Earlier(last, c, R)
    BY <1>1 DEF CombinationsInv, Generating
  <1>3. Subsets!ComesLater
    BY <1>1, <1>2 DEF Subsets!ComesLater, Subsets!Before, Earlier
  <1>4. room \in Nat /\ R - 1 \in Int /\ R >= 0
    BY <1>1
  <1>5. \A i \in 1..R : /\ i \in Nat /\ i - 1 \in 0..(R - 1) /\ i - 1 \in 0..R /\ i - 1 \in Nat
                        /\ c[i] = curr[i - 1] /\ c[i] \in Nat
    <2>1. \A i \in 1..R : i \in Nat /\ i - 1 \in 0..(R - 1) /\ i - 1 \in 0..R /\ i - 1 \in Nat
      BY <1>1
    <2> QED
      BY <1>2, <2>1 DEF Subsets!combination
  <1>6. growing = {i \in 0..(R - 1) : curr[i] < room + i}
    BY DEF Subsets!Growing
  <1>7. \A i \in growing : i \in 0..(R - 1) /\ curr[i] < room + i
    BY <1>6
  <1> HIDE DEF growing
  <1>8. \A i \in 1..R : c[i] <= room + (i - 1)
    BY <1>1, <1>2, ChosenAre
  <1>9. CASE growing = {} /\ completed' = TRUE /\ UNCHANGED <<curr, generated>>
    <2>1. ASSUME NEW i \in 1..R PROVE c[i] = room + (i - 1)
      <3>1. ~(c[i] < room + (i - 1))
        BY <1>5, <1>6, <1>9
      <3> QED
        BY <1>4, <1>5, <1>8, <3>1
    <2>2. \A e \in Chosen(N, R) : e = c \/ Earlier(e, c, R)
      BY <1>1, <1>2, <2>1, LastChosen
    <2>3. handed' = Chosen(N, R)
      BY <1>1, <1>2, <2>2
    <2>4. Subsets!combination' = c
      BY <1>1, <1>9 DEF Subsets!combination
    <2> HIDE DEF c
    <2>5. Generating'
      BY <1>1, <1>2, <1>9, <2>3, <2>4 DEF Generating
    <2> QED
      BY <1>1, <1>3, <1>9, <2>5 DEF CombinationsInv
  <1>10. CASE growing # {} /\ curr' = Subsets!CountUp(Subsets!Max(growing)) /\ UNCHANGED completed
    <2>1. PICK g \in Nat : /\ g = Subsets!Max(growing) /\ g \in growing
                           /\ \A i \in growing : g >= i
      <3>1. PICK top \in Int : top = R - 1
        BY <1>4
      <3>2. \A i \in growing : i \in 0..top /\ i \in Nat /\ top \in Nat
        BY <1>7, <3>1
      <3>3. growing \in SUBSET (0..top) /\ growing # {} /\ top \in Nat
        BY <1>10, <3>2
      <3>4. Subsets!Max(growing) \in growing /\ \A i \in growing : Subsets!Max(growing) >= i
        BY <3>3, GreatestIs
      <3>5. Subsets!Max(growing) \in Nat
        BY <3>2, <3>4
      <3> QED
        BY <3>4, <3>5
    <2>2. PICK m \in 1..R : m = g + 1
      <3>1. g \in 0..(R - 1)
        BY <1>7, <2>1
      <3>2. g + 1 \in 1..R
        BY <1>1, <3>1
      <3> QED
        BY <3>2
    <2>3. m \in Nat /\ m - 1 = g /\ g \in 0..R /\ curr[g] = c[m] /\ c[m] \in Nat
      BY <1>1, <1>5, <2>1, <2>2
    <2>4. c[m] < room + (m - 1)
      BY <1>6, <2>1, <2>3
    <2>5. ASSUME NEW i \in 1..R, i > m PROVE c[i] = room + (i - 1)
      <3>1. ~(g >= i - 1)
        BY <1>5, <2>2, <2>5
      <3>2. i - 1 \notin growing
        BY <2>1, <3>1
      <3>3. ~(c[i] < room + (i - 1))
        BY <1>5, <1>6, <3>2
      <3> QED
        BY <1>4, <1>5, <1>8, <3>3
    <2> DEFINE d == Subsets!combination'
    <2>6. curr' = [j \in 0..R |-> IF j < g THEN curr[j] ELSE c[m] + 1 + (j - g)]
      BY <1>10, <2>1, <2>3 DEF Subsets!CountUp
    <2>7. curr' \in [0..R -> Nat]
      <3>1. \A j \in 0..R : (IF j < g THEN curr[j] ELSE c[m] + 1 + (j - g)) \in Nat
        BY <1>1, <1>2, <2>1, <2>3, SMTT(30)
      <3> QED
        BY <2>6, <3>1
    <2>8. d = [i \in 1..R |-> curr'[i - 1]]
      BY <1>1 DEF Subsets!combination
    <2> HIDE DEF d, c
    <2>9. d \in [1..R -> Nat]
      BY <1>5, <2>7, <2>8
    <2>10. ASSUME NEW i \in 1..R PROVE d[i] = IF i < m THEN c[i] ELSE c[m] + 1 + (i - m)
      <3>1. d[i] = IF i - 1 < g THEN curr[i - 1] ELSE c[m] + 1 + ((i - 1) - g)
        BY <1>5, <2>6, <2>8
      <3>2. (i - 1 < g <=> i < m) /\ (i - 1) - g = i - m
        BY <1>5, <2>2, <2>3
      <3> QED
        BY <1>5, <3>1, <3>2
    <2>11. /\ d \in Chosen(N, R)
           /\ Earlier(c, d, R)
           /\ \A e \in Chosen(N, R) : Earlier(e, d, R) <=> e = c \/ Earlier(e, c, R)
      BY <1>1, <1>2, <2>4, <2>5, <2>9, <2>10, Successor
    <2>12. handed' = {e \in Chosen(N, R) : Earlier(e, d, R)}
      BY <1>1, <1>2, <2>11
    <2>13. Earlier(last', d, R)
      BY <1>1, <2>11
    <2>14. Generating'
      BY <1>1, <1>10, <2>7, <2>11, <2>12, <2>13 DEF Generating, d
    <2> QED
      BY <1>1, <1>3, <1>10, <2>14 DEF CombinationsInv
  <1> QED
    BY <1>9, <1>10 DEF Subsets!Next, growing

LEMMA CombinationsTakes ==
    ASSUME SequentialNext, IsCombinations
    PROVE  Subsets!Next /\ UNCHANGED part
  <1>1. UNCHANGED part /\ part = "Combinations"
    BY DEF SequentialNext, IsCombinations
  <1> QED
    BY <1>1 DEF SequentialNext, ContainersNext, IsFector, IsFap, IsCache, IsCombinations,
                IsBllocator, IsBits, IsSqlite, IsClient

LEMMA CombinationsStarts ==
    ASSUME SequentialInit, IsCombinations
    PROVE  Subsets!Init
  <1>1. part = "Combinations"
    BY DEF IsCombinations
  <1> QED
    BY <1>1 DEF SequentialInit, ContainersInit, IsFector, IsFap, IsCache, IsCombinations,
                IsBllocator, IsBits, IsSqlite, IsClient

\* For every N and R the generator hands out every combination, each after the
\* one before it in the order of the first numbers that differ, and has handed
\* out exactly the combinations when it is completed (combinations.hpp 31-49).
THEOREM EveryCombination == SequentialSpec => HandsOutAll
  <1> DEFINE Inv == IsCombinations => CombinationsInv
  <1>1. SequentialInit => Inv
    BY CombinationsStarts, CombinationsInitOK
  <1>2. Inv /\ [SequentialNext]_sequentialVars
        => Inv' /\ [IsCombinations => Subsets!ComesLater]_sequentialVars
    <2> SUFFICES ASSUME Inv, [SequentialNext]_sequentialVars
                 PROVE  Inv' /\ [IsCombinations => Subsets!ComesLater]_sequentialVars
      OBVIOUS
    <2>1. UNCHANGED part
      BY DEF SequentialNext, sequentialVars
    <2>2. CASE ~IsCombinations
      BY <2>1, <2>2 DEF IsCombinations
    <2>3. CASE UNCHANGED sequentialVars
      <3>1. UNCHANGED <<N, R, curr, completed, last, handed>>
        BY <2>3 DEF sequentialVars, containerVars, combinationVars
      <3>2. CombinationsInv' <=> CombinationsInv
        BY <3>1 DEF CombinationsInv, Generating, Subsets!combination
      <3> QED
        BY <2>1, <2>3, <3>2 DEF IsCombinations
    <2>4. CASE IsCombinations /\ SequentialNext
      BY <2>4, CombinationsTakes, CombinationsNextOK
    <2> QED
      BY <2>2, <2>3, <2>4
  <1>3. Inv => (IsCombinations => Subsets!AllAreHandedOut)
    <2> SUFFICES ASSUME CombinationsInv, completed
                 PROVE  handed = IF N < 1 \/ R > N THEN {} ELSE Chosen(N, R)
      BY DEF Subsets!AllAreHandedOut, Subsets!Ascending, Chosen, Rising
    <2> QED
      BY DEF CombinationsInv, Generating
  <1> QED
    BY <1>1, <1>2, <1>3, PTL DEF SequentialSpec, HandsOutAll
=============================================================================
