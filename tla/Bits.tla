-------------------------------- MODULE Bits --------------------------------
(***************************************************************************)
(* Bitset<Store> of bitset.hpp and BitVector of bitvector.hpp.  A number   *)
(* is the set of its bits.  A bit is shifted into place as an int, which   *)
(* may be shorter or longer than the store.  The ghost bits is what the    *)
(* calls have asked for, and the ghost spoilt the bits that a call for     *)
(* another one may have changed, or a call for them missed, until they are *)
(* written again.                                                          *)
(***************************************************************************)
EXTENDS Naturals, FiniteSets

CONSTANTS IntBits,   \* bits of an int
          Sizes,     \* bits of the stores
          Base,      \* bits of threeTwo
          MaxBits    \* indices are less

VARIABLES kind,      \* "Bitset" or "BitVector"
          size,      \* bits of the store, or of threeTwo
          store,     \* the bits that are set
          rest,      \* the size of the vector behind threeTwo
          bits,      \* what has been asked for
          spoilt     \* the bits for which that need not hold

bitVars == <<kind, size, store, rest, bits, spoilt>>

All == 0 .. size - 1
\* The counts of the bytes, added up.
Count(s) == Cardinality(s)
\* The masks 1 << idx may give, as wide as the store: the highest bit of an int
\* is its sign; a larger shift is undefined, and takes the index modulo the
\* width, or gives nothing.
Mask(idx) ==
    LET Shifted(i) == IF i = IntBits - 1 THEN {b \in All : b >= i} ELSE {i} \cap All
    IN IF idx < IntBits THEN {Shifted(idx)} ELSE {Shifted(idx % IntBits), {}}
\* What test(), reset(idx) and flip(idx) let through: one too many.
Checked(idx) == idx <= size
\* What an index must be expected to reach beside its own bit: the sign of an int
\* that is shorter than the store all bits above it, and an index with no bit in
\* an int another bit instead.
Reaches(idx) == IF idx = IntBits - 1 THEN idx .. size - 1 ELSE {idx} \cap All
SpoiltBy(idx) == IF idx < IntBits THEN Reaches(idx) \ {idx}
                 ELSE Reaches(idx % IntBits) \cup ({idx} \cap All)
-----------------------------------------------------------------------------
IsBitset == kind = "Bitset"
BitsetInit == /\ kind = "Bitset" /\ size \in Sizes
              /\ store = {} /\ bits = {} /\ rest = 0 /\ spoilt = {}

Stores(s, asked, bad) == /\ store' = s /\ bits' = asked /\ spoilt' = bad
                         /\ UNCHANGED <<kind, size, rest>>
With(idx) == bits \cup ({idx} \cap All)
Without(idx) == bits \ {idx}
Written(idx) == (IF idx < IntBits THEN spoilt \ {idx} ELSE spoilt) \cup SpoiltBy(idx)

\* set(idx, value), also through a Reference; the index is not tested.
SetTo(idx, value) ==
    \E m \in Mask(idx) : Stores(IF value THEN store \cup m ELSE store \ m,
                                IF value THEN With(idx) ELSE Without(idx), Written(idx))
ResetBit(idx) ==
    Checked(idx) /\ \E m \in Mask(idx) : Stores(store \ m, Without(idx), Written(idx))

\* Mutant: a flipped bit is only ever set.
MutFlipBit(idx) == Checked(idx) /\ \E m \in Mask(idx) :
    Stores(store \cup m, IF idx \in bits THEN Without(idx) ELSE With(idx), spoilt \cup SpoiltBy(idx))

FlipBit(idx) == Checked(idx) /\ \E m \in Mask(idx) :
    Stores((store \ m) \cup (m \ store), IF idx \in bits THEN Without(idx) ELSE With(idx),
           spoilt \cup SpoiltBy(idx))
SetAll == Stores(All, All, {})
ResetAll == Stores({}, {}, {})
Flip == Stores(All \ store, All \ bits, spoilt)
\* &=, |= and ^= with another set, which is b.
Combine(b) == \/ Stores(store \cap b, bits \cap b, spoilt \cap b)
              \/ Stores(store \cup b, bits \cup b, spoilt \ b)
              \/ Stores((store \ b) \cup (b \ store), (bits \ b) \cup (b \ bits), spoilt)
\* A Reference to a bit is assigned from one to bit j of another set, which is b:
\* the sets are assigned, not the bits.
AssignReference(idx, b, j) == Stores(b, IF j \in b THEN With(idx) ELSE Without(idx), All)
\* << and >>, which shift the set itself when it is not const.
ShiftBy(n) == LET Up(s) == {i + n : i \in s} \cap All
                  Down(s) == {i - n : i \in {j \in s : j >= n}}
              IN \/ Stores(Up(store), Up(bits), Up(spoilt))
                 \/ Stores(Down(store), Down(bits), Down(spoilt))

\* operator[] const and test(), with what 1 << idx may give.
Tests(idx) == {store \cap m # {} : m \in Mask(idx)}
BitsetNext ==
    /\ IsBitset
    /\ \/ \E idx \in 0 .. MaxBits - 1 : ResetBit(idx) \/ FlipBit(idx) \/ SetTo(idx, TRUE) \/ SetTo(idx, FALSE)
       \/ SetAll \/ ResetAll \/ Flip
       \/ \E b \in {{}, {0}, {1, 2} \cap All, All} :
             Combine(b) \/ \E idx \in All, j \in All : AssignReference(idx, b, j)
       \/ \E n \in 1 .. 2 : ShiftBy(n)
-----------------------------------------------------------------------------
IsBitVector == kind = "BitVector"
BitVectorInit == /\ kind = "BitVector" /\ size = Base
                 /\ store = {} /\ bits = {} /\ rest = 0 /\ spoilt = {}

Grown(idx) == IF idx < Base \/ idx - Base < rest THEN rest ELSE idx - Base + 1
VectorSet(idx) == /\ store' = store \cup {idx} /\ bits' = bits \cup {idx}
                  /\ spoilt' = spoilt \ {idx}
                  /\ rest' = Grown(idx)
                  /\ UNCHANGED <<kind, size>>
\* unset(): behind threeTwo the bit it takes away is that of an index lower by
\* Base, which for the first Base of them is in front of the vector.
Cleared(idx) == IF idx < Base THEN {idx} ELSE {idx - Base} \ (0 .. Base - 1)
Unset(idx) == /\ store' = store \ Cleared(idx) /\ bits' = bits \ {idx}
              /\ spoilt' = IF idx < Base THEN spoilt \ {idx} ELSE spoilt \cup {idx, idx - Base}
              /\ rest' = Grown(idx)
              /\ UNCHANGED <<kind, size>>
At(idx) == IF idx < Base THEN idx \in store ELSE idx - Base < rest /\ idx \in store

BitVectorNext == IsBitVector /\ \E idx \in 0 .. MaxBits - 1 : VectorSet(idx) \/ Unset(idx)
-----------------------------------------------------------------------------
BitsTypeOK == /\ kind \in {"Bitset", "BitVector"}
              /\ IsBitset => store \subseteq All
              /\ IsBitVector => store \subseteq 0 .. Base + rest - 1

\* Every bit that no other index has spoilt is as it was asked for; the others
\* are only those a shift beyond the int, the sign of a shorter int, the
\* assignment of a Reference, or unset() behind the first bits of a BitVector
\* reaches.  And this is what the ways of looking at the bits give: the sign of
\* a shorter int is taken for set when any bit above it is
\* (bitset.hpp 78-113, 123-208; bitvector.hpp 18-51).
BitsAreAskedFor ==
    /\ store \ spoilt = bits \ spoilt
    /\ IsBitset =>
          /\ spoilt = {} => Count(store) = Cardinality(bits)
          /\ \A idx \in All : idx < IntBits /\ Reaches(idx) \cap spoilt = {} =>
                \A t \in Tests(idx) : t <=> Reaches(idx) \cap bits # {}
    /\ IsBitVector => \A idx \in 0 .. MaxBits - 1 : idx \notin spoilt => At(idx) = (idx \in bits)
=============================================================================
