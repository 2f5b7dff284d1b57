---------------------------- MODULE MCSequential ----------------------------
(***************************************************************************)
(* The sequential parts of the library for TLC that are written without    *)
(* recursive operators: each behaviour is of one container, of a set of    *)
(* bits, of the SQLite binding, or of marble's client.  A Fector and a Fap *)
(* share their variables, and the allocators one of them.                  *)
(***************************************************************************)
EXTENDS Naturals

CONSTANTS Capacity, Values, IdxRange,              \* of the Fector
          Size, Keys, Vals,                        \* of the Fap
          CacheKeys, Sizes, CacheSize, MaxInserts, \* of the Cache
          MaxN, MaxR,                              \* of the Combinations
          ArraySize, Requests, SizeRange,          \* of the allocators
          HeapRegions,
          IntBits, BitSizes, Base, MaxBits,        \* of the sets of bits
          MaxKey, Attrs, IntRange, MaxBatch,       \* of the SQLite binding
          MaxCalls, MaxContent                     \* of marble's client

\* The number of elements has 16 bits: no larger vector is taken.
ASSUME VectorAssumption == Capacity \in Nat /\ IdxRange \in Nat /\ Capacity < IdxRange
\* Keys stand for a type with a total order.
ASSUME MapAssumption == Size \in Nat /\ Size < IdxRange /\ Keys \subseteq Nat
ASSUME CombinationsAssumption == MaxN \in Nat /\ MaxR \in Nat
ASSUME CacheAssumption == Sizes \subseteq Nat /\ MaxInserts \in Nat
\* Nobody asks for no byte, or for so many that a size_t cannot count them and
\* the array together: such a request would be served from the array.  malloc()
\* does not give the array.
ASSUME BlockAssumption == /\ ArraySize \in Nat /\ Requests \subseteq Nat \ {0}
                          /\ SizeRange \in Nat
                          /\ \A s \in Requests : ArraySize + s < SizeRange
                          /\ "array" \notin HeapRegions
ASSUME BitsAssumption == /\ IntBits \in Nat \ {0} /\ BitSizes \subseteq Nat \ {0}
                         /\ Base \in Nat \ {0} /\ MaxBits \in Nat
ASSUME SqlAssumption == MaxKey \in Nat /\ Attrs \subseteq Nat /\ IntRange \in Nat \ {0}
ASSUME ClientAssumption == MaxContent \in Nat

VARIABLES part,   \* the part of the library the behaviour is of
          slots, idx, threw, outside,
          list, map, memInBytes, ids, saved, aborted, reinserts,
          N, R, curr, completed, generated, last, handed,
          freeDeque, store, live,
          kind, size, bitStore, rest, bits, spoilt,
          rows, durable, inTx, others, leaks, iter, batch, now, told, plain,
          wire, peer, asked, call, at, socket_error, buffer, head, chunks, replies, outcome

arrayVars == <<slots, idx, threw, outside>>
cacheVars == <<list, map, memInBytes, ids, saved, aborted, reinserts>>
combinationVars == <<N, R, curr, completed, generated, last, handed>>
blockVars == <<freeDeque, store, live>>
bitVars == <<kind, size, bitStore, rest, bits, spoilt>>
sqlVars == <<rows, durable, inTx, others, leaks, iter, batch, now, told, plain>>
clientVars == <<wire, peer, asked, call, at, socket_error, buffer, head, chunks, replies, outcome>>
containerVars == <<arrayVars, cacheVars, combinationVars, blockVars>>
sequentialVars == <<part, containerVars, bitVars, sqlVars, clientVars>>

Vector == INSTANCE Fector
SortedMap == INSTANCE Fap
LRU == INSTANCE Cache WITH Keys <- CacheKeys
Subsets == INSTANCE Combinations
Memory == INSTANCE Bllocator WITH Size <- ArraySize
Set == INSTANCE Bits WITH Sizes <- BitSizes, store <- bitStore
Database == INSTANCE Sqlite
Connection == INSTANCE HttpClient

IsFector == part = "Fector"
IsFap == part = "Fap"
IsCache == part = "Cache"
IsCombinations == part = "Combinations"
IsBllocator == part = "Bllocator"
IsBits == part = "Bits"
IsSqlite == part = "Sqlite"
IsClient == part = "HttpClient"

NoArray == slots = 0 /\ idx = 0 /\ threw = 0 /\ outside = 0
NoCache == /\ list = 0 /\ map = 0 /\ memInBytes = 0 /\ ids = 0 /\ saved = 0
           /\ aborted = 0 /\ reinserts = 0
NoCombinations == /\ N = 0 /\ R = 0 /\ curr = 0 /\ completed = 0 /\ generated = 0
                  /\ last = 0 /\ handed = 0
NoBlocks == freeDeque = 0 /\ store = 0 /\ live = 0
NoContainer == NoArray /\ NoCache /\ NoCombinations /\ NoBlocks
NoBits == kind = 0 /\ size = 0 /\ bitStore = 0 /\ rest = 0 /\ bits = 0 /\ spoilt = 0
NoSql == /\ rows = 0 /\ durable = 0 /\ inTx = 0 /\ others = 0 /\ leaks = 0 /\ iter = 0
         /\ batch = 0 /\ now = 0 /\ told = 0 /\ plain = 0
NoClient == /\ wire = 0 /\ peer = 0 /\ asked = 0 /\ call = 0 /\ at = 0 /\ socket_error = 0
            /\ buffer = 0 /\ head = 0 /\ chunks = 0 /\ replies = 0 /\ outcome = 0
NoSequential == NoContainer /\ NoBits /\ NoSql /\ NoClient

ContainersInit ==
    \/ IsFector /\ Vector!Init /\ NoCache /\ NoCombinations /\ NoBlocks
    \/ IsFap /\ SortedMap!Init /\ NoCache /\ NoCombinations /\ NoBlocks
    \/ IsCache /\ LRU!Init /\ NoArray /\ NoCombinations /\ NoBlocks
    \/ IsCombinations /\ Subsets!Init /\ NoArray /\ NoCache /\ NoBlocks
    \/ IsBllocator /\ Memory!Init /\ slots = 0 /\ threw = 0 /\ outside = 0
       /\ NoCache /\ NoCombinations

SequentialInit ==
    \/ ContainersInit /\ NoBits /\ NoSql /\ NoClient
    \/ IsBits /\ (Set!BitsetInit \/ Set!BitVectorInit) /\ NoContainer /\ NoSql /\ NoClient
    \/ IsSqlite /\ Database!SqlInit /\ NoContainer /\ NoBits /\ NoClient
    \/ IsClient /\ Connection!ClientInit /\ NoContainer /\ NoBits /\ NoSql

ContainersNext ==
    \/ IsFector /\ Vector!Next /\ UNCHANGED <<cacheVars, combinationVars, blockVars>>
    \/ IsFap /\ SortedMap!Next /\ UNCHANGED <<cacheVars, combinationVars, blockVars>>
    \/ IsCache /\ LRU!Next /\ UNCHANGED <<arrayVars, combinationVars, blockVars>>
    \/ IsCombinations /\ Subsets!Next /\ UNCHANGED <<arrayVars, cacheVars, blockVars>>
    \/ IsBllocator /\ Memory!Next /\ UNCHANGED <<slots, threw, outside, cacheVars, combinationVars>>

SequentialNext ==
    /\ UNCHANGED part
    /\ \/ ContainersNext /\ UNCHANGED <<bitVars, sqlVars, clientVars>>
       \/ /\ IsBits /\ (Set!BitsetNext \/ Set!BitVectorNext)
          /\ UNCHANGED <<containerVars, sqlVars, clientVars>>
       \/ IsSqlite /\ Database!SqlNext /\ UNCHANGED <<containerVars, bitVars, clientVars>>
       \/ IsClient /\ Connection!ClientNext /\ UNCHANGED <<containerVars, bitVars, sqlVars>>

SequentialSpec == SequentialInit /\ [][SequentialNext]_sequentialVars
-----------------------------------------------------------------------------
\* The type invariants of all (fector.hpp 24-35, fap.hpp 161, cache.hpp 208-210,
\* combinations.hpp 25-55, bllocator.hpp 103-158, bitset.hpp 90, sqliteimpl.hpp
\* 402-403, client_http.hpp 64-125).
SequentialTypeOK == /\ IsFector => Vector!TypeOK
                    /\ IsFap => SortedMap!TypeOK
                    /\ IsCache => LRU!TypeOK
                    /\ IsCombinations => Subsets!TypeOK
                    /\ IsBllocator => Memory!TypeOK
                    /\ IsBits => Set!BitsTypeOK
                    /\ IsSqlite => Database!SqlTypeOK
                    /\ IsClient => Connection!ClientTypeOK

\* Whatever is inserted again or could not be saved: no iterator in the map of a
\* Cache dangles, no entry is lost or kept twice, and the bytes are never
\* counted too low (cache.hpp 136-149, 163-172).
CacheIsCoherent ==
    IsCache => LRU!NoDanglingIterator /\ LRU!EveryEntryOnce /\ LRU!NeverUndercounts

\* Combinations hands out every combination, once and in order, and nothing else
\* (combinations.hpp 31-49; combinationstest/combitest.cpp 22-23).
HandsOutAll == /\ [](IsCombinations => Subsets!AllAreHandedOut)
               /\ [][IsCombinations => Subsets!ComesLater]_sequentialVars

\* Every operation of a Fector does to the sequence of its elements what
\* AbstractVector says of the operation of its name, and none does anything
\* else: an exception of push_back() or emplace() changes nothing, resize()
\* keeps what it has added, and only insert() with a full array or with end()
\* writes outside of the array (fector.hpp 83-91, 159-262).
BoundedSequence == INSTANCE AbstractVector
                       WITH elems <- IF IsFector THEN Vector!Elements ELSE <<>>,
                            threw <- IsFector /\ threw,
                            outside <- IsFector /\ outside
VectorOperations ==
    IsFector =>
        /\ \A v \in Values :
              /\ Vector!PushBack(v) => BoundedSequence!PushBack(v)
              /\ \A n \in 0..(Capacity + 1) : Vector!Resize(n, v) => BoundedSequence!Resize(n, v)
              /\ \A i \in 0..idx : Vector!Insert(i, v) => BoundedSequence!Insert(i, v)
        /\ \A n \in 0..idx :
              /\ Vector!PopBack(n) => BoundedSequence!PopBack(n)
              /\ \A i \in 0..idx : Vector!Erase(i, n) => BoundedSequence!Erase(i, n)
        /\ Vector!Clear => BoundedSequence!Clear
ImplementsVector == BoundedSequence!Spec /\ [][VectorOperations]_sequentialVars

\* Every operation of a Fap does to the map its pairs make what AbstractMap says
\* of the operation of its name: inserting a key that is there changes nothing,
\* no operation loses another key than the one it takes, and find() gives the
\* first key that is not less (fap.hpp 50-120).
KeysAndValues == INSTANCE AbstractMap
                     WITH map <- IF IsFap THEN SortedMap!Contents ELSE <<>>,
                          threw <- IsFap /\ threw,
                          outside <- IsFap /\ outside
MapOperations ==
    IsFap =>
        /\ \A k \in Keys : /\ SortedMap!erase(k) => KeysAndValues!Erase(k)
                           /\ \A v \in Vals : SortedMap!insert([first |-> k, second |-> v])
                                               => KeysAndValues!Insert(k, v)
        /\ \A it \in 0..(idx - 1) : SortedMap!eraseAt(it) => KeysAndValues!EraseAt(slots[it].first)
ImplementsMap == /\ [](IsFap /\ ~outside => SortedMap!FindsFrom)
                 /\ KeysAndValues!Spec /\ [][MapOperations]_sequentialVars

\* A Cache into which no key is inserted twice keeps the promise of
\* AbstractCache: the entry that goes is the one used longest ago (cache.hpp
\* 128-197).
Plain == IsCache /\ ~reinserts
LeastRecentlyUsed == INSTANCE AbstractCache
                         WITH Entries <- LRU!ListEntry,
                              entries <- IF Plain THEN list ELSE <<>>,
                              saved <- IF Plain THEN saved ELSE {}
ImplementsCache == LeastRecentlyUsed!Spec

\* The blocks the client holds never overlap, nor do those that are kept for it,
\* and each goes back to where it comes from (bllocator.hpp 57-231).
BlocksApart == INSTANCE AbstractAllocator
                   WITH Blocks <- Memory!Blocks, live <- IF IsBllocator THEN live ELSE {}
ImplementsAllocator == /\ [](IsBllocator => Memory!NoSharedByte /\ Memory!ReturnedToOwner)
                       /\ BlocksApart!Spec

\* Every bit of a Bitset or BitVector is as it was asked for, but for those that
\* an index without a bit in an int, the sign of a shorter int, the assignment of
\* a Reference, or unset() behind the first bits spoils until they are written
\* again (bitset.hpp 78-208, bitvector.hpp 18-51).
BitsAreAskedFor == IsBits => Set!BitsAreAskedFor

\* What the calls that have returned made of a table is what there is, also
\* after a restart at any step (sweetqlimpl/sqliteimpl.hpp 167-310).
RowsAreKept == IsSqlite => Database!RowsAreKept

\* A loop over a table that nobody changes meanwhile is handed every row once,
\* in order (sweetqlimpl/sqliteimpl.hpp 22-33, 78-91).
EveryRowIsHandedOut == IsSqlite => Database!EveryRowIsHandedOut

\* What a request of marble's client returns is the whole reply to it, whatever
\* went wrong with the requests before (marble/src/client_http.hpp 64-125, 200-208).
ReplyIsToItsRequest == IsClient => Connection!ReplyIsToItsRequest
=============================================================================
