-------------------------------- MODULE Cache --------------------------------
(***************************************************************************)
(* Cache of cache.hpp: a list of entries in the order of their use, a map  *)
(* from keys to places in that list, and a count of the bytes stored.      *)
(* A place in the list is the id of its entry: a list's iterators stay     *)
(* valid when other entries come and go.                                   *)
(***************************************************************************)
EXTENDS Naturals, Sequences, FiniteSets, SequencesExt

CONSTANTS Keys,
          Sizes,       \* what SizeOf says of values
          CacheSize,
          MaxInserts   \* at most so many entries are made

VARIABLES list,        \* the entries, the one used last first
          map,         \* key |-> id of an entry
          memInBytes,
          ids,         \* the ids given so far are 1..ids
          saved,       \* the entries handed to a saveFunc
          aborted,     \* has assert() ended the program?
          reinserts    \* does the caller insert keys that are there already?

vars == <<list, map, memInBytes, ids, saved, aborted, reinserts>>

ListEntry == [key : Keys, size : Sizes, id : 1..MaxInserts]

Place(id) == CHOOSE i \in DOMAIN list : list[i].id = id
Without(m, k) == [j \in DOMAIN m \ {k} |-> m[j]]

sizeOfSavedElementsInBytes(l) ==
    LET sum[n \in 0..Len(l)] == IF n = 0 THEN 0 ELSE sum[n - 1] + l[n].size
    IN sum[Len(l)]

Init == /\ list = <<>> /\ map = <<>> /\ memInBytes = 0
        /\ ids = 0 /\ saved = {} /\ aborted = FALSE
        /\ reinserts \in BOOLEAN
-----------------------------------------------------------------------------
\* Mutant: the bytes are counted before the entry is in the list.
MutPushFront(k, size, l, m) ==
    LET e == [key |-> k, size |-> size, id |-> ids + 1]
    IN  /\ list' = <<e>> \o l
        /\ map' = IF k \in DOMAIN m THEN m
                  ELSE [j \in DOMAIN m \cup {k} |-> IF j = k THEN e.id ELSE m[j]]
        /\ memInBytes' = sizeOfSavedElementsInBytes(l)
        /\ ids' = ids + 1

\* The second part of insert(): map.insert() leaves an entry of the same key
\* as it is.
PushFront(k, size, l, m) ==
    LET e == [key |-> k, size |-> size, id |-> ids + 1]
    IN  /\ list' = <<e>> \o l
        /\ map' = IF k \in DOMAIN m THEN m
                  ELSE [j \in DOMAIN m \cup {k} |-> IF j = k THEN e.id ELSE m[j]]
        /\ memInBytes' = sizeOfSavedElementsInBytes(list')
        /\ ids' = ids + 1

Full(size) == memInBytes + size > CacheSize /\ list # <<>>

InsertFits(k, size) ==
    /\ ~Full(size)
    /\ PushFront(k, size, list, map)
    /\ UNCHANGED <<saved, aborted>>

\* Mutant: the entry used last goes.
MutEvict(k, size) ==
    /\ Full(size) /\ Head(list).key \in DOMAIN map
    /\ saved' = saved \cup {Head(list)}
    /\ PushFront(k, size, Tail(list), Without(map, Head(list).key))
    /\ UNCHANGED aborted

\* Mutant: the entry that goes stays in the map.
MutEvictList(k, size) ==
    /\ Full(size) /\ Last(list).key \in DOMAIN map
    /\ saved' = saved \cup {Last(list)}
    /\ PushFront(k, size, Front(list), map)
    /\ UNCHANGED aborted

\* The entry used longest ago goes, and saveFunc gets it.
InsertEvicts(k, size) ==
    /\ Full(size) /\ Last(list).key \in DOMAIN map
    /\ saved' = saved \cup {Last(list)}
    /\ PushFront(k, size, Front(list), Without(map, Last(list).key))
    /\ UNCHANGED aborted

\* saveFunc throws.
InsertThrows(size) ==
    /\ Full(size) /\ Last(list).key \in DOMAIN map
    /\ saved' = saved \cup {Last(list)}
    /\ list' = Front(list)
    /\ map' = Without(map, Last(list).key)
    /\ UNCHANGED <<memInBytes, ids, aborted>>

\* assert(mapIt != this->map.end())
InsertAborts(size) ==
    /\ Full(size) /\ Last(list).key \notin DOMAIN map
    /\ list' = Front(list)
    /\ aborted' = TRUE
    /\ UNCHANGED <<map, memInBytes, ids, saved>>

Insert(k, size) ==
    /\ ids < MaxInserts
    /\ reinserts \/ k \notin DOMAIN map
    /\ UNCHANGED reinserts
    /\ \/ InsertFits(k, size)
       \/ InsertEvicts(k, size)
       \/ InsertThrows(size)
       \/ InsertAborts(size)

\* Mutant: the entry is not taken out of the list.
MutErase(k) ==
    /\ k \in DOMAIN map
    /\ saved' = saved \cup {list[Place(map[k])]}
    /\ map' = Without(map, k)
    /\ UNCHANGED <<list, memInBytes, ids, aborted, reinserts>>

\* When saveFunc throws nothing has changed.
Erase(k) ==
    /\ k \in DOMAIN map
    /\ saved' = saved \cup {list[Place(map[k])]}
    /\ list' = RemoveAt(list, Place(map[k]))
    /\ map' = Without(map, k)
    /\ UNCHANGED <<memInBytes, ids, aborted, reinserts>>

\* find() and contains(): the entry found becomes the one used last.
Find(k) ==
    /\ k \in DOMAIN map
    /\ list' = <<list[Place(map[k])]>> \o RemoveAt(list, Place(map[k]))
    /\ UNCHANGED <<map, memInBytes, ids, saved, aborted, reinserts>>

Next == /\ ~aborted
        /\ \E k \in Keys : Erase(k) \/ Find(k) \/ \E size \in Sizes : Insert(k, size)

Spec == Init /\ [][Next]_vars
-----------------------------------------------------------------------------
TypeOK == /\ list \in Seq(ListEntry)
          /\ DOMAIN map \subseteq Keys /\ \A k \in DOMAIN map : map[k] \in 1..ids
          /\ memInBytes \in Nat /\ ids \in 0..MaxInserts
          /\ saved \subseteq ListEntry /\ aborted \in BOOLEAN

\* No iterator in the map dangles: each leads to an entry of its key in the
\* list, also when keys are inserted again (cache.hpp 137-147, 164-170).
NoDanglingIterator ==
    ~aborted => \A k \in DOMAIN map : \E i \in DOMAIN list :
                    list[i].id = map[k] /\ list[i].key = k

\* Every entry made is in the list or has been handed to a saveFunc, and is
\* not both (cache.hpp 137-146, 166-167).
EveryEntryOnce ==
    ~aborted => /\ {e.id : e \in Range(list) \cup saved} = 1..ids
                /\ Range(list) \cap saved = {}
                /\ Cardinality(Range(list)) = Len(list)

\* The count of the bytes stored may be too high after erase() or when saving
\* failed, never too low (cache.hpp 136, 149, 163-172).
NeverUndercounts == memInBytes >= sizeOfSavedElementsInBytes(list)
\* "assert(this->list.size() == this->map.size());" (cache.hpp 175), whatever
\* is inserted.
AssertionHolds == ~aborted => Len(list) = Cardinality(DOMAIN map)
=============================================================================
