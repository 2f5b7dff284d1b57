---------------------------- MODULE AbstractCache ----------------------------
(***************************************************************************)
(* What a cache promises: it holds at most one entry a key, in the order   *)
(* they were used last; only the one used longest ago goes to make room,   *)
(* only to make room for another, and an entry that goes is saved.         *)
(* When room is needed is left open.                                       *)
(***************************************************************************)
EXTENDS Sequences, SequencesExt

CONSTANT Entries   \* records with a key among their fields

VARIABLES entries,  \* the entries, the one used last first
          saved     \* what has been handed to a saveFunc

vars == <<entries, saved>>

Cached(k) == \E i \in DOMAIN entries : entries[i].key = k

Init == entries = <<>> /\ saved = {}

Insert(e) == /\ ~Cached(e.key)
             /\ entries' = <<e>> \o entries
             /\ UNCHANGED saved

\* Room is made, and the new entry takes it; or saving failed.
Evict == /\ entries # <<>>
         /\ saved' = saved \cup {Last(entries)}
         /\ \/ entries' = Front(entries)
            \/ \E e \in Entries : ~Cached(e.key) /\ entries' = <<e>> \o Front(entries)

Use(i) == /\ entries' = <<entries[i]>> \o RemoveAt(entries, i)
          /\ UNCHANGED saved

Erase(i) == /\ entries' = RemoveAt(entries, i)
            /\ saved' = saved \cup {entries[i]}

Next == \/ \E e \in Entries : Insert(e)
        \/ Evict
        \/ \E i \in DOMAIN entries : Use(i) \/ Erase(i)

Spec == Init /\ [][Next]_vars
=============================================================================
