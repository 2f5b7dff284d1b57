------------------------------- MODULE Sqlite -------------------------------
(***************************************************************************)
(* The binding of sweetqlimpl/sqliteimpl.hpp: one program, a Sqlite3, one  *)
(* table of a class with an int primary key and an int attribute, and      *)
(* SQLite itself as far as the binding meets it.  Texts are left out: they *)
(* are bound from strings that are gone when the row is written.           *)
(***************************************************************************)
EXTENDS Naturals, SequencesExt, FiniteSetsExt

CONSTANTS MaxKey,    \* keys are 1 .. MaxKey, and 0 has SQLite choose one
          Attrs,     \* values of the attribute
          IntRange,  \* an int holds less; an int64_t may be more
          MaxBatch   \* rows of an insert of a range

VARIABLES rows,    \* what the connection sees, NoTable or key |-> value
          durable, \* what the file holds
          inTx,    \* SQLite is in a transaction
          others,  \* what connections that could not be closed hold: "nothing", "reads", "writes"
          leaks,   \* a statement has been forgotten, and whether one stands on a row: "none", "done", "row"
          iter,    \* the iterator in use
          batch,   \* rows an insert of a range has still to do, or Idle
          now,     \* what the program has made of the table by the calls that returned
          told,    \* the part of it that is not in a transaction of the program's
          plain    \* nothing has happened that the binding cannot cope with

sqlVars == <<rows, durable, inTx, others, leaks, iter, batch, now, told, plain>>

NoTable == [exists |-> FALSE, at |-> <<>>]
Table(f) == [exists |-> TRUE, at |-> f]
Idle == <<"idle">>
NoIter == [code |-> "none", handed |-> <<>>, clean |-> TRUE, live |-> FALSE]
-----------------------------------------------------------------------------
(* SQLite *)
Narrowed(v) == v % IntRange
With(t, k, v) == Table([j \in DOMAIN t.at \cup {k} |-> IF j = k THEN v ELSE t.at[j]])
Without(t, k) == Table([j \in DOMAIN t.at \ {k} |-> t.at[j]])
\* addParameter(): a key of 0 is bound as NULL, for which SQLite takes the next one.
Key(t, k) == IF k = 0 THEN Max(DOMAIN t.at \cup {0}) + 1 ELSE k
\* An INSERT that another connection, a row with the key, or no table prevents.
Room(k) == Key(rows, k) <= MaxKey
Refused(k) == ~rows.exists \/ Key(rows, k) \in DOMAIN rows.at \/ others = "writes"
\* Outside of a transaction a statement commits by itself, if nobody reads.
Writes(t) == /\ rows' = t
             /\ durable' = IF inTx THEN durable ELSE t
CanWrite == others = "nothing" \/ (inTx /\ others = "reads")
Forgets(how) == leaks' = IF leaks = "row" THEN "row" ELSE how
\* An exception leaves a statement behind, if there is a table to prepare it for.
Throws == IF rows.exists THEN Forgets("done") ELSE UNCHANGED leaks
\* COMMIT, whose result nobody looks at.
Commits == IF others = "nothing" THEN durable' = rows /\ inTx' = FALSE ELSE UNCHANGED <<durable, inTx>>

Calling == batch = Idle
Changed == iter' = [iter EXCEPT !.clean = FALSE]
\* What a call that returned adds to what the program knows.
Knows(t) == now' = t /\ told' = IF inTx THEN told ELSE t
-----------------------------------------------------------------------------
SqlInit == /\ rows = NoTable /\ durable = NoTable /\ inTx = FALSE /\ others = "nothing" /\ leaks = "none"
           /\ iter = NoIter /\ batch = Idle /\ now = NoTable /\ told = NoTable /\ plain = TRUE

\* createTable(ifNotExists): the statement is never finalized, also when SQLite is
\* busy and an exception tells so.  For a table that is there it does nothing, or
\* without ifNotExists it is not prepared, and the step throws.
CreateTable ==
    /\ Calling
    /\ \/ rows.exists /\ (Forgets("done") \/ UNCHANGED leaks) /\ UNCHANGED <<rows, durable, now, told>>
       \/ /\ ~rows.exists /\ Forgets("done")
          /\ \/ CanWrite /\ Writes(Table(<<>>)) /\ Knows(Table(<<>>))
             \/ ~CanWrite /\ UNCHANGED <<rows, durable, now, told>>
    /\ UNCHANGED <<inTx, others, iter, batch, plain>>

\* dropTable(): nothing tells that it has failed, because a statement still
\* stands on a row or another connection reads.
DropTable ==
    /\ Calling
    /\ Knows(NoTable) /\ Changed
    /\ IF leaks = "row" \/ iter.code = "row" \/ ~CanWrite THEN plain' = FALSE /\ UNCHANGED <<rows, durable>>
       ELSE Writes(NoTable) /\ UNCHANGED plain
    /\ UNCHANGED <<inTx, others, leaks, batch>>

\* insert(S&)
Insert(k, v) ==
    /\ Calling /\ Room(k)
    /\ IF Refused(k) \/ ~CanWrite
       THEN Throws /\ UNCHANGED <<rows, durable, iter, now, told>>
       ELSE /\ Writes(With(rows, Key(rows, k), Narrowed(v))) /\ Knows(With(now, Key(rows, k), v))
            /\ Changed /\ UNCHANGED leaks
    /\ UNCHANGED <<inTx, others, batch, plain>>

\* Mutant: BEGIN is missing.
MutBeginBatch == \E b \in SeqOf((0 .. MaxKey) \X Attrs, MaxBatch) :
    /\ Calling
    /\ batch' = <<b, now>> /\ plain' = (plain /\ ~inTx)
    /\ UNCHANGED <<rows, durable, inTx, others, leaks, iter, now, told>>

\* insert(It, It): BEGIN has no effect in a transaction of the program's, and
\* the COMMIT at the end is that one's.
BeginBatch == \E b \in SeqOf((0 .. MaxKey) \X Attrs, MaxBatch) :
    /\ Calling
    /\ batch' = <<b, now>> /\ inTx' = TRUE /\ plain' = (plain /\ ~inTx)
    /\ UNCHANGED <<rows, durable, others, leaks, iter, now, told>>
\* A row; when it is refused the exception leaves the transaction open.
InsertRow ==
    /\ ~Calling /\ batch[1] # <<>>
    /\ LET k == Head(batch[1])[1]  v == Head(batch[1])[2]
       IN /\ Room(k)
          /\ IF Refused(k)
             THEN /\ batch' = Idle /\ Throws /\ plain' = FALSE
                  /\ UNCHANGED <<rows, durable, iter>>
             ELSE /\ batch' = <<Tail(batch[1]), With(batch[2], Key(rows, k), v)>>
                  /\ Writes(With(rows, Key(rows, k), Narrowed(v)))
                  /\ Changed /\ UNCHANGED <<leaks, plain>>
    /\ UNCHANGED <<inTx, others, now, told>>

CommitBatch ==
    /\ ~Calling /\ batch[1] = <<>>
    /\ batch' = Idle /\ Commits
    /\ now' = batch[2] /\ told' = batch[2]
    /\ plain' = (plain /\ others = "nothing")
    /\ UNCHANGED <<rows, others, leaks, iter>>

\* remove(): without a table there are no key columns, and the last one of none
\* is read; a key of 0 is bound as NULL, which no row has.
RemoveRow(k) ==
    /\ Calling /\ rows.exists
    /\ IF CanWrite
       THEN Writes(Without(rows, k)) /\ Knows(Without(now, k)) /\ Changed /\ UNCHANGED leaks
       ELSE Throws /\ UNCHANGED <<rows, durable, iter, now, told>>
    /\ UNCHANGED <<inTx, others, batch, plain>>

BeginTransaction == /\ Calling /\ ~inTx /\ inTx' = TRUE
                    /\ UNCHANGED <<rows, durable, others, leaks, iter, batch, now, told, plain>>
EndTransaction == /\ Calling /\ Commits /\ told' = now
                  /\ plain' = (plain /\ others = "nothing")
                  /\ UNCHANGED <<rows, others, leaks, iter, batch, now>>
-----------------------------------------------------------------------------
(* Iterators *)
StandsOn(i, keys) == IF keys = {} THEN [i EXCEPT !.code = "done"]
                     ELSE [i EXCEPT !.code = "row", !.handed = Append(@, <<Min(keys), rows.at[Min(keys)]>>)]
\* The iterator that was in use is forgotten with its statement.
Drops == IF iter.live THEN Forgets(iter.code) ELSE UNCHANGED leaks

\* select() and the constructor, which finalizes a statement without rows.
Select == /\ Calling /\ rows.exists
          /\ iter' = StandsOn([NoIter EXCEPT !.live = DOMAIN rows.at # {}], DOMAIN rows.at)
          /\ Drops /\ UNCHANGED <<rows, durable, inTx, others, batch, now, told, plain>>

\* Mutant: the object is built before the next row is there.
MutNextRow == /\ Calling /\ iter.code = "row" /\ rows.exists
              /\ LET keys == {k \in DOMAIN rows.at : k >= Last(iter.handed)[1]}
                 IN iter' = IF keys = {Last(iter.handed)[1]} THEN [iter EXCEPT !.code = "done"] ELSE StandsOn(iter, keys)
              /\ UNCHANGED <<rows, durable, inTx, others, leaks, batch, now, told, plain>>

\* operator++: the statement that comes to its end is not finalized.
NextRow == /\ Calling /\ iter.code = "row" /\ rows.exists
           /\ iter' = StandsOn(iter, {k \in DOMAIN rows.at : k > Last(iter.handed)[1]})
           /\ UNCHANGED <<rows, durable, inTx, others, leaks, batch, now, told, plain>>

\* A loop that is left early, and SweetQL::selectOne(), whose iterators end with
\* the call.
Abandon == /\ Calling /\ iter.code # "none"
           /\ iter' = NoIter /\ Drops
           /\ UNCHANGED <<rows, durable, inTx, others, batch, now, told, plain>>
-----------------------------------------------------------------------------
\* ~Sqlite3(), and another Sqlite3 for the same file: while there is a statement
\* sqlite3_close() does nothing, and what the connection holds stays held.
Reopen ==
    /\ Calling
    /\ others' = IF leaks = "none" /\ ~iter.live THEN others
                 ELSE IF inTx /\ rows # durable THEN "writes"
                 ELSE IF "row" \in {leaks, iter.code} /\ others = "nothing" THEN "reads" ELSE others
    /\ rows' = durable /\ inTx' = FALSE /\ leaks' = "none" /\ iter' = NoIter
    /\ now' = told
    /\ UNCHANGED <<durable, batch, told, plain>>

\* The process ends, at any step, and another one begins.
Restart ==
    /\ rows' = durable /\ inTx' = FALSE /\ others' = "nothing" /\ leaks' = "none" /\ iter' = NoIter
    /\ batch' = Idle /\ now' = told
    /\ UNCHANGED <<durable, told, plain>>

\* A program is not followed beyond what the binding cannot cope with.
SqlNext == /\ plain
           /\ \/ CreateTable \/ DropTable \/ BeginBatch \/ InsertRow \/ CommitBatch
              \/ \E k \in 0 .. MaxKey : RemoveRow(k) \/ \E v \in Attrs : Insert(k, v)
              \/ BeginTransaction \/ EndTransaction
              \/ Select \/ NextRow \/ Abandon \/ Reopen \/ Restart
-----------------------------------------------------------------------------
SqlTypeOK == /\ others \in {"nothing", "reads", "writes"} /\ leaks \in {"none", "done", "row"}
             /\ iter.code \in {"none", "row", "done"}
             /\ \A k \in DOMAIN rows.at : rows.at[k] < IntRange

\* A table holds what the program has put there: the same keys, and the values
\* an int can hold.
Holds(t, known) == /\ t.exists = known.exists /\ DOMAIN t.at = DOMAIN known.at
                   /\ \A k \in DOMAIN known.at : known.at[k] < IntRange => t.at[k] = known.at[k]

\* What the calls that have returned made of the table is what there is, also
\* after a restart at any step: all of a range, of which an exception or a
\* restart leaves nothing, and all of a transaction once it has ended.  Not so
\* from an insert of a range that fails or is made in a transaction, a table
\* dropped under an iterator, and a commit while a connection that could not be
\* closed still reads (sqliteimpl.hpp 167-310).
RowsAreKept == plain => /\ Holds(durable, told)
                        /\ Calling => Holds(rows, now)

\* A loop over a table that nobody changes meanwhile is handed every row once,
\* in the order of the keys (sqliteimpl.hpp 22-33, 78-91).
EveryRowIsHandedOut ==
    iter.clean /\ iter.code # "none" =>
        LET handed == iter.handed
            before == {k \in DOMAIN rows.at : iter.code = "done" \/ k <= Last(handed)[1]}
        IN /\ \A i, j \in DOMAIN handed : i < j => handed[i][1] < handed[j][1]
           /\ Range(handed) = {<<k, rows.at[k]>> : k \in before}
=============================================================================
