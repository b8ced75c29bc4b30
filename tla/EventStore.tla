------------------------------ MODULE EventStore ------------------------------
(* The SQLite event store shared by processes (events.py, migrate.py) and     *)
(* the hash chain over its rows (chain.py).                                   *)
(*                                                                            *)
(* A call is a connection. Its statements outside a transaction are steps of  *)
(* their own; BEGIN IMMEDIATE takes the write lock and holds it to COMMIT or   *)
(* ROLLBACK. A killed process loses its transaction and its answer. SHA-256    *)
(* is symbolic: a digest is the preimage.                                     *)
EXTENDS Naturals, FiniteSets, Sequences

CONSTANTS
  Writers,     \* processes, one connection each
  Runs,        \* run_id values
  EventIds,
  Bodies,      \* everything else of an event that is hashed
  MaxRows,     \* bound: rows of the table
  MaxCrashes,  \* bound: killed processes
  Null         \* SQL NULL, None, no holder

ASSUME EventStoreAssumption ==
  /\ MaxRows \in Nat /\ MaxCrashes \in Nat
  /\ Null \notin Writers \cup Runs \cup EventIds \cup Bodies \cup Nat
  /\ Null # << >>

VARIABLES
  schema,   \* which columns the events table has
  version,  \* PRAGMA user_version
  rows,     \* committed rows
  lock,     \* holder of the write lock
  call,     \* per process: its current or last call
  crashes

vars == << schema, version, rows, lock, call, crashes >>

\* "legacy" has no chain columns, "fresh" has event_hash NOT NULL, "migrated"
\* has nullable ones.
Schemas == { "absent", "legacy", "fresh", "migrated" }

HasChainColumns == schema \in { "fresh", "migrated" }

-----------------------------------------------------------------------------
(* Rows and the chain.                                                      *)

\* compute_event_hash
Digest(row) == << row.run, row.seq, row.id, row.body, row.prev >>

IsRow(row) ==
  /\ DOMAIN row = { "run", "seq", "id", "body", "prev", "hash" }
  /\ row.run \in Runs /\ row.seq \in Nat
  /\ row.id \in EventIds /\ row.body \in Bodies

SequencesOf(r) == { row.seq : row \in { x \in rows : x.run = r } }

\* MAX(sequence) + 1, and 0 when there is none.
NextAfter(used) ==
  IF used = {} THEN 0 ELSE 1 + (CHOOSE m \in used : \A n \in used : n <= m)

NextSequence(r) == NextAfter(SequencesOf(r))

RowAt(r, s) == CHOOSE row \in rows : row.run = r /\ row.seq = s

\* What a read returns: the rows of one run in sequence order.
Stream(r) == [ i \in 1 .. NextSequence(r) |-> RowAt(r, i - 1) ]

Broken == << >>

\* Seeded fault: the stored hash is believed.
LinkTrustsColumn(head, row) ==
  IF head = Broken THEN Broken
  ELSE IF row.hash = Null THEN IF head = Null THEN Null ELSE Broken
  ELSE IF row.prev = head THEN row.hash ELSE Broken

\* link_issue, and the head after a record that has none.
Link(head, row) ==
  IF head = Broken THEN Broken
  ELSE IF row.hash = Null THEN IF head = Null THEN Null ELSE Broken
  ELSE IF row.prev = head /\ row.hash = Digest(row) THEN row.hash ELSE Broken

\* verify_chain: the head after each prefix of a stream.
Heads(stream) ==
  LET h[i \in 0 .. Len(stream)] ==
        IF i = 0 THEN Null ELSE Link(h[i - 1], stream[i])
  IN  h

VerifiedHead(stream) == Heads(stream)[Len(stream)]

\* head_sequence finds the digest at position i, by replay.
WasHeadAt(stream, digest, i) ==
  /\ Heads(stream)[i] = digest
  /\ stream[i].hash = digest

-----------------------------------------------------------------------------
(* Calls.                                                                    *)

Waiting == { "create", "stamp", "begin", "m_begin", "m_stamp" }
Points == Waiting \cup { "idle", "probe", "locked", "inserted", "committed",
                         "m_check", "m_alter", "m_report" }
Outcomes == { "none", "ok", "conflict", "duplicate", "refused" }

NoCall == [ pc |-> "idle", op |-> "none", run |-> Null, id |-> Null,
            body |-> Null, expected |-> Null, fresh |-> FALSE, row |-> Null,
            outcome |-> "none", migrated |-> FALSE, report |-> Null ]

At(w, pc) == call[w].pc = pc

Goto(w, pc) == call' = [ call EXCEPT ![w].pc = pc ]

Answer(w, outcome) ==
  call' = [ call EXCEPT ![w].pc = "idle", ![w].outcome = outcome ]

\* A store is new, or was left by an older release with rows of one run.
LegacyRow(r, s, id, body) ==
  [ run |-> r, seq |-> s, id |-> id, body |-> body, prev |-> Null, hash |-> Null ]

Init ==
  /\ \/ schema = "absent" /\ rows = {}
     \/ /\ schema = "legacy"
        /\ \E r \in Runs, id \in EventIds, b \in Bodies :
             rows = { LegacyRow(r, 0, id, b) }
  /\ version = 0
  /\ lock = Null
  /\ call = [ w \in Writers |-> NoCall ]
  /\ crashes = 0

\* An append begins: with a new event id or the one of an earlier attempt,
\* with or without the length of the log its caller read.
StartAppend(w, r, id, b) ==
  /\ At(w, "idle")
  /\ Cardinality(rows) < MaxRows
  /\ \E expected \in { Null, NextSequence(r) } :
       call' = [ call EXCEPT ![w] =
         [ NoCall EXCEPT !.pc = "probe", !.op = "append", !.run = r, !.id = id,
                         !.body = b, !.expected = expected ] ]
  /\ UNCHANGED << schema, version, rows, lock, crashes >>

\* _connect looks for the table, ...
Probe(w) ==
  /\ At(w, "probe")
  /\ call' = [ call EXCEPT ![w].pc = "create", ![w].fresh = (schema = "absent") ]
  /\ UNCHANGED << schema, version, rows, lock, crashes >>

\* ... creates it if it does not exist, ...
Create(w) ==
  /\ At(w, "create")
  /\ schema = "absent" => lock = Null
  /\ schema' = IF schema = "absent" THEN "fresh" ELSE schema
  /\ Goto(w, IF call[w].fresh THEN "stamp" ELSE "begin")
  /\ UNCHANGED << version, rows, lock, crashes >>

\* ... and declares generation 2 when it had not found it.
Stamp(w) ==
  /\ At(w, "stamp")
  /\ lock = Null
  /\ version' = 2
  /\ Goto(w, "begin")
  /\ UNCHANGED << schema, rows, lock, crashes >>

Begin(w) ==
  /\ At(w, "begin")
  /\ lock = Null
  /\ lock' = w
  /\ Goto(w, "locked")
  /\ UNCHANGED << schema, version, rows, crashes >>

\* The busy timeout ends before the lock is free.
Busy(w) ==
  /\ call[w].pc \in Waiting
  /\ At(w, "create") => schema = "absent"
  /\ lock # Null
  /\ Answer(w, "refused")
  /\ UNCHANGED << schema, version, rows, lock, crashes >>

\* Seeded fault: only a caller ahead of the log is refused.
StaleIfAhead(w) ==
  /\ call[w].expected # Null
  /\ call[w].expected > NextSequence(call[w].run)

\* The transaction of an append. Each test below is made under the lock.
Stale(w) ==
  /\ call[w].expected # Null
  /\ call[w].expected # NextSequence(call[w].run)

\* Seeded fault: no UNIQUE on event_id.
IdStoredUnchecked(id) == FALSE

IdStored(id) == \E row \in rows : row.id = id

\* Seeded fault: a predecessor numbered 0 counts as none.
PreviousHashIfTruthy(r) ==
  IF NextSequence(r) <= 1 THEN Null ELSE RowAt(r, NextSequence(r) - 1).hash

PreviousHash(r) ==
  IF NextSequence(r) = 0 THEN Null ELSE RowAt(r, NextSequence(r) - 1).hash

NewRow(w) ==
  LET c    == call[w]
      base == [ run |-> c.run, seq |-> NextSequence(c.run), id |-> c.id,
                body |-> c.body, prev |-> PreviousHash(c.run), hash |-> Null ]
  IN  IF HasChainColumns THEN [ base EXCEPT !.hash = Digest(base) ]
      ELSE [ base EXCEPT !.prev = Null ]

\* Seeded fault: the transaction is left open.
ConflictWithoutRollback(w) ==
  /\ At(w, "locked")
  /\ Stale(w)
  /\ Answer(w, "conflict")
  /\ UNCHANGED << schema, version, rows, lock, crashes >>

Conflict(w) ==
  /\ At(w, "locked")
  /\ Stale(w)
  /\ lock' = Null
  /\ Answer(w, "conflict")
  /\ UNCHANGED << schema, version, rows, crashes >>

Duplicate(w) ==
  /\ At(w, "locked")
  /\ ~Stale(w)
  /\ IdStored(call[w].id)
  /\ lock' = Null
  /\ Answer(w, "duplicate")
  /\ UNCHANGED << schema, version, rows, crashes >>

Insert(w) ==
  /\ At(w, "locked")
  /\ ~Stale(w)
  /\ ~IdStored(call[w].id)
  /\ call' = [ call EXCEPT ![w].pc = "inserted", ![w].row = NewRow(w) ]
  /\ UNCHANGED << schema, version, rows, lock, crashes >>

Commit(w) ==
  /\ At(w, "inserted")
  /\ rows' = rows \cup { call[w].row }
  /\ lock' = Null
  /\ Goto(w, "committed")
  /\ UNCHANGED << schema, version, crashes >>

Return(w) ==
  /\ At(w, "committed")
  /\ Answer(w, "ok")
  /\ UNCHANGED << schema, version, rows, lock, crashes >>

\* A killed process: an open transaction is rolled back, a committed row stays
\* although nobody was told.
Crash(w) ==
  /\ ~At(w, "idle")
  /\ crashes < MaxCrashes
  /\ crashes' = crashes + 1
  /\ lock' = IF lock = w THEN Null ELSE lock
  /\ call' = [ call EXCEPT ![w] = NoCall ]
  /\ UNCHANGED << schema, version, rows >>

\* A release before the chain appends. Only a fresh store's NOT NULL refuses it.
LegacyAppend(r, id, b) ==
  /\ Cardinality(rows) < MaxRows
  /\ schema \in { "legacy", "migrated" }
  /\ lock = Null
  /\ ~IdStored(id)
  /\ rows' = rows \cup { LegacyRow(r, NextSequence(r), id, b) }
  /\ UNCHANGED << schema, version, lock, call, crashes >>

-----------------------------------------------------------------------------
(* loop migrate.                                                             *)

\* A missing store is refused before anything is opened.
StartMigrate(w) ==
  /\ At(w, "idle")
  /\ schema # "absent"
  /\ call' = [ call EXCEPT ![w] = [ NoCall EXCEPT !.pc = "m_check", !.op = "migrate" ] ]
  /\ UNCHANGED << schema, version, rows, lock, crashes >>

\* Seeded fault: the generation is stamped before the table is widened.
MigrateCheckAndStamp(w) ==
  /\ At(w, "m_check")
  /\ lock = Null
  /\ version' = 2
  /\ Goto(w, IF HasChainColumns THEN "m_stamp" ELSE "m_begin")
  /\ UNCHANGED << schema, rows, lock, crashes >>

MigrateCheck(w) ==
  /\ At(w, "m_check")
  /\ Goto(w, IF HasChainColumns THEN "m_stamp" ELSE "m_begin")
  /\ UNCHANGED << schema, version, rows, lock, crashes >>

MigrateBegin(w) ==
  /\ At(w, "m_begin")
  /\ lock = Null
  /\ lock' = w
  /\ Goto(w, "m_alter")
  /\ UNCHANGED << schema, version, rows, crashes >>

\* Both columns in one transaction; they may have been added since the check.
MigrateAlter(w) ==
  /\ At(w, "m_alter")
  /\ lock' = Null
  /\ IF HasChainColumns
     THEN Answer(w, "refused") /\ UNCHANGED schema
     ELSE /\ call' = [ call EXCEPT ![w].pc = "m_stamp", ![w].migrated = TRUE ]
          /\ schema' = "migrated"
  /\ UNCHANGED << version, rows, crashes >>

MigrateStamp(w) ==
  /\ At(w, "m_stamp")
  /\ lock = Null
  /\ version' = 2
  /\ Goto(w, "m_report")
  /\ UNCHANGED << schema, rows, lock, crashes >>

\* chained_from_sequence, from the whole table and outside the transaction.
ChainedFrom == NextAfter({ row.seq : row \in rows })

MigrateReport(w) ==
  /\ At(w, "m_report")
  /\ call' = [ call EXCEPT ![w].pc = "idle", ![w].outcome = "ok",
                           ![w].report = ChainedFrom ]
  /\ UNCHANGED << schema, version, rows, lock, crashes >>

-----------------------------------------------------------------------------
Connect(w) == Probe(w) \/ Create(w) \/ Stamp(w) \/ Begin(w) \/ Busy(w)

Transact(w) == Conflict(w) \/ Duplicate(w) \/ Insert(w) \/ Commit(w) \/ Return(w)

Migrate(w) ==
  \/ StartMigrate(w) \/ MigrateCheck(w) \/ MigrateBegin(w)
  \/ MigrateAlter(w) \/ MigrateStamp(w) \/ MigrateReport(w)

Next ==
  \/ \E w \in Writers : Connect(w) \/ Transact(w) \/ Migrate(w) \/ Crash(w)
  \/ \E w \in Writers, r \in Runs, id \in EventIds, b \in Bodies :
       StartAppend(w, r, id, b)
  \/ \E r \in Runs, id \in EventIds, b \in Bodies : LegacyAppend(r, id, b)

Spec == Init /\ [][Next]_vars

-----------------------------------------------------------------------------
(* Properties.                                                               *)

\* The variables keep their types; a row in flight is held under the lock.
TypeOK ==
  /\ schema \in Schemas
  /\ version \in { 0, 2 }
  /\ crashes \in 0 .. MaxCrashes
  /\ lock \in Writers \cup { Null }
  /\ \A row \in rows : IsRow(row)
  /\ DOMAIN call = Writers
  /\ \A w \in Writers :
       /\ DOMAIN call[w] = DOMAIN NoCall
       /\ call[w].pc \in Points
       /\ call[w].outcome \in Outcomes
       /\ call[w].pc \in { "locked", "inserted", "m_alter" } <=> lock = w
       /\ call[w].pc = "inserted" => IsRow(call[w].row)

\* Appends of this release, racing one another, migrations and crashes, never
\* break the chain: replay stops only at a row an older release appended after
\* the chain had begun.
OnlyLegacyBreaks ==
  \A r \in Runs :
    LET s == Stream(r)
    IN  VerifiedHead(s) = Broken =>
          \E i, j \in 1 .. Len(s) : i < j /\ s[i].hash # Null /\ s[j].hash = Null

Edited(s, k, id) == [ s EXCEPT ![k].id = id ]

Rehashed(s, k, id) ==
  [ Edited(s, k, id) EXCEPT ![k].hash = Digest(Edited(s, k, id)[k]) ]

\* What somebody with write access to the file might present as a run: the
\* end cut off, a row removed, two rows exchanged, a row changed with or
\* without a new digest.
Presented(s) ==
  LET n == Len(s)
      without(k)  == [ i \in 1 .. n - 1 |-> IF i < k THEN s[i] ELSE s[i + 1] ]
      swapped(k)  == [ s EXCEPT ![k] = s[k + 1], ![k + 1] = s[k] ]
  IN  { s } \cup { SubSeq(s, 1, k) : k \in 0 .. n }
            \cup { without(k) : k \in 1 .. n }
            \cup { swapped(k) : k \in 1 .. n - 1 }
            \cup { Edited(s, k, id) : k \in 1 .. n, id \in EventIds }
            \cup { Rehashed(s, k, id) : k \in 1 .. n, id \in EventIds }

SameRow(x, y) == Digest(x) = Digest(y) /\ x.hash = y.hash

\* Counted back from positions j and i, the chained rows of p are those of s.
ChainedAlike(p, j, s, i) ==
  /\ \A k \in 0 .. j - 1 : p[j - k].hash # Null => k < i /\ SameRow(p[j - k], s[i - k])
  /\ \A k \in 0 .. i - 1 : s[i - k].hash # Null => k < j /\ SameRow(p[j - k], s[i - k])

\* An anchored head fixes the chained history below it: in whatever is
\* presented, a replay that finds the anchor has seen exactly the chained rows
\* that were there when it was the head.
AnchorDeterminesPrefix ==
  \A r \in Runs :
    LET s == Stream(r)
    IN  \A i \in 1 .. Len(s) : WasHeadAt(s, s[i].hash, i) /\ s[i].hash # Null =>
          \A p \in Presented(s) : \A j \in 1 .. Len(p) :
            p[j].hash = s[i].hash /\ WasHeadAt(p, s[i].hash, j) =>
              ChainedAlike(p, j, s, i)

\* What a caller is told is true: success means its own event is stored where
\* it expected; a conflict that the log is longer than the one it read; a
\* duplicate that its id is stored, by it or by another.
OutcomesTruthful ==
  \A w \in Writers :
    LET c == call[w]
    IN  c.op = "append" /\ c.pc = "idle" =>
          /\ c.outcome = "ok" =>
               /\ c.row \in rows
               /\ << c.row.run, c.row.id, c.row.body >> = << c.run, c.id, c.body >>
               /\ c.expected \in { Null, c.row.seq }
          /\ c.outcome = "conflict" => NextSequence(c.run) > c.expected
          /\ c.outcome = "duplicate" => IdStored(c.id)

\* doctor's downgrade alarm has no false positives: a store that declares
\* generation 2 has the chain columns, whichever processes were killed where.
VersionTwoHasColumns == version = 2 => HasChainColumns

\* The table implements one append-only log per run, with every event id used
\* once.
Contents(r) ==
  [ i \in 1 .. NextSequence(r) |->
      LET row == RowAt(r, i - 1) IN [ id |-> row.id, body |-> row.body ] ]

Log == INSTANCE AppendLog WITH
         Entries <- [ id : EventIds, body : Bodies ],
         logs <- [ r \in Runs |-> Contents(r) ]

ImplementsAppendLog == Log!Spec

\* "the first post-migration append is a chain genesis (chained_from_sequence
\* in the migrate report names it)": no chained row comes before the one named
\* by the migration that widened the table.
MigrateReportNamesGenesis ==
  \A w \in Writers : call[w].migrated /\ call[w].report # Null =>
    \A row \in rows : row.hash # Null => row.seq >= call[w].report
=============================================================================
