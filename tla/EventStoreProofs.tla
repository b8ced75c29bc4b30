--------------------------- MODULE EventStoreProofs ---------------------------
(* Proofs about the event store, for any number of processes, runs, ids and  *)
(* rows, and any interleaving, crash, migration and older release.           *)
(*                                                                            *)
(* IInv has one part per idea: the numbering of each run (Numbered), ids      *)
(* used once (UniqueIds), links (Linked), what the schema has become          *)
(* (SchemaOK), and, per call, what its place in the code implies (CallOK).    *)
EXTENDS EventStore, SequenceTheorems, FiniteSetTheorems, WellFoundedInduction, TLAPS

Fields == { "pc", "op", "run", "id", "body", "expected", "fresh", "row",
            "outcome", "migrated", "report" }

Appending == { "probe", "create", "stamp", "begin", "locked", "inserted", "committed" }

\* The rows of a run are numbered 0, 1, ... without gaps, each number once.
Numbered ==
  /\ \A r \in Runs : /\ NextSequence(r) \in Nat
                     /\ SequencesOf(r) = 0 .. NextSequence(r) - 1
  /\ \A x, y \in rows : x.run = y.run /\ x.seq = y.seq => x = y

UniqueIds == \A x, y \in rows : x.id = y.id => x = y

\* A chained row holds its own digest and the hash of the row before it.
Linked ==
  \A x \in rows : x.hash # Null =>
    /\ x.hash = Digest(x)
    /\ x.seq = 0 => x.prev = Null
    /\ \A y \in rows : y.run = x.run /\ x.seq = y.seq + 1 => x.prev = y.hash

SchemaOK ==
  /\ schema = "absent" => rows = {}
  /\ version = 2 => HasChainColumns

Own(c) == << c.row.run, c.row.id, c.row.body >> = << c.run, c.id, c.body >>

CallOK(w) ==
  LET c == call[w]
  IN  /\ c.pc \in Appending => c.op = "append"
      /\ c.pc \in { "m_check", "m_begin", "m_alter", "m_stamp", "m_report" } =>
           c.op = "migrate"
      /\ c.op = "append" => /\ c.run \in Runs /\ c.id \in EventIds /\ c.body \in Bodies
                            /\ c.expected # Null => /\ c.expected \in Nat
                                                    /\ c.expected <= NextSequence(c.run)
      /\ c.fresh => schema \in { "absent", "fresh" }
      /\ c.pc \in { "stamp", "m_stamp" } => HasChainColumns
      /\ c.pc \in { "stamp", "begin", "locked", "inserted", "m_check", "m_begin",
                    "m_alter", "m_stamp" } => schema # "absent"
      /\ c.pc = "create" /\ ~c.fresh => schema # "absent"
      /\ c.pc = "inserted" => /\ c.row = NewRow(w) /\ ~IdStored(c.id)
                              /\ ~Stale(w)
      /\ c.op = "append" /\ (c.pc = "committed" \/ (c.pc = "idle" /\ c.outcome = "ok")) =>
           c.row \in rows /\ Own(c) /\ c.expected \in { Null, c.row.seq }
      /\ c.op = "append" /\ c.pc = "idle" /\ c.outcome = "conflict" =>
           c.expected # Null /\ NextSequence(c.run) > c.expected
      /\ c.op = "append" /\ c.pc = "idle" /\ c.outcome = "duplicate" => IdStored(c.id)

IInv ==
  /\ TypeOK
  /\ Numbered
  /\ UniqueIds
  /\ Linked
  /\ SchemaOK
  /\ \A w \in Writers : CallOK(w)
-------------------------------------------------------------------------------
(* The numbering.                                                             *)

\* The next number after 0 .. n - 1 is n.
LEMMA NextIs ==
  ASSUME NEW n \in Nat
  PROVE  NextAfter(0 .. n - 1) = n
<1>1. CASE n = 0
  <2>1. 0 .. n - 1 = {}
    BY <1>1
  <2> QED BY <1>1, <2>1 DEF NextAfter
<1>2. CASE n > 0
  <2>1. 0 \in 0 .. n - 1 /\ n - 1 \in 0 .. n - 1
    BY <1>2
  <2>2. \A k \in 0 .. n - 1 : k <= n - 1
    OBVIOUS
  <2>3. \A m \in 0 .. n - 1 : (\A k \in 0 .. n - 1 : k <= m) => m = n - 1
    BY <2>1, <2>2
  <2>4. (CHOOSE m \in 0 .. n - 1 : \A k \in 0 .. n - 1 : k <= m) = n - 1
    BY <2>1, <2>2, <2>3
  <2>5. 0 .. n - 1 # {}
    BY <2>1
  <2> QED BY <2>4, <2>5 DEF NextAfter
<1> QED BY <1>1, <1>2

\* Every number below the next is some row's, and RowAt finds it.
LEMMA RowAtFinds ==
  ASSUME Numbered, NEW r \in Runs, NEW k \in 0 .. NextSequence(r) - 1
  PROVE  RowAt(r, k) \in rows /\ RowAt(r, k).run = r /\ RowAt(r, k).seq = k
<1>1. k \in SequencesOf(r)
  BY DEF Numbered
<1>2. \E row \in rows : row.run = r /\ row.seq = k
  BY <1>1 DEF SequencesOf
<1> QED BY <1>2 DEF RowAt

\* A row stored under the next number keeps every run numbered, and only its
\* run grows.
LEMMA StoreNumbers ==
  ASSUME Numbered, \A row \in rows : IsRow(row), NEW x, IsRow(x),
         x.seq = NextSequence(x.run), rows' = rows \cup { x }
  PROVE  /\ Numbered'
         /\ \A r \in Runs : NextSequence(r)' =
              IF r = x.run THEN NextSequence(r) + 1 ELSE NextSequence(r)
<1>0. x.run \in Runs /\ x.seq \in Nat
  BY DEF IsRow
<1>1. \A r \in Runs : SequencesOf(r)' =
        IF r = x.run THEN SequencesOf(r) \cup { x.seq } ELSE SequencesOf(r)
  BY DEF SequencesOf
<1>2. ASSUME NEW r \in Runs
      PROVE  LET n == IF r = x.run THEN NextSequence(r) + 1 ELSE NextSequence(r)
             IN  n \in Nat /\ SequencesOf(r)' = 0 .. n - 1 /\ NextSequence(r)' = n
  <2> DEFINE n == IF r = x.run THEN NextSequence(r) + 1 ELSE NextSequence(r)
  <2>1. NextSequence(r) \in Nat /\ SequencesOf(r) = 0 .. NextSequence(r) - 1
    BY DEF Numbered
  <2>2. n \in Nat
    BY <2>1
  <2>3. SequencesOf(r)' = 0 .. n - 1
    <3>1. CASE r = x.run
      <4>1. SequencesOf(r)' = (0 .. NextSequence(r) - 1) \cup { NextSequence(r) }
        BY <1>1, <2>1, <3>1
      <4> QED BY <2>1, <3>1, <4>1
    <3>2. CASE r # x.run
      BY <1>1, <2>1, <3>2
    <3> QED BY <3>1, <3>2
  <2> HIDE DEF n
  <2>4. NextSequence(r)' = n
    BY <2>2, <2>3, NextIs DEF NextSequence
  <2> QED BY <2>2, <2>3, <2>4 DEF n
<1>3. ASSUME NEW y \in rows', NEW z \in rows', y.run = z.run, y.seq = z.seq
      PROVE  y = z
  <2>1. \A u \in rows : u.run = x.run => u.seq # x.seq
    <3>1. \A u \in rows : u.run = x.run => u.seq \in SequencesOf(x.run)
      BY DEF SequencesOf
    <3>2. NextSequence(x.run) \in Nat /\ SequencesOf(x.run) = 0 .. NextSequence(x.run) - 1
      BY <1>0 DEF Numbered
    <3> QED BY <3>1, <3>2
  <2> QED BY <1>3, <2>1 DEF Numbered
<1> QED BY <1>2, <1>3 DEF Numbered
-------------------------------------------------------------------------------
(* What a step leaves alone.                                                  *)

\* A step that changes only one call leaves the table's parts and what is known
\* of the other calls.
LEMMA OneCallChanges ==
  ASSUME IInv, NEW w \in Writers, NEW c, call' = [ call EXCEPT ![w] = c ],
         UNCHANGED << schema, rows >>
  PROVE  /\ Numbered' /\ UniqueIds' /\ Linked'
         /\ \A v \in Writers \ { w } : CallOK(v)'
<1>1. \A r : NextSequence(r)' = NextSequence(r) /\ SequencesOf(r)' = SequencesOf(r)
  BY DEF NextSequence, SequencesOf
<1>2. Numbered'
  BY <1>1 DEF IInv, Numbered
<1>3. UniqueIds' /\ Linked'
  BY DEF IInv, UniqueIds, Linked
<1>4. ASSUME NEW v \in Writers \ { w }
      PROVE  CallOK(v)'
  <2>1. call'[v] = call[v]
    BY DEF IInv, TypeOK
  <2>2. HasChainColumns' = HasChainColumns /\ \A id : IdStored(id)' = IdStored(id)
    BY DEF HasChainColumns, IdStored
  <2>3. ASSUME NEW r
        PROVE  PreviousHash(r)' = PreviousHash(r)
    <3>1. \A k : RowAt(r, k)' = RowAt(r, k)
      BY DEF RowAt
    <3>2. NextSequence(r)' = NextSequence(r)
      BY <1>1
    <3> QED BY <3>1, <3>2 DEF PreviousHash
  <2>4. NewRow(v)' = NewRow(v)
    BY <1>1, <2>1, <2>2, <2>3 DEF NewRow
  <2>5. Stale(v)' = Stale(v)
    BY <1>1, <2>1 DEF Stale
  <2>6. CallOK(v)
    BY DEF IInv
  <2> QED BY <1>1, <2>1, <2>2, <2>4, <2>5, <2>6 DEF CallOK
<1> QED BY <1>2, <1>3, <1>4

\* Widening or creating the table, when no row is in flight, too.
LEMMA SchemaChanges ==
  ASSUME IInv, NEW w \in Writers, NEW c, call' = [ call EXCEPT ![w] = c ],
         UNCHANGED rows, lock \in { Null, w },
         \/ schema = "absent" /\ schema' = "fresh"
         \/ schema = "legacy" /\ schema' = "migrated"
  PROVE  /\ Numbered' /\ UniqueIds' /\ Linked' /\ HasChainColumns'
         /\ \A v \in Writers \ { w } : CallOK(v)'
<1>1. \A r : NextSequence(r)' = NextSequence(r) /\ SequencesOf(r)' = SequencesOf(r)
  BY DEF NextSequence, SequencesOf
<1>2. Numbered'
  BY <1>1 DEF IInv, Numbered
<1>3. UniqueIds' /\ Linked'
  BY DEF IInv, UniqueIds, Linked
<1>4. HasChainColumns'
  BY DEF HasChainColumns
<1>5. ASSUME NEW v \in Writers \ { w }
      PROVE  CallOK(v)'
  <2>1. call'[v] = call[v]
    BY DEF IInv, TypeOK
  <2>2. \A id : IdStored(id)' = IdStored(id)
    BY DEF IdStored
  <2>3. call[v].pc # "inserted"
    BY EventStoreAssumption DEF IInv, TypeOK
  <2>4. CallOK(v)
    BY DEF IInv
  <2> QED BY <1>1, <1>4, <2>1, <2>2, <2>3, <2>4 DEF CallOK
<1> QED BY <1>2, <1>3, <1>4, <1>5

\* A stored row extends its run by one link.
LEMMA RowStored ==
  ASSUME IInv, UNCHANGED schema, NEW x, rows' = rows \cup { x },
         IsRow(x), x.seq = NextSequence(x.run), ~IdStored(x.id),
         x.hash # Null => x.hash = Digest(x) /\ x.prev = PreviousHash(x.run),
         schema # "absent"
  PROVE  /\ Numbered' /\ UniqueIds' /\ Linked'
         /\ \A v \in Writers :
              call'[v] = call[v] /\ call[v].pc # "inserted" => CallOK(v)'
<1>0. Numbered /\ UniqueIds /\ Linked /\ \A row \in rows : IsRow(row)
  BY DEF IInv, TypeOK
<1>1. /\ Numbered'
      /\ \A r \in Runs : NextSequence(r)' =
           IF r = x.run THEN NextSequence(r) + 1 ELSE NextSequence(r)
  BY <1>0, StoreNumbers
<1>2. \A r \in Runs : NextSequence(r) \in Nat
  BY <1>0 DEF Numbered
<1>3. UniqueIds'
  BY <1>0 DEF UniqueIds, IdStored
<1>4. Linked'
  <2> SUFFICES ASSUME NEW y \in rows', y.hash # Null
               PROVE  /\ y.hash = Digest(y)
                      /\ y.seq = 0 => y.prev = Null
                      /\ \A z \in rows' : z.run = y.run /\ y.seq = z.seq + 1 =>
                           y.prev = z.hash
    BY DEF Linked
  <2>0. x.run \in Runs /\ x.seq \in Nat /\ \A z \in rows : z.seq \in Nat /\ z.run \in Runs
    BY <1>0 DEF IsRow
  <2>1. CASE y = x
    <3>1. x.seq = 0 => x.prev = Null
      BY <2>1 DEF PreviousHash
    <3>2. ASSUME NEW z \in rows, z.run = x.run, x.seq = z.seq + 1
          PROVE  x.prev = z.hash
      <4>1. NextSequence(x.run) # 0 /\ NextSequence(x.run) - 1 = z.seq
        BY <2>0, <3>2
      <4>2. z.seq \in 0 .. NextSequence(x.run) - 1
        BY <2>0, <3>2
      <4>3. RowAt(x.run, z.seq) \in rows /\ RowAt(x.run, z.seq).run = x.run
              /\ RowAt(x.run, z.seq).seq = z.seq
        BY <1>0, <2>0, <4>2, RowAtFinds
      <4>4. RowAt(x.run, z.seq) = z
        BY <1>0, <3>2, <4>3 DEF Numbered
      <4> QED BY <2>1, <4>1, <4>4 DEF PreviousHash
    <3> QED BY <2>0, <2>1, <3>1, <3>2
  <2>2. CASE y # x
    <3>1. y \in rows
      BY <2>2
    <3>2. y.run = x.run => y.seq < x.seq
      <4>1. y.run = x.run => y.seq \in SequencesOf(x.run)
        BY <3>1 DEF SequencesOf
      <4> QED BY <1>0, <1>2, <2>0, <4>1 DEF Numbered
    <3> QED BY <1>0, <2>0, <3>1, <3>2 DEF Linked
  <2> QED BY <2>1, <2>2
<1>5. ASSUME NEW v \in Writers, call'[v] = call[v], call[v].pc # "inserted"
      PROVE  CallOK(v)'
  <2>1. \A id : IdStored(id) => IdStored(id)'
    BY DEF IdStored
  <2>2. HasChainColumns' = HasChainColumns
    BY DEF HasChainColumns
  <2>3. CallOK(v)
    BY DEF IInv
  <2>4. call[v].op = "append" => NextSequence(call[v].run)' >= NextSequence(call[v].run)
          /\ NextSequence(call[v].run) \in Nat /\ NextSequence(call[v].run)' \in Nat
    BY <1>1, <1>2, <1>5, <2>3 DEF CallOK
  <2> QED BY <1>5, <2>1, <2>2, <2>3, <2>4 DEF CallOK, Own
<1> QED BY <1>1, <1>3, <1>4, <1>5
-------------------------------------------------------------------------------
(* The steps.                                                                 *)

LEMMA InitIInv == Init => IInv
<1> SUFFICES ASSUME Init PROVE IInv
  OBVIOUS
<1>1. TypeOK
  <2>1. \A row \in rows : IsRow(row)
    BY DEF Init, IsRow, LegacyRow
  <2>2. \A w \in Writers : call[w] = NoCall /\ lock # w
    BY EventStoreAssumption DEF Init
  <2>3. schema \in Schemas /\ version \in { 0, 2 } /\ lock = Null
        /\ crashes \in 0 .. MaxCrashes /\ DOMAIN call = Writers
    BY EventStoreAssumption DEF Init, Schemas
  <2> QED BY <2>1, <2>2, <2>3 DEF TypeOK, NoCall, Points, Waiting, Outcomes
<1>2. \A w \in Writers : CallOK(w)
  <2>1. \A w \in Writers : call[w] = NoCall
    BY DEF Init
  <2> QED BY <2>1 DEF NoCall, CallOK, Appending
<1>3. SchemaOK
  BY DEF Init, SchemaOK
<1>4. Numbered /\ UniqueIds /\ Linked
  <2>1. CASE rows = {}
    <3>1. \A r : SequencesOf(r) = {}
      BY <2>1 DEF SequencesOf
    <3>2. \A r : SequencesOf(r) = 0 .. 0 - 1
      BY <3>1
    <3>3. \A r : NextSequence(r) = 0
      BY <3>2, NextIs DEF NextSequence
    <3> QED BY <2>1, <3>2, <3>3 DEF Numbered, UniqueIds, Linked
  <2>2. CASE \E r \in Runs, id \in EventIds, b \in Bodies :
               rows = { LegacyRow(r, 0, id, b) }
    <3>0. PICK r \in Runs, id \in EventIds, b \in Bodies :
            rows = { LegacyRow(r, 0, id, b) }
      BY <2>2
    <3> DEFINE x == LegacyRow(r, 0, id, b)
    <3>1. rows = { x } /\ x.run = r /\ x.seq = 0 /\ x.hash = Null
      BY <3>0 DEF LegacyRow
    <3> HIDE DEF x
    <3>2. SequencesOf(r) = 0 .. 1 - 1
      <4>1. SequencesOf(r) = { 0 }
        BY <3>1 DEF SequencesOf
      <4> QED BY <4>1
    <3>3. \A q : q # r => SequencesOf(q) = 0 .. 0 - 1
      <4>1. \A q : q # r => SequencesOf(q) = {}
        BY <3>1 DEF SequencesOf
      <4> QED BY <4>1
    <3>4. NextSequence(r) = 1 /\ \A q : q # r => NextSequence(q) = 0
      BY <3>2, <3>3, NextIs DEF NextSequence
    <3>5. \A q \in Runs : /\ NextSequence(q) \in Nat
                         /\ SequencesOf(q) = 0 .. NextSequence(q) - 1
      <4>1. NextSequence(r) \in Nat /\ SequencesOf(r) = 0 .. NextSequence(r) - 1
        BY <3>2, <3>4
      <4>2. ASSUME NEW q \in Runs, q # r
            PROVE  NextSequence(q) \in Nat /\ SequencesOf(q) = 0 .. NextSequence(q) - 1
        BY <3>3, <3>4, <4>2
      <4> QED BY <4>1, <4>2
    <3> QED BY <3>1, <3>5 DEF Numbered, UniqueIds, Linked
  <2> QED BY <2>1, <2>2 DEF Init
<1> QED BY <1>1, <1>2, <1>3, <1>4 DEF IInv

\* What a step that leaves the table alone may assume of it.
LEMMA SameTable ==
  ASSUME UNCHANGED << schema, rows >>
  PROVE  /\ HasChainColumns' = HasChainColumns
         /\ \A r : NextSequence(r)' = NextSequence(r)
         /\ \A id : IdStored(id)' = IdStored(id)
  BY DEF HasChainColumns, NextSequence, SequencesOf, IdStored

LEMMA SameRows ==
  ASSUME UNCHANGED rows
  PROVE  /\ \A r : NextSequence(r)' = NextSequence(r)
         /\ \A id : IdStored(id)' = IdStored(id)
  BY DEF NextSequence, SequencesOf, IdStored

\* Only the process whose call changes may take or leave the lock.
LEMMA OneCallTyped ==
  ASSUME TypeOK, NEW w \in Writers, NEW c, call' = [ call EXCEPT ![w] = c ],
         schema' \in Schemas, version' \in { 0, 2 }, crashes' \in 0 .. MaxCrashes,
         \A row \in rows' : IsRow(row),
         lock' \in { lock, w, Null }, lock' = w => lock \in { w, Null },
         lock' = Null => lock \in { w, Null },
         DOMAIN c = DOMAIN NoCall, c.pc \in Points, c.outcome \in Outcomes,
         c.pc \in { "locked", "inserted", "m_alter" } <=> lock' = w,
         c.pc = "inserted" => IsRow(c.row)
  PROVE  TypeOK'
<1>1. DOMAIN call' = Writers /\ call'[w] = c
  BY DEF TypeOK
<1>2. \A v \in Writers : v # w => call'[v] = call[v] /\ (lock' = v <=> lock = v)
  BY EventStoreAssumption DEF TypeOK
<1>3. lock' \in Writers \cup { Null }
  BY DEF TypeOK
<1> QED BY <1>1, <1>2, <1>3 DEF TypeOK

\* Connecting: the schema is created at most once, before any row is in flight.
LEMMA ConnectKeeps ==
  ASSUME IInv, NEW w \in Writers, Connect(w)
  PROVE  IInv'
<1>0. TypeOK /\ CallOK(w) /\ SchemaOK
  BY DEF IInv
<1>1. CASE Probe(w)
  <2> DEFINE c == [ call[w] EXCEPT !.pc = "create", !.fresh = (schema = "absent") ]
  <2>1. call' = [ call EXCEPT ![w] = c ] /\ call'[w] = c /\ DOMAIN c = DOMAIN NoCall
    BY <1>0, <1>1 DEF Probe, At, Goto, Answer, NoCall, TypeOK
  <2>2. TypeOK'
    BY <1>0, <1>1, <2>1, OneCallTyped, EventStoreAssumption
    DEF Probe, At, TypeOK, NoCall, Points, Waiting, Outcomes, Schemas
  <2>3. Numbered' /\ UniqueIds' /\ Linked' /\ \A v \in Writers \ { w } : CallOK(v)'
    BY <1>1, <2>1, OneCallChanges DEF Probe
  <2>4. SchemaOK'
    BY <1>0, <1>1 DEF Probe, SchemaOK, HasChainColumns, CallOK, At
  <2>5. CallOK(w)'
    <3>1. /\ c.pc = "create" /\ (c.fresh <=> (schema = "absent"))
             /\ c.op = call[w].op /\ c.run = call[w].run /\ c.id = call[w].id
             /\ c.body = call[w].body /\ c.expected = call[w].expected
             /\ c.row = call[w].row /\ c.outcome = call[w].outcome
      BY <1>0 DEF TypeOK, NoCall
    <3>2. UNCHANGED << schema, rows >> /\ call[w].pc = "probe"
      BY <1>1 DEF Probe, At
    <3> HIDE DEF c
    <3> QED BY <1>0, <2>1, <3>1, SameTable, <3>2
        DEF CallOK, Appending, Own
  <2> QED BY <2>2, <2>3, <2>4, <2>5 DEF IInv
<1>2. CASE Create(w) /\ schema # "absent"
  <2> DEFINE next == IF call[w].fresh THEN "stamp" ELSE "begin"
  <2>0. next \in { "stamp", "begin" } /\ (next = "stamp" <=> call[w].fresh)
    OBVIOUS
  <2> DEFINE c == [ call[w] EXCEPT !.pc = next ]
  <2>1. call' = [ call EXCEPT ![w] = c ] /\ call'[w] = c /\ DOMAIN c = DOMAIN NoCall
    BY <1>0, <1>2 DEF Create, At, Goto, Answer, NoCall, TypeOK
  <2>2. TypeOK'
    BY <1>0, <1>2, <2>1, OneCallTyped, EventStoreAssumption
    DEF Create, At, TypeOK, NoCall, Points, Waiting, Outcomes, Schemas
  <2>3. Numbered' /\ UniqueIds' /\ Linked' /\ \A v \in Writers \ { w } : CallOK(v)'
    BY <1>2, <2>1, OneCallChanges DEF Create
  <2>4. SchemaOK'
    BY <1>0, <1>2 DEF Create, SchemaOK, HasChainColumns, CallOK, At
  <2>5. CallOK(w)'
    <3> HIDE DEF next
    <3>1. /\ c.pc = next /\ c.op = call[w].op /\ c.run = call[w].run
             /\ c.id = call[w].id /\ c.body = call[w].body
             /\ c.expected = call[w].expected /\ c.fresh = call[w].fresh
             /\ c.row = call[w].row /\ c.outcome = call[w].outcome
      BY <1>0 DEF TypeOK, NoCall
    <3> HIDE DEF c
    <3> QED BY <1>0, <1>2, <2>1, <2>3, <3>1, SameTable, <2>0
        DEF Create, At, CallOK, Appending, Own, HasChainColumns
  <2> QED BY <2>2, <2>3, <2>4, <2>5 DEF IInv
<1>3. CASE Create(w) /\ schema = "absent"
  <2> DEFINE next == IF call[w].fresh THEN "stamp" ELSE "begin"
  <2>0. next \in { "stamp", "begin" } /\ (next = "stamp" <=> call[w].fresh)
    OBVIOUS
  <2> DEFINE c == [ call[w] EXCEPT !.pc = next ]
  <2>1. call' = [ call EXCEPT ![w] = c ] /\ call'[w] = c /\ DOMAIN c = DOMAIN NoCall
    BY <1>0, <1>3 DEF Create, At, Goto, Answer, NoCall, TypeOK
  <2>2. TypeOK'
    BY <1>0, <1>3, <2>1, OneCallTyped, EventStoreAssumption
    DEF Create, At, TypeOK, NoCall, Points, Waiting, Outcomes, Schemas
  <2>3. Numbered' /\ UniqueIds' /\ Linked' /\ \A v \in Writers \ { w } : CallOK(v)'
    BY <1>3, <2>1, SchemaChanges DEF Create
  <2>4. SchemaOK'
    BY <1>0, <1>3 DEF Create, SchemaOK, HasChainColumns, CallOK, At
  <2>5. CallOK(w)'
    <3> HIDE DEF next
    <3>1. /\ c.pc = next /\ c.op = call[w].op /\ c.run = call[w].run
             /\ c.id = call[w].id /\ c.body = call[w].body
             /\ c.expected = call[w].expected /\ c.fresh = call[w].fresh
             /\ c.row = call[w].row /\ c.outcome = call[w].outcome
      BY <1>0 DEF TypeOK, NoCall
    <3> HIDE DEF c
    <3> QED BY <1>0, <1>3, <2>1, <2>3, <3>1, SameRows, <2>0
        DEF Create, At, CallOK, Appending, Own, HasChainColumns
  <2> QED BY <2>2, <2>3, <2>4, <2>5 DEF IInv
<1>4. CASE Stamp(w)
  <2> DEFINE c == [ call[w] EXCEPT !.pc = "begin" ]
  <2>1. call' = [ call EXCEPT ![w] = c ] /\ call'[w] = c /\ DOMAIN c = DOMAIN NoCall
    BY <1>0, <1>4 DEF Stamp, At, Goto, Answer, NoCall, TypeOK
  <2>2. TypeOK'
    BY <1>0, <1>4, <2>1, OneCallTyped, EventStoreAssumption
    DEF Stamp, At, TypeOK, NoCall, Points, Waiting, Outcomes, Schemas
  <2>3. Numbered' /\ UniqueIds' /\ Linked' /\ \A v \in Writers \ { w } : CallOK(v)'
    BY <1>4, <2>1, OneCallChanges DEF Stamp
  <2>4. SchemaOK'
    BY <1>0, <1>4 DEF Stamp, SchemaOK, HasChainColumns, CallOK, At
  <2>5. CallOK(w)'
    <3>1. /\ c.pc = "begin" /\ c.op = call[w].op /\ c.run = call[w].run
             /\ c.id = call[w].id /\ c.body = call[w].body
             /\ c.expected = call[w].expected /\ c.fresh = call[w].fresh
             /\ c.row = call[w].row /\ c.outcome = call[w].outcome
      BY <1>0 DEF TypeOK, NoCall
    <3> HIDE DEF c
    <3> QED BY <1>0, <1>4, <2>1, <2>3, <3>1, SameTable
        DEF Stamp, At, CallOK, Appending, Own
  <2> QED BY <2>2, <2>3, <2>4, <2>5 DEF IInv
<1>5. CASE Begin(w)
  <2> DEFINE c == [ call[w] EXCEPT !.pc = "locked" ]
  <2>1. call' = [ call EXCEPT ![w] = c ] /\ call'[w] = c /\ DOMAIN c = DOMAIN NoCall
    BY <1>0, <1>5 DEF Begin, At, Goto, Answer, NoCall, TypeOK
  <2>2. TypeOK'
    BY <1>0, <1>5, <2>1, OneCallTyped, EventStoreAssumption
    DEF Begin, At, TypeOK, NoCall, Points, Waiting, Outcomes, Schemas
  <2>3. Numbered' /\ UniqueIds' /\ Linked' /\ \A v \in Writers \ { w } : CallOK(v)'
    BY <1>5, <2>1, OneCallChanges DEF Begin
  <2>4. SchemaOK'
    BY <1>0, <1>5 DEF Begin, SchemaOK, HasChainColumns, CallOK, At
  <2>5. CallOK(w)'
    <3>1. /\ c.pc = "locked" /\ c.op = call[w].op /\ c.run = call[w].run
             /\ c.id = call[w].id /\ c.body = call[w].body
             /\ c.expected = call[w].expected /\ c.fresh = call[w].fresh
             /\ c.row = call[w].row /\ c.outcome = call[w].outcome
      BY <1>0 DEF TypeOK, NoCall
    <3> HIDE DEF c
    <3> QED BY <1>0, <1>5, <2>1, <2>3, <3>1, SameTable
        DEF Begin, At, CallOK, Appending, Own
  <2> QED BY <2>2, <2>3, <2>4, <2>5 DEF IInv
<1>6. CASE Busy(w)
  <2> DEFINE c == [ call[w] EXCEPT !.pc = "idle", !.outcome = "refused" ]
  <2>1. call' = [ call EXCEPT ![w] = c ] /\ call'[w] = c /\ DOMAIN c = DOMAIN NoCall
    BY <1>0, <1>6 DEF Busy, At, Goto, Answer, NoCall, TypeOK
  <2>2. TypeOK'
    BY <1>0, <1>6, <2>1, OneCallTyped, EventStoreAssumption
    DEF Busy, At, TypeOK, NoCall, Points, Waiting, Outcomes, Schemas
  <2>3. Numbered' /\ UniqueIds' /\ Linked' /\ \A v \in Writers \ { w } : CallOK(v)'
    BY <1>6, <2>1, OneCallChanges DEF Busy
  <2>4. SchemaOK'
    BY <1>0, <1>6 DEF Busy, SchemaOK, HasChainColumns, CallOK, At
  <2>5. CallOK(w)'
    <3>1. /\ c.pc = "idle" /\ c.outcome = "refused" /\ c.op = call[w].op
             /\ c.run = call[w].run /\ c.id = call[w].id
             /\ c.body = call[w].body /\ c.expected = call[w].expected
             /\ c.fresh = call[w].fresh /\ c.row = call[w].row
      BY <1>0 DEF TypeOK, NoCall
    <3> HIDE DEF c
    <3> QED BY <1>0, <1>6, <2>1, <2>3, <3>1, SameTable
        DEF Busy, At, CallOK, Appending, Own
  <2> QED BY <2>2, <2>3, <2>4, <2>5 DEF IInv
<1> QED BY <1>1, <1>2, <1>3, <1>4, <1>5, <1>6 DEF Connect

\* The row an append prepares continues its run's numbering and chain.
LEMMA NewRowContinues ==
  ASSUME IInv, NEW w \in Writers, call[w].op = "append"
  PROVE  /\ IsRow(NewRow(w)) /\ NewRow(w).seq = NextSequence(call[w].run)
         /\ << NewRow(w).run, NewRow(w).id, NewRow(w).body >> =
              << call[w].run, call[w].id, call[w].body >>
         /\ NewRow(w).hash # Null =>
              /\ NewRow(w).hash = Digest(NewRow(w))
              /\ NewRow(w).prev = PreviousHash(call[w].run)
<1>1. call[w].run \in Runs /\ call[w].id \in EventIds /\ call[w].body \in Bodies
  BY DEF IInv, CallOK
<1>2. NextSequence(call[w].run) \in Nat
  BY <1>1 DEF IInv, Numbered
<1> QED BY <1>1, <1>2 DEF NewRow, IsRow, Digest

\* An append's transaction answers truthfully and stores one linked row.
LEMMA TransactKeeps ==
  ASSUME IInv, NEW w \in Writers, Transact(w)
  PROVE  IInv'
<1>0. TypeOK /\ CallOK(w) /\ SchemaOK
  BY DEF IInv
<1>a. ASSUME call[w].op = "append"
      PROVE  NextSequence(call[w].run) \in Nat
  BY <1>a DEF IInv, CallOK, Numbered
<1>1. CASE Conflict(w)
  <2> DEFINE c == [ call[w] EXCEPT !.pc = "idle", !.outcome = "conflict" ]
  <2>1. call' = [ call EXCEPT ![w] = c ] /\ call'[w] = c /\ DOMAIN c = DOMAIN NoCall
    BY <1>0, <1>1 DEF Conflict, At, Goto, Answer, NoCall, TypeOK
  <2>2. TypeOK'
    BY <1>0, <1>1, <2>1, OneCallTyped, EventStoreAssumption
    DEF Conflict, At, TypeOK, NoCall, Points, Waiting, Outcomes, Schemas
  <2>3. Numbered' /\ UniqueIds' /\ Linked' /\ \A v \in Writers \ { w } : CallOK(v)'
    BY <1>1, <2>1, OneCallChanges DEF Conflict
  <2>4. SchemaOK'
    BY <1>0, <1>1 DEF Conflict, SchemaOK, HasChainColumns, CallOK, At
  <2>5. CallOK(w)'
    <3>1. /\ c.pc = "idle" /\ c.outcome = "conflict" /\ c.op = call[w].op
             /\ c.run = call[w].run /\ c.id = call[w].id
             /\ c.body = call[w].body /\ c.expected = call[w].expected
             /\ c.fresh = call[w].fresh /\ c.row = call[w].row
      BY <1>0 DEF TypeOK, NoCall
    <3> HIDE DEF c
    <3> QED BY <1>0, <1>1, <2>1, <2>3, <3>1, SameTable, <1>a
        DEF Conflict, At, CallOK, Appending, Own, Stale
  <2> QED BY <2>2, <2>3, <2>4, <2>5 DEF IInv
<1>2. CASE Duplicate(w)
  <2> DEFINE c == [ call[w] EXCEPT !.pc = "idle", !.outcome = "duplicate" ]
  <2>1. call' = [ call EXCEPT ![w] = c ] /\ call'[w] = c /\ DOMAIN c = DOMAIN NoCall
    BY <1>0, <1>2 DEF Duplicate, At, Goto, Answer, NoCall, TypeOK
  <2>2. TypeOK'
    BY <1>0, <1>2, <2>1, OneCallTyped, EventStoreAssumption
    DEF Duplicate, At, TypeOK, NoCall, Points, Waiting, Outcomes, Schemas
  <2>3. Numbered' /\ UniqueIds' /\ Linked' /\ \A v \in Writers \ { w } : CallOK(v)'
    BY <1>2, <2>1, OneCallChanges DEF Duplicate
  <2>4. SchemaOK'
    BY <1>0, <1>2 DEF Duplicate, SchemaOK, HasChainColumns, CallOK, At
  <2>5. CallOK(w)'
    <3>1. /\ c.pc = "idle" /\ c.outcome = "duplicate" /\ c.op = call[w].op
             /\ c.run = call[w].run /\ c.id = call[w].id
             /\ c.body = call[w].body /\ c.expected = call[w].expected
             /\ c.fresh = call[w].fresh /\ c.row = call[w].row
      BY <1>0 DEF TypeOK, NoCall
    <3> HIDE DEF c
    <3> QED BY <1>0, <1>2, <2>1, <2>3, <3>1, SameTable
        DEF Duplicate, At, CallOK, Appending, Own
  <2> QED BY <2>2, <2>3, <2>4, <2>5 DEF IInv
<1>3. CASE Insert(w)
  <2> DEFINE c == [ call[w] EXCEPT !.pc = "inserted", !.row = NewRow(w) ]
  <2>1. call' = [ call EXCEPT ![w] = c ] /\ call'[w] = c /\ DOMAIN c = DOMAIN NoCall
    BY <1>0, <1>3 DEF Insert, At, Goto, Answer, NoCall, TypeOK
  <2>0. IsRow(NewRow(w))
    BY <1>0, <1>3, NewRowContinues DEF Insert, At, CallOK, Appending
  <2>2. TypeOK'
    BY <1>0, <1>3, <2>0, <2>1, OneCallTyped, EventStoreAssumption
    DEF Insert, At, TypeOK, NoCall, Points, Waiting, Outcomes, Schemas
  <2>3. Numbered' /\ UniqueIds' /\ Linked' /\ \A v \in Writers \ { w } : CallOK(v)'
    BY <1>3, <2>1, OneCallChanges DEF Insert
  <2>4. SchemaOK'
    BY <1>0, <1>3 DEF Insert, SchemaOK, HasChainColumns, CallOK, At
  <2>5. CallOK(w)'
    <3>1. /\ c.pc = "inserted" /\ c.row = NewRow(w) /\ c.op = call[w].op
             /\ c.run = call[w].run /\ c.id = call[w].id
             /\ c.body = call[w].body /\ c.expected = call[w].expected
             /\ c.fresh = call[w].fresh /\ c.outcome = call[w].outcome
      BY <1>0 DEF TypeOK, NoCall
    <3>2. NewRow(w)' = NewRow(w)
      <4>1. /\ call'[w].run = call[w].run /\ call'[w].id = call[w].id
            /\ call'[w].body = call[w].body
        BY <2>1, <3>1
      <4>2. HasChainColumns' = HasChainColumns /\ \A r : NextSequence(r)' = NextSequence(r)
        BY <1>3, SameTable DEF Insert
      <4>3. \A r, k : RowAt(r, k)' = RowAt(r, k)
        BY <1>3 DEF Insert, RowAt
      <4>4. PreviousHash(call[w].run)' = PreviousHash(call[w].run)
        BY <4>1, <4>2, <4>3 DEF PreviousHash
      <4> QED BY <4>1, <4>2, <4>4 DEF NewRow
    <3>3. Stale(w)' = Stale(w)
      <4>1. call'[w].run = call[w].run /\ call'[w].expected = call[w].expected
        BY <2>1, <3>1
      <4>2. \A r : NextSequence(r)' = NextSequence(r)
        BY <1>3, SameTable DEF Insert
      <4> QED BY <4>1, <4>2 DEF Stale
    <3>4. c.row = NewRow(w)
      BY <1>0 DEF TypeOK, NoCall
    <3> HIDE DEF c
    <3> QED BY <1>0, <1>3, <2>1, <2>3, <3>1, SameTable, <3>2, <3>3, <3>4
        DEF Insert, At, CallOK, Appending, Own
  <2> QED BY <2>2, <2>3, <2>4, <2>5 DEF IInv
<1>4. CASE Commit(w)
  <2> DEFINE c == [ call[w] EXCEPT !.pc = "committed" ]
             x == call[w].row
  <2>1. call' = [ call EXCEPT ![w] = c ] /\ call'[w] = c /\ DOMAIN c = DOMAIN NoCall
    BY <1>0, <1>4 DEF Commit, At, Goto, NoCall, TypeOK
  <2>2. x = NewRow(w) /\ ~IdStored(call[w].id) /\ ~Stale(w) /\ call[w].op = "append"
        /\ schema # "absent" /\ lock = w
    BY <1>0, <1>4 DEF Commit, At, CallOK, Appending, TypeOK
  <2>3. /\ IsRow(x) /\ x.seq = NextSequence(x.run) /\ ~IdStored(x.id)
        /\ << x.run, x.id, x.body >> = << call[w].run, call[w].id, call[w].body >>
        /\ x.hash # Null => x.hash = Digest(x) /\ x.prev = PreviousHash(x.run)
    BY <2>2, NewRowContinues
  <2>4. TypeOK'
    BY <1>0, <1>4, <2>1, <2>3, OneCallTyped, EventStoreAssumption
    DEF Commit, At, TypeOK, NoCall, Points, Waiting, Outcomes, Schemas
  <2>5. rows' = rows \cup { x } /\ UNCHANGED << schema, version >>
    BY <1>4 DEF Commit
  <2>6. /\ Numbered' /\ UniqueIds' /\ Linked'
        /\ \A v \in Writers : call'[v] = call[v] /\ call[v].pc # "inserted" => CallOK(v)'
    <3> HIDE DEF x, c
    <3> QED BY <2>2, <2>3, <2>5, RowStored
  <2>7. \A v \in Writers \ { w } : CallOK(v)'
    <3>1. \A v \in Writers \ { w } : call'[v] = call[v] /\ call[v].pc # "inserted"
      BY <1>0, <2>1, <2>2, EventStoreAssumption DEF TypeOK
    <3> QED BY <2>6, <3>1
  <2>8. SchemaOK'
    BY <1>0, <2>2, <2>5 DEF SchemaOK, HasChainColumns
  <2>9. CallOK(w)'
    <3>1. /\ c.pc = "committed" /\ c.op = "append" /\ c.run = call[w].run
          /\ c.id = call[w].id /\ c.body = call[w].body /\ c.expected = call[w].expected
          /\ c.fresh = call[w].fresh /\ c.row = x
      BY <1>0, <2>2 DEF TypeOK, NoCall
    <3>2. c.expected \in { Null, c.row.seq }
      BY <2>2, <2>3, <3>1 DEF Stale
    <3>3. x \in rows'
      BY <2>5
    <3>4. << c.row.run, c.row.id, c.row.body >> = << c.run, c.id, c.body >>
      BY <2>3, <3>1
    <3>5. c.run \in Runs /\ c.id \in EventIds /\ c.body \in Bodies
          /\ (c.expected # Null => c.expected \in Nat /\ c.expected = x.seq)
          /\ (c.fresh => schema \in { "absent", "fresh" })
      BY <1>0, <2>2, <3>1, <3>2 DEF CallOK
    <3>6. PICK r \in Runs : r = call[w].run
      BY <3>1, <3>5
    <3>7. NextSequence(r)' \in Nat /\ x.seq \in Nat /\ x.seq <= NextSequence(r)'
      <4>1. x.run = r
        BY <2>3, <3>6
      <4>2. x.seq \in SequencesOf(r)'
        BY <3>3, <4>1 DEF SequencesOf
      <4>3. NextSequence(r)' \in Nat /\ SequencesOf(r)' = 0 .. NextSequence(r)' - 1
        BY <2>6 DEF Numbered
      <4> QED BY <4>2, <4>3
    <3>8. call'[w].run = r /\ (call'[w].expected # Null => call'[w].expected = x.seq)
      BY <2>1, <3>1, <3>5, <3>6
    <3> HIDE DEF c, x
    <3> QED BY <2>1, <2>5, <3>1, <3>2, <3>3, <3>4, <3>5, <3>7, <3>8
        DEF CallOK, Appending, Own
  <2> QED BY <2>4, <2>6, <2>7, <2>8, <2>9 DEF IInv
<1>5. CASE Return(w)
  <2> DEFINE c == [ call[w] EXCEPT !.pc = "idle", !.outcome = "ok" ]
  <2>1. call' = [ call EXCEPT ![w] = c ] /\ call'[w] = c /\ DOMAIN c = DOMAIN NoCall
    BY <1>0, <1>5 DEF Return, At, Goto, Answer, NoCall, TypeOK
  <2>2. TypeOK'
    BY <1>0, <1>5, <2>1, OneCallTyped, EventStoreAssumption
    DEF Return, At, TypeOK, NoCall, Points, Waiting, Outcomes, Schemas
  <2>3. Numbered' /\ UniqueIds' /\ Linked' /\ \A v \in Writers \ { w } : CallOK(v)'
    BY <1>5, <2>1, OneCallChanges DEF Return
  <2>4. SchemaOK'
    BY <1>0, <1>5 DEF Return, SchemaOK, HasChainColumns, CallOK, At
  <2>5. CallOK(w)'
    <3>1. /\ c.pc = "idle" /\ c.outcome = "ok" /\ c.op = call[w].op
             /\ c.run = call[w].run /\ c.id = call[w].id
             /\ c.body = call[w].body /\ c.expected = call[w].expected
             /\ c.fresh = call[w].fresh /\ c.row = call[w].row
      BY <1>0 DEF TypeOK, NoCall
    <3> HIDE DEF c
    <3> QED BY <1>0, <1>5, <2>1, <2>3, <3>1, SameTable
        DEF Return, At, CallOK, Appending, Own
  <2> QED BY <2>2, <2>3, <2>4, <2>5 DEF IInv
<1> QED BY <1>1, <1>2, <1>3, <1>4, <1>5 DEF Transact

\* A migration widens a table without touching a row; a kill ends one call.
LEMMA MigrateKeeps ==
  ASSUME IInv, NEW w \in Writers, Migrate(w) \/ Crash(w)
  PROVE  IInv'
<1>0. TypeOK /\ CallOK(w) /\ SchemaOK
  BY DEF IInv
<1>1. CASE StartMigrate(w)
  <2> DEFINE c == [ NoCall EXCEPT !.pc = "m_check", !.op = "migrate" ]
  <2>1. call' = [ call EXCEPT ![w] = c ] /\ call'[w] = c /\ DOMAIN c = DOMAIN NoCall
    BY <1>0, <1>1 DEF StartMigrate, At, NoCall, TypeOK
  <2>2. TypeOK'
    BY <1>0, <1>1, <2>1, OneCallTyped, EventStoreAssumption
    DEF StartMigrate, At, TypeOK, NoCall, Points, Waiting, Outcomes, Schemas
  <2>3. Numbered' /\ UniqueIds' /\ Linked' /\ \A v \in Writers \ { w } : CallOK(v)'
    BY <1>1, <2>1, OneCallChanges DEF StartMigrate
  <2>4. SchemaOK'
    BY <1>0, <1>1 DEF StartMigrate, SchemaOK, HasChainColumns, CallOK, At
  <2>5. CallOK(w)'
    BY <1>1, <2>1 DEF StartMigrate, NoCall, CallOK, Appending
  <2> QED BY <2>2, <2>3, <2>4, <2>5 DEF IInv
<1>2. CASE MigrateCheck(w)
  <2> DEFINE next == IF HasChainColumns THEN "m_stamp" ELSE "m_begin"
  <2>0. next \in { "m_stamp", "m_begin" } /\ (next = "m_stamp" => HasChainColumns)
    OBVIOUS
  <2> DEFINE c == [ call[w] EXCEPT !.pc = next ]
  <2>1. call' = [ call EXCEPT ![w] = c ] /\ call'[w] = c /\ DOMAIN c = DOMAIN NoCall
    BY <1>0, <1>2 DEF MigrateCheck, At, Goto, Answer, NoCall, TypeOK
  <2>2. TypeOK'
    BY <1>0, <1>2, <2>1, OneCallTyped, EventStoreAssumption
    DEF MigrateCheck, At, TypeOK, NoCall, Points, Waiting, Outcomes, Schemas
  <2>3. Numbered' /\ UniqueIds' /\ Linked' /\ \A v \in Writers \ { w } : CallOK(v)'
    BY <1>2, <2>1, OneCallChanges DEF MigrateCheck
  <2>4. SchemaOK'
    BY <1>0, <1>2 DEF MigrateCheck, SchemaOK, HasChainColumns, CallOK, At
  <2>5. CallOK(w)'
    <3> HIDE DEF next
    <3>1. /\ c.pc = next /\ c.op = call[w].op /\ c.run = call[w].run
             /\ c.id = call[w].id /\ c.body = call[w].body
             /\ c.expected = call[w].expected /\ c.fresh = call[w].fresh
             /\ c.row = call[w].row /\ c.outcome = call[w].outcome
      BY <1>0 DEF TypeOK, NoCall
    <3> HIDE DEF c
    <3> QED BY <1>0, <1>2, <2>1, <2>3, <3>1, SameTable, <2>0
        DEF MigrateCheck, At, CallOK, Appending, Own
  <2> QED BY <2>2, <2>3, <2>4, <2>5 DEF IInv
<1>3. CASE MigrateBegin(w)
  <2> DEFINE c == [ call[w] EXCEPT !.pc = "m_alter" ]
  <2>1. call' = [ call EXCEPT ![w] = c ] /\ call'[w] = c /\ DOMAIN c = DOMAIN NoCall
    BY <1>0, <1>3 DEF MigrateBegin, At, Goto, Answer, NoCall, TypeOK
  <2>2. TypeOK'
    BY <1>0, <1>3, <2>1, OneCallTyped, EventStoreAssumption
    DEF MigrateBegin, At, TypeOK, NoCall, Points, Waiting, Outcomes, Schemas
  <2>3. Numbered' /\ UniqueIds' /\ Linked' /\ \A v \in Writers \ { w } : CallOK(v)'
    BY <1>3, <2>1, OneCallChanges DEF MigrateBegin
  <2>4. SchemaOK'
    BY <1>0, <1>3 DEF MigrateBegin, SchemaOK, HasChainColumns, CallOK, At
  <2>5. CallOK(w)'
    <3>1. /\ c.pc = "m_alter" /\ c.op = call[w].op /\ c.run = call[w].run
             /\ c.id = call[w].id /\ c.body = call[w].body
             /\ c.expected = call[w].expected /\ c.fresh = call[w].fresh
             /\ c.row = call[w].row /\ c.outcome = call[w].outcome
      BY <1>0 DEF TypeOK, NoCall
    <3> HIDE DEF c
    <3> QED BY <1>0, <1>3, <2>1, <2>3, <3>1, SameTable
        DEF MigrateBegin, At, CallOK, Appending, Own
  <2> QED BY <2>2, <2>3, <2>4, <2>5 DEF IInv
<1>4. CASE MigrateAlter(w) /\ HasChainColumns
  <2> DEFINE c == [ call[w] EXCEPT !.pc = "idle", !.outcome = "refused" ]
  <2>1. call' = [ call EXCEPT ![w] = c ] /\ call'[w] = c /\ DOMAIN c = DOMAIN NoCall
    BY <1>0, <1>4 DEF MigrateAlter, At, Goto, Answer, NoCall, TypeOK
  <2>2. TypeOK'
    BY <1>0, <1>4, <2>1, OneCallTyped, EventStoreAssumption
    DEF MigrateAlter, At, TypeOK, NoCall, Points, Waiting, Outcomes, Schemas
  <2>3. Numbered' /\ UniqueIds' /\ Linked' /\ \A v \in Writers \ { w } : CallOK(v)'
    BY <1>4, <2>1, OneCallChanges DEF MigrateAlter
  <2>4. SchemaOK'
    BY <1>0, <1>4 DEF MigrateAlter, SchemaOK, HasChainColumns, CallOK, At
  <2>5. CallOK(w)'
    <3>1. /\ c.pc = "idle" /\ c.outcome = "refused" /\ c.op = call[w].op
             /\ c.run = call[w].run /\ c.id = call[w].id
             /\ c.body = call[w].body /\ c.expected = call[w].expected
             /\ c.fresh = call[w].fresh /\ c.row = call[w].row
      BY <1>0 DEF TypeOK, NoCall
    <3> HIDE DEF c
    <3> QED BY <1>0, <1>4, <2>1, <2>3, <3>1, SameTable
        DEF MigrateAlter, At, CallOK, Appending, Own
  <2> QED BY <2>2, <2>3, <2>4, <2>5 DEF IInv
<1>5. CASE MigrateAlter(w) /\ ~HasChainColumns
  <2> DEFINE c == [ call[w] EXCEPT !.pc = "m_stamp", !.migrated = TRUE ]
  <2>0. schema = "legacy" /\ lock = w
    BY <1>0, <1>5 DEF MigrateAlter, At, TypeOK, Schemas, HasChainColumns, CallOK
  <2>1. call' = [ call EXCEPT ![w] = c ] /\ call'[w] = c /\ DOMAIN c = DOMAIN NoCall
    BY <1>0, <1>5 DEF MigrateAlter, At, Goto, Answer, NoCall, TypeOK
  <2>2. TypeOK'
    BY <1>0, <1>5, <2>1, OneCallTyped, EventStoreAssumption
    DEF MigrateAlter, At, TypeOK, NoCall, Points, Waiting, Outcomes, Schemas
  <2>3. Numbered' /\ UniqueIds' /\ Linked' /\ \A v \in Writers \ { w } : CallOK(v)'
    BY <1>0, <1>5, <2>0, <2>1, SchemaChanges DEF MigrateAlter
  <2>4. SchemaOK'
    BY <1>0, <1>5, <2>0 DEF MigrateAlter, SchemaOK, HasChainColumns, CallOK, At
  <2>5. CallOK(w)'
    <3>1. /\ c.pc = "m_stamp" /\ c.migrated = TRUE /\ c.op = call[w].op
             /\ c.run = call[w].run /\ c.id = call[w].id
             /\ c.body = call[w].body /\ c.expected = call[w].expected
             /\ c.fresh = call[w].fresh /\ c.row = call[w].row
             /\ c.outcome = call[w].outcome
      BY <1>0 DEF TypeOK, NoCall
    <3>2. HasChainColumns' /\ schema' = "migrated" /\ ~call[w].fresh
      BY <1>0, <1>5, <2>0 DEF MigrateAlter, HasChainColumns, CallOK
    <3> HIDE DEF c
    <3> QED BY <1>0, <1>5, <2>1, <2>3, <3>1, SameRows, <3>2
        DEF MigrateAlter, At, CallOK, Appending, Own
  <2> QED BY <2>2, <2>3, <2>4, <2>5 DEF IInv
<1>6. CASE MigrateStamp(w)
  <2> DEFINE c == [ call[w] EXCEPT !.pc = "m_report" ]
  <2>1. call' = [ call EXCEPT ![w] = c ] /\ call'[w] = c /\ DOMAIN c = DOMAIN NoCall
    BY <1>0, <1>6 DEF MigrateStamp, At, Goto, Answer, NoCall, TypeOK
  <2>2. TypeOK'
    BY <1>0, <1>6, <2>1, OneCallTyped, EventStoreAssumption
    DEF MigrateStamp, At, TypeOK, NoCall, Points, Waiting, Outcomes, Schemas
  <2>3. Numbered' /\ UniqueIds' /\ Linked' /\ \A v \in Writers \ { w } : CallOK(v)'
    BY <1>6, <2>1, OneCallChanges DEF MigrateStamp
  <2>4. SchemaOK'
    BY <1>0, <1>6 DEF MigrateStamp, SchemaOK, HasChainColumns, CallOK, At
  <2>5. CallOK(w)'
    <3>1. /\ c.pc = "m_report" /\ c.op = call[w].op /\ c.run = call[w].run
             /\ c.id = call[w].id /\ c.body = call[w].body
             /\ c.expected = call[w].expected /\ c.fresh = call[w].fresh
             /\ c.row = call[w].row /\ c.outcome = call[w].outcome
      BY <1>0 DEF TypeOK, NoCall
    <3> HIDE DEF c
    <3> QED BY <1>0, <1>6, <2>1, <2>3, <3>1, SameTable
        DEF MigrateStamp, At, CallOK, Appending, Own
  <2> QED BY <2>2, <2>3, <2>4, <2>5 DEF IInv
<1>7. CASE MigrateReport(w)
  <2> DEFINE c == [ call[w] EXCEPT !.pc = "idle", !.outcome = "ok", !.report = ChainedFrom ]
  <2>1. call' = [ call EXCEPT ![w] = c ] /\ call'[w] = c /\ DOMAIN c = DOMAIN NoCall
    BY <1>0, <1>7 DEF MigrateReport, At, Goto, Answer, NoCall, TypeOK
  <2>2. TypeOK'
    BY <1>0, <1>7, <2>1, OneCallTyped, EventStoreAssumption
    DEF MigrateReport, At, TypeOK, NoCall, Points, Waiting, Outcomes, Schemas
  <2>3. Numbered' /\ UniqueIds' /\ Linked' /\ \A v \in Writers \ { w } : CallOK(v)'
    BY <1>7, <2>1, OneCallChanges DEF MigrateReport
  <2>4. SchemaOK'
    BY <1>0, <1>7 DEF MigrateReport, SchemaOK, HasChainColumns, CallOK, At
  <2>5. CallOK(w)'
    <3>1. /\ c.pc = "idle" /\ c.outcome = "ok" /\ c.report = ChainedFrom
             /\ c.op = call[w].op /\ c.run = call[w].run /\ c.id = call[w].id
             /\ c.body = call[w].body /\ c.expected = call[w].expected
             /\ c.fresh = call[w].fresh /\ c.row = call[w].row
      BY <1>0 DEF TypeOK, NoCall
    <3> HIDE DEF c
    <3> QED BY <1>0, <1>7, <2>1, <2>3, <3>1, SameTable
        DEF MigrateReport, At, CallOK, Appending, Own
  <2> QED BY <2>2, <2>3, <2>4, <2>5 DEF IInv
<1>8. CASE Crash(w)
  <2> DEFINE c == NoCall
  <2>1. call' = [ call EXCEPT ![w] = c ] /\ call'[w] = c /\ DOMAIN c = DOMAIN NoCall
    BY <1>0, <1>8 DEF Crash, At, NoCall, TypeOK
  <2>2. TypeOK'
    BY <1>0, <1>8, <2>1, OneCallTyped, EventStoreAssumption
    DEF Crash, At, TypeOK, NoCall, Points, Waiting, Outcomes, Schemas
  <2>3. Numbered' /\ UniqueIds' /\ Linked' /\ \A v \in Writers \ { w } : CallOK(v)'
    BY <1>8, <2>1, OneCallChanges DEF Crash
  <2>4. SchemaOK'
    BY <1>0, <1>8 DEF Crash, SchemaOK, HasChainColumns, CallOK, At
  <2>5. CallOK(w)'
    BY <2>1 DEF NoCall, CallOK, Appending
  <2> QED BY <2>2, <2>3, <2>4, <2>5 DEF IInv
<1> QED BY <1>1, <1>2, <1>3, <1>4, <1>5, <1>6, <1>7, <1>8 DEF Migrate

\* Somebody starts an append.
LEMMA StartAppendKeeps ==
  ASSUME IInv, NEW w \in Writers, NEW r \in Runs, NEW id \in EventIds, NEW b \in Bodies,
         StartAppend(w, r, id, b)
  PROVE  IInv'
<1>0. TypeOK /\ CallOK(w) /\ SchemaOK
  BY DEF IInv
<1>1. CASE TRUE
  <2>0. PICK expected \in { Null, NextSequence(r) } :
          call' = [ call EXCEPT ![w] =
            [ NoCall EXCEPT !.pc = "probe", !.op = "append", !.run = r, !.id = id,
                            !.body = b, !.expected = expected ] ]
    BY DEF StartAppend
  <2> DEFINE c == [ NoCall EXCEPT !.pc = "probe", !.op = "append", !.run = r, !.id = id,
                        !.body = b, !.expected = expected ]
  <2>1. call' = [ call EXCEPT ![w] = c ] /\ call'[w] = c /\ DOMAIN c = DOMAIN NoCall
    BY <1>0, <1>1, <2>0 DEF StartAppend, At, NoCall, TypeOK
  <2>2. TypeOK'
    BY <1>0, <1>1, <2>1, OneCallTyped, EventStoreAssumption
    DEF StartAppend, At, TypeOK, NoCall, Points, Waiting, Outcomes, Schemas
  <2>3. Numbered' /\ UniqueIds' /\ Linked' /\ \A v \in Writers \ { w } : CallOK(v)'
    BY <1>1, <2>1, OneCallChanges DEF StartAppend
  <2>4. SchemaOK'
    BY <1>0, <1>1 DEF StartAppend, SchemaOK, HasChainColumns, CallOK, At
  <2>5. CallOK(w)'
    <3>1. NextSequence(r) \in Nat /\ NextSequence(r)' = NextSequence(r)
      BY SameTable DEF StartAppend, IInv, Numbered
    <3>2. c.op = "append" /\ c.pc = "probe" /\ c.run = r /\ c.id = id /\ c.body = b
          /\ c.expected = expected /\ ~c.fresh
      BY DEF NoCall
    <3>3. expected # Null => expected \in Nat /\ expected <= NextSequence(r)'
      BY <2>0, <3>1
    <3>4. call'[w].run = r /\ call'[w].expected = expected
      BY <2>1, <3>2
    <3> HIDE DEF c
    <3> QED BY <2>1, <3>2, <3>3, <3>4 DEF CallOK, Appending
  <2> QED BY <2>2, <2>3, <2>4, <2>5 DEF IInv
<1> QED BY <1>1

\* An older release stores an unchained row, when nobody holds the lock.
LEMMA LegacyKeeps ==
  ASSUME IInv, NEW r \in Runs, NEW id \in EventIds, NEW b \in Bodies,
         LegacyAppend(r, id, b)
  PROVE  IInv'
<1> DEFINE x == LegacyRow(r, NextSequence(r), id, b)
<1>1. NextSequence(r) \in Nat
  BY DEF IInv, Numbered
<1>2. /\ IsRow(x) /\ x.seq = NextSequence(x.run) /\ ~IdStored(x.id) /\ x.hash = Null
  BY <1>1 DEF LegacyAppend, LegacyRow, IsRow
<1>3. /\ rows' = rows \cup { x } /\ schema \in { "legacy", "migrated" } /\ lock = Null
      /\ UNCHANGED << schema, version, lock, call, crashes >>
  BY DEF LegacyAppend
<1> HIDE DEF x
<1>4. /\ Numbered' /\ UniqueIds' /\ Linked'
      /\ \A v \in Writers : call'[v] = call[v] /\ call[v].pc # "inserted" => CallOK(v)'
  BY <1>2, <1>3, RowStored
<1>5. \A v \in Writers : call'[v] = call[v] /\ call[v].pc # "inserted"
  BY <1>3, EventStoreAssumption DEF IInv, TypeOK
<1>6. TypeOK'
  <2>1. \A row \in rows' : IsRow(row)
    BY <1>2, <1>3 DEF IInv, TypeOK
  <2> QED BY <1>3, <2>1 DEF IInv, TypeOK
<1>7. SchemaOK'
  BY <1>3 DEF IInv, SchemaOK, HasChainColumns
<1> QED BY <1>4, <1>5, <1>6, <1>7 DEF IInv

LEMMA StutterKeeps == ASSUME IInv, UNCHANGED vars PROVE IInv'
<1>1. \A r : NextSequence(r)' = NextSequence(r) /\ SequencesOf(r)' = SequencesOf(r)
  BY DEF NextSequence, SequencesOf, vars
<1>2. HasChainColumns' = HasChainColumns /\ \A id : IdStored(id)' = IdStored(id)
  BY DEF HasChainColumns, IdStored, vars
<1>3. TypeOK' /\ UniqueIds' /\ Linked' /\ SchemaOK'
  BY <1>2 DEF IInv, vars, TypeOK, UniqueIds, Linked, SchemaOK
<1>4. Numbered'
  BY <1>1 DEF IInv, Numbered, vars
<1>5. ASSUME NEW v \in Writers
      PROVE  CallOK(v)'
  <2>1. \A r, k : RowAt(r, k)' = RowAt(r, k)
    BY DEF RowAt, vars
  <2>2. call' = call /\ rows' = rows /\ schema' = schema
    BY DEF vars
  <2>3. \A r : PreviousHash(r)' = PreviousHash(r)
    BY <1>1, <2>1, <2>2 DEF PreviousHash
  <2>4. NewRow(v)' = NewRow(v)
    BY <1>1, <1>2, <2>2, <2>3 DEF NewRow
  <2>5. Stale(v)' = Stale(v)
    BY <1>1, <2>2 DEF Stale
  <2> QED BY <1>1, <1>2, <2>2, <2>4, <2>5 DEF IInv, CallOK
<1> QED BY <1>3, <1>4, <1>5 DEF IInv

LEMMA NextKeeps == ASSUME IInv, [Next]_vars PROVE IInv'
<1>1. CASE \E w \in Writers : Connect(w) \/ Transact(w) \/ Migrate(w) \/ Crash(w)
  BY <1>1, ConnectKeeps, TransactKeeps, MigrateKeeps
<1>2. CASE \E w \in Writers, r \in Runs, id \in EventIds, b \in Bodies :
             StartAppend(w, r, id, b)
  BY <1>2, StartAppendKeeps
<1>3. CASE \E r \in Runs, id \in EventIds, b \in Bodies : LegacyAppend(r, id, b)
  BY <1>3, LegacyKeeps
<1>4. CASE UNCHANGED vars
  BY <1>4, StutterKeeps
<1> QED BY <1>1, <1>2, <1>3, <1>4 DEF Next

\* Whatever the interleaving, the table stays numbered, linked and typed, and
\* each call's place in the code keeps its meaning.
THEOREM StoreIInv == Spec => []IInv
<1>1. Init => IInv
  BY InitIInv
<1>2. IInv /\ [Next]_vars => IInv'
  BY NextKeeps
<1> QED BY <1>1, <1>2, PTL DEF Spec

\* The variables keep their types and a row in flight is held under the lock.
THEOREM StoreTypeOK == Spec => []TypeOK
<1>1. IInv => TypeOK
  BY DEF IInv
<1> QED BY <1>1, StoreIInv, PTL

\* No kill and no order of two migrations leaves generation 2 without columns.
THEOREM StoreVersion == Spec => []VersionTwoHasColumns
<1>1. IInv => VersionTwoHasColumns
  BY DEF IInv, SchemaOK, VersionTwoHasColumns
<1> QED BY <1>1, StoreIInv, PTL

\* Success, conflict and duplicate are true whenever they are told.
THEOREM StoreTruthful == Spec => []OutcomesTruthful
<1>1. IInv => OutcomesTruthful
  BY DEF IInv, CallOK, OutcomesTruthful, Own
<1> QED BY <1>1, StoreIInv, PTL

-------------------------------------------------------------------------------
(* The refinement.                                                            *)

Entry(x) == [ id |-> x.id, body |-> x.body ]

\* The numbered rows of a run read as a sequence of entries.
LEMMA ContentsTyped ==
  ASSUME IInv
  PROVE  \A r \in Runs : Contents(r) \in Seq([ id : EventIds, body : Bodies ])
<1> SUFFICES ASSUME NEW r \in Runs
             PROVE  Contents(r) \in Seq([ id : EventIds, body : Bodies ])
  OBVIOUS
<1>1. NextSequence(r) \in Nat
  BY DEF IInv, Numbered
<1>2. \A i \in 1 .. NextSequence(r) : RowAt(r, i - 1) \in rows
  <2> SUFFICES ASSUME NEW i \in 1 .. NextSequence(r)
               PROVE  RowAt(r, i - 1) \in rows
    OBVIOUS
  <2>1. i - 1 \in 0 .. NextSequence(r) - 1
    BY <1>1
  <2> QED BY <2>1, RowAtFinds DEF IInv
<1>3. \A i \in 1 .. NextSequence(r) :
        [ id |-> RowAt(r, i - 1).id, body |-> RowAt(r, i - 1).body ]
          \in [ id : EventIds, body : Bodies ]
  BY <1>2 DEF IInv, TypeOK, IsRow
<1>4. Contents(r) \in [ 1 .. NextSequence(r) -> [ id : EventIds, body : Bodies ] ]
  BY <1>3 DEF Contents
<1> QED BY ZenonT(40), <1>1, <1>4, SeqDef

\* A stored row is one entry at the end of its run's log.
LEMMA StoredIsAppended ==
  ASSUME IInv, Numbered', NEW x, IsRow(x), x.seq = NextSequence(x.run),
         rows' = rows \cup { x }, ~IdStored(x.id)
  PROVE  Log!Add(x.run, Entry(x))
<1>1. x.run \in Runs /\ x.id \in EventIds /\ x.body \in Bodies
  BY DEF IsRow
<1>2. \A r \in Runs : /\ NextSequence(r) \in Nat
                      /\ NextSequence(r)' =
                           IF r = x.run THEN NextSequence(r) + 1 ELSE NextSequence(r)
  BY StoreNumbers DEF IInv, TypeOK, Numbered
<1>3. \A y, z \in rows' : y.run = z.run /\ y.seq = z.seq => y = z
  BY DEF Numbered
<1>4. \A r \in Runs : \A k \in 0 .. NextSequence(r) - 1 :
        /\ RowAt(r, k) \in rows
        /\ RowAt(r, k).run = r /\ RowAt(r, k).seq = k
        /\ RowAt(r, k)' = RowAt(r, k)
  <2> SUFFICES ASSUME NEW r \in Runs, NEW k \in 0 .. NextSequence(r) - 1
               PROVE  /\ RowAt(r, k) \in rows
                      /\ RowAt(r, k).run = r /\ RowAt(r, k).seq = k
                      /\ RowAt(r, k)' = RowAt(r, k)
    OBVIOUS
  <2>1. RowAt(r, k) \in rows /\ RowAt(r, k).run = r /\ RowAt(r, k).seq = k
    BY RowAtFinds DEF IInv
  <2>2. PICK y \in rows : y = RowAt(r, k) /\ y.run = r /\ y.seq = k
    BY <2>1
  <2>3. \A z \in rows' : z.run = r /\ z.seq = k => z = y
    BY <1>3, <2>2
  <2>4. (CHOOSE z \in rows' : z.run = r /\ z.seq = k) = y
    BY <2>2, <2>3
  <2> QED BY <2>1, <2>2, <2>4 DEF RowAt
<1>5. PICK n \in Nat : n = NextSequence(x.run)
  BY <1>1, <1>2
<1>6. RowAt(x.run, n)' = x
  <2>1. x \in rows' /\ x.seq = n
    BY <1>5
  <2>2. \A z \in rows' : z.run = x.run /\ z.seq = n => z = x
    BY <1>3, <2>1
  <2>3. (CHOOSE z \in rows' : z.run = x.run /\ z.seq = n) = x
    BY <2>1, <2>2
  <2> QED BY <2>3 DEF RowAt
<1>7. ASSUME NEW r \in Runs, r # x.run
      PROVE  Contents(r)' = Contents(r)
  <2>1. NextSequence(r)' = NextSequence(r) /\ NextSequence(r) \in Nat
    BY <1>2, <1>7
  <2>2. \A i \in 1 .. NextSequence(r) : RowAt(r, i - 1)' = RowAt(r, i - 1)
    <3>1. \A i \in 1 .. NextSequence(r) : i - 1 \in 0 .. NextSequence(r) - 1
      BY <2>1
    <3> QED BY <1>4, <3>1
  <2> QED BY <2>1, <2>2 DEF Contents
<1>8. Contents(x.run)' = Append(Contents(x.run), Entry(x))
  <2>1. NextSequence(x.run)' = n + 1
    BY <1>1, <1>2, <1>5
  <2>2. Contents(x.run)' = [ i \in 1 .. n + 1 |->
          [ id |-> RowAt(x.run, i - 1)'.id, body |-> RowAt(x.run, i - 1)'.body ] ]
    BY <2>1 DEF Contents
  <2>3. Contents(x.run) = [ i \in 1 .. n |->
          [ id |-> RowAt(x.run, i - 1).id, body |-> RowAt(x.run, i - 1).body ] ]
    BY <1>5 DEF Contents
  <2>4. Len(Contents(x.run)) = n /\ Contents(x.run) \in Seq([ id : EventIds, body : Bodies ])
    <3>1. Contents(x.run) \in Seq([ id : EventIds, body : Bodies ])
      BY <1>1, ContentsTyped
    <3> QED BY <1>5, <2>3, <3>1
  <2>5. Append(Contents(x.run), Entry(x)) =
          [ i \in 1 .. n + 1 |-> IF i = n + 1 THEN Entry(x) ELSE Contents(x.run)[i] ]
    BY <2>4
  <2>6. ASSUME NEW i \in 1 .. n + 1
        PROVE  [ id |-> RowAt(x.run, i - 1)'.id, body |-> RowAt(x.run, i - 1)'.body ] =
                 IF i = n + 1 THEN Entry(x) ELSE Contents(x.run)[i]
    <3>1. CASE i = n + 1
      <4>1. i - 1 = n
        BY <3>1
      <4> QED BY <1>6, <3>1, <4>1 DEF Entry
    <3>2. CASE i # n + 1
      <4>1. i \in 1 .. n /\ i - 1 \in 0 .. NextSequence(x.run) - 1
        BY <1>5, <3>2
      <4>2. RowAt(x.run, i - 1)' = RowAt(x.run, i - 1)
        BY <1>1, <1>4, <4>1
      <4> QED BY <2>3, <3>2, <4>1, <4>2
    <3> QED BY <3>1, <3>2
  <2> QED BY <2>2, <2>5, <2>6
<1>9. ~Log!IdUsed(x.id)
  <2> SUFFICES ASSUME NEW r \in Runs, NEW i \in DOMAIN Contents(r)
               PROVE  Contents(r)[i].id # x.id
    BY DEF Log!IdUsed
  <2>1. i \in 1 .. NextSequence(r) /\ Contents(r)[i].id = RowAt(r, i - 1).id
    BY DEF Contents
  <2>2. i - 1 \in 0 .. NextSequence(r) - 1
    BY <1>2, <2>1
  <2>3. RowAt(r, i - 1) \in rows
    BY <1>4, <2>2
  <2> QED BY <2>1, <2>3 DEF IdStored
<1>10. [ r \in Runs |-> Contents(r)' ] =
         [ [ r \in Runs |-> Contents(r) ] EXCEPT ![x.run] = Append(@, Entry(x)) ]
  BY <1>1, <1>7, <1>8
<1> QED BY <1>9, <1>10 DEF Log!Add, Entry

\* The table implements the log: rows appear only at the end of their run, by
\* a commit or by an older release, and every other step leaves the log alone.
THEOREM StoreImplementsAppendLog == Spec => ImplementsAppendLog
<1>1. Init => Log!Init
  BY InitIInv, ContentsTyped DEF Log!Init
<1>2. ASSUME IInv, IInv', [Next]_vars
      PROVE  [ Log!Next ]_[ r \in Runs |-> Contents(r) ]
  <2>1. CASE rows' = rows
    <3>1. \A r : NextSequence(r)' = NextSequence(r)
      BY <2>1, SameRows
    <3>2. \A r, k : RowAt(r, k)' = RowAt(r, k)
      BY <2>1 DEF RowAt
    <3>3. \A r \in Runs : Contents(r)' = Contents(r)
      BY <3>1, <3>2 DEF Contents
    <3> QED BY <3>3
  <2>2. ASSUME NEW x, IsRow(x), x.seq = NextSequence(x.run), rows' = rows \cup { x },
               ~IdStored(x.id)
        PROVE  Log!Next
    <3>1. Log!Add(x.run, Entry(x))
      BY <1>2, <2>2, StoredIsAppended DEF IInv
    <3>2. x.run \in Runs /\ Entry(x) \in [ id : EventIds, body : Bodies ]
      BY <2>2 DEF IsRow, Entry
    <3> QED BY <3>1, <3>2 DEF Log!Next
  <2>3. ASSUME NEW w \in Writers, Commit(w)
        PROVE  Log!Next
    <3>1. call[w].row = NewRow(w) /\ call[w].op = "append" /\ ~IdStored(call[w].id)
      BY <1>2, <2>3 DEF Commit, At, IInv, CallOK, Appending
    <3>2. /\ IsRow(call[w].row) /\ call[w].row.seq = NextSequence(call[w].row.run)
          /\ ~IdStored(call[w].row.id) /\ rows' = rows \cup { call[w].row }
      BY <1>2, <2>3, <3>1, NewRowContinues DEF Commit
    <3> QED BY <2>2, <3>2
  <2>4. ASSUME NEW r \in Runs, NEW id \in EventIds, NEW b \in Bodies, LegacyAppend(r, id, b)
        PROVE  Log!Next
    <3> DEFINE x == LegacyRow(r, NextSequence(r), id, b)
    <3>1. /\ IsRow(x) /\ x.seq = NextSequence(x.run)
          /\ ~IdStored(x.id) /\ rows' = rows \cup { x }
      BY <1>2, <2>4 DEF LegacyAppend, LegacyRow, IsRow, IInv, Numbered
    <3> HIDE DEF x
    <3> QED BY <2>2, <3>1
  <2>5. Next => \/ rows' = rows
                \/ \E w \in Writers : Commit(w)
                \/ \E r \in Runs, id \in EventIds, b \in Bodies : LegacyAppend(r, id, b)
    BY DEF Next, Connect, Transact, Migrate, Probe, Create, Stamp, Begin, Busy, Conflict,
           Duplicate, Insert, Return, Crash, StartAppend, StartMigrate, MigrateCheck,
           MigrateBegin, MigrateAlter, MigrateStamp, MigrateReport
  <2> QED BY <1>2, <2>1, <2>3, <2>4, <2>5 DEF vars
<1> QED BY <1>1, <1>2, StoreIInv, PTL DEF Spec, ImplementsAppendLog, Log!Spec

-------------------------------------------------------------------------------
(* The chain. The head after a position is a recursive function of the       *)
(* stream: what is said of it is proved for the first position where it fails. *)

\* A nonempty set of positions has a least element.
LEMMA Least ==
  ASSUME NEW N \in Nat, NEW S \in SUBSET (1 .. N), S # {}
  PROVE  \E i \in S : \A j \in S : i <= j
<1> DEFINE T == { 1 .. i : i \in S }
<1>1. \A i \in S : (1 .. i) \in FiniteSubsetsOf(1 .. N)
  <2> SUFFICES ASSUME NEW i \in S PROVE (1 .. i) \in FiniteSubsetsOf(1 .. N)
    OBVIOUS
  <2>1. IsFiniteSet(1 .. i)
    BY FS_Interval
  <2>2. (1 .. i) \subseteq 1 .. N
    OBVIOUS
  <2> QED BY <2>1, <2>2 DEF FiniteSubsetsOf
<1>2. T \subseteq FiniteSubsetsOf(1 .. N) /\ T # {}
  BY <1>1
<1>3. PICK least \in T :
        \A other \in T : ~(<< other, least >> \in StrictSubsetOrdering(1 .. N))
  <2>1. IsWellFoundedOn(StrictSubsetOrdering(1 .. N), FiniteSubsetsOf(1 .. N))
    BY FS_StrictSubsetOrderingWellFounded
  <2> HIDE DEF T
  <2> QED BY <2>1, <1>2, WFMin
<1>4. PICK i \in S : least = 1 .. i
  OBVIOUS
<1>5. ASSUME NEW j \in S, ~(i <= j) PROVE FALSE
  <2>1. (1 .. j) \in SUBSET (1 .. N) /\ (1 .. i) \in SUBSET (1 .. N)
    BY <1>1 DEF FiniteSubsetsOf
  <2>2. (1 .. j) \subseteq (1 .. i)
    BY <1>5
  <2>3. (1 .. j) # (1 .. i)
    <3>1. i \in 1 .. i /\ i \notin 1 .. j
      BY <1>5
    <3> QED BY <3>1
  <2>4. << 1 .. j, 1 .. i >> \in StrictSubsetOrdering(1 .. N)
    BY <2>1, <2>2, <2>3, Zenon DEF StrictSubsetOrdering
  <2> QED BY <2>4, <1>3, <1>4
<1> QED BY <1>5

Stepped(f, stream, n) ==
  f = [ i \in 0 .. n |-> IF i = 0 THEN Null ELSE Link(f[i - 1], stream[i]) ]

\* The heads of a stream can be computed to any position.
LEMMA HeadsReach ==
  ASSUME NEW stream, NEW N \in Nat
  PROVE  \E f : Stepped(f, stream, N)
<1>0. \E f : Stepped(f, stream, 0)
  <2> DEFINE f == [ i \in 0 .. 0 |-> Null ]
  <2>1. f = [ i \in 0 .. 0 |-> IF i = 0 THEN Null ELSE Link(f[i - 1], stream[i]) ]
    OBVIOUS
  <2> QED BY <2>1 DEF Stepped
<1> DEFINE S == { n \in 1 .. N : ~\E f : Stepped(f, stream, n) }
<1>1. CASE S = {}
  BY <1>0, <1>1
<1>2. CASE S # {}
  <2>1. PICK n \in S : \A m \in S : n <= m
    BY <1>2, Least
  <2>2. \E f : Stepped(f, stream, n - 1)
    <3>1. n - 1 \notin S /\ n - 1 \in 0 .. N
      BY <2>1
    <3> QED BY <1>0, <3>1
  <2>3. PICK f : f = [ i \in 0 .. n - 1 |->
                         IF i = 0 THEN Null ELSE Link(f[i - 1], stream[i]) ]
    BY <2>2 DEF Stepped
  <2> DEFINE g == [ i \in 0 .. n |->
                      IF i = n THEN Link(f[n - 1], stream[n]) ELSE f[i] ]
  <2>4. n \in 1 .. N
    BY <2>1
  <2>5. ASSUME NEW i \in 0 .. n
        PROVE  g[i] = IF i = 0 THEN Null ELSE Link(g[i - 1], stream[i])
    <3>1. CASE i = 0
      <4>1. i # n /\ i \in 0 .. n - 1
        BY <2>4, <3>1
      <4>2. f[i] = Null
        BY <2>3, <4>1, <3>1
      <4> QED BY <3>1, <4>1, <4>2
    <3>2. CASE i = n
      <4>1. i # 0 /\ g[i] = Link(f[n - 1], stream[n])
        BY <2>4, <3>2
      <4>2. g[i - 1] = f[n - 1]
        BY <2>4, <3>2
      <4> QED BY <3>2, <4>1, <4>2
    <3>3. CASE i # 0 /\ i # n
      <4>1. i \in 0 .. n - 1 /\ i - 1 \in 0 .. n /\ i - 1 # n
        BY <2>4, <3>3
      <4>2. f[i] = Link(f[i - 1], stream[i])
        BY <2>3, <4>1, <3>3
      <4>3. g[i] = f[i] /\ g[i - 1] = f[i - 1]
        BY <3>3, <4>1
      <4> QED BY <3>3, <4>2, <4>3
    <3> QED BY <3>1, <3>2, <3>3
  <2>6. g = [ i \in 0 .. n |-> IF i = 0 THEN Null ELSE Link(g[i - 1], stream[i]) ]
    <3>1. g = [ i \in 0 .. n |-> g[i] ]
      OBVIOUS
    <3> HIDE DEF g
    <3> QED BY <2>5, <3>1
  <2>7. Stepped(g, stream, n)
    <3> HIDE DEF g
    <3> QED BY <2>6 DEF Stepped
  <2> QED BY <2>1, <2>7
<1> QED BY <1>1, <1>2

\* verify_chain starts with no head and takes one link a row.
LEMMA HeadsStep ==
  ASSUME NEW stream, Len(stream) \in Nat
  PROVE  /\ Heads(stream)[0] = Null
         /\ \A i \in 1 .. Len(stream) :
              Heads(stream)[i] = Link(Heads(stream)[i - 1], stream[i])
<1>1. Stepped(Heads(stream), stream, Len(stream))
  <2>1. \E f : Stepped(f, stream, Len(stream))
    BY HeadsReach
  <2> QED BY <2>1, Zenon DEF Heads, Stepped
<1>2. PICK h : h = Heads(stream)
  OBVIOUS
<1>3. h = [ i \in 0 .. Len(stream) |->
              IF i = 0 THEN Null ELSE Link(h[i - 1], stream[i]) ]
  BY <1>1, <1>2 DEF Stepped
<1>4. h[0] = Null
  BY <1>3
<1>5. \A i \in 1 .. Len(stream) : h[i] = Link(h[i - 1], stream[i])
  BY <1>3
<1> QED BY <1>2, <1>4, <1>5

\* A stream holds the rows of its run in order; each chained one is linked to
\* the one before it.
LEMMA StreamLinked ==
  ASSUME IInv, NEW r \in Runs
  PROVE  /\ Len(Stream(r)) = NextSequence(r) /\ NextSequence(r) \in Nat
         /\ DOMAIN Stream(r) = 1 .. NextSequence(r)
         /\ \A i \in 1 .. NextSequence(r) : Stream(r)[i] \in rows
         /\ \A i \in 1 .. NextSequence(r) : Stream(r)[i].hash # Null =>
              /\ Stream(r)[i].hash = Digest(Stream(r)[i])
              /\ Stream(r)[i].prev = IF i = 1 THEN Null ELSE Stream(r)[i - 1].hash
<1>1. PICK n \in Nat : n = NextSequence(r)
  BY DEF IInv, Numbered
<1>2. Stream(r) = [ i \in 1 .. n |-> RowAt(r, i - 1) ]
  BY <1>1 DEF Stream
<1>3. \A i \in 1 .. n : /\ Stream(r)[i] \in rows
                        /\ Stream(r)[i].run = r /\ Stream(r)[i].seq = i - 1
  <2> SUFFICES ASSUME NEW i \in 1 .. n
               PROVE  /\ Stream(r)[i] \in rows
                      /\ Stream(r)[i].run = r /\ Stream(r)[i].seq = i - 1
    OBVIOUS
  <2>1. i - 1 \in 0 .. NextSequence(r) - 1 /\ Stream(r)[i] = RowAt(r, i - 1)
    BY <1>1, <1>2
  <2> QED BY <2>1, RowAtFinds DEF IInv
<1>4. ASSUME NEW i \in 1 .. n, Stream(r)[i].hash # Null
      PROVE  /\ Stream(r)[i].hash = Digest(Stream(r)[i])
             /\ Stream(r)[i].prev = IF i = 1 THEN Null ELSE Stream(r)[i - 1].hash
  <2> DEFINE x == Stream(r)[i]
  <2>1. x \in rows /\ x.run = r /\ x.seq = i - 1 /\ x.hash # Null
    BY <1>3, <1>4
  <2>2. i # 1 => /\ Stream(r)[i - 1] \in rows /\ Stream(r)[i - 1].run = r
                 /\ Stream(r)[i - 1].seq = i - 2
    <3>1. i # 1 => i - 1 \in 1 .. n
      OBVIOUS
    <3> QED BY <1>3, <3>1
  <2>3. i # 1 => x.seq = Stream(r)[i - 1].seq + 1
    BY <2>1, <2>2
  <2> HIDE DEF x
  <2>4. x.hash = Digest(x) /\ (x.seq = 0 => x.prev = Null)
        /\ \A y \in rows : y.run = x.run /\ x.seq = y.seq + 1 => x.prev = y.hash
    BY <2>1 DEF IInv, Linked
  <2>5. i = 1 => x.prev = Null
    BY <2>1, <2>4
  <2>6. i # 1 => x.prev = Stream(r)[i - 1].hash
    BY <2>1, <2>2, <2>3, <2>4
  <2> QED BY <2>4, <2>5, <2>6 DEF x
<1>5. Len(Stream(r)) = n /\ DOMAIN Stream(r) = 1 .. n
  BY <1>2
<1> QED BY <1>1, <1>3, <1>4, <1>5

\* Nobody's digest is the mark of a broken chain.
LEMMA DigestNotBroken == \A row : Digest(row) # Broken
  BY DEF Digest, Broken

\* In a stream whose chained rows are linked, with no unchained row after a
\* chained one, the head after a row is that row's hash.
LEMMA LinkedHeads ==
  ASSUME NEW s, Len(s) \in Nat,
         \A i \in 1 .. Len(s) : s[i].hash # Null =>
           /\ s[i].hash = Digest(s[i])
           /\ s[i].prev = IF i = 1 THEN Null ELSE s[i - 1].hash,
         ~\E i, j \in 1 .. Len(s) : i < j /\ s[i].hash # Null /\ s[j].hash = Null
  PROVE  \A i \in 0 .. Len(s) : /\ Heads(s)[i] = IF i = 0 THEN Null ELSE s[i].hash
                                /\ Heads(s)[i] # Broken
<1> DEFINE Right(i) == /\ Heads(s)[i] = IF i = 0 THEN Null ELSE s[i].hash
                       /\ Heads(s)[i] # Broken
           S == { i \in 1 .. Len(s) : ~Right(i) }
<1>0. Right(0)
  <2>1. Heads(s)[0] = Null /\ Null # Broken
    BY HeadsStep, EventStoreAssumption DEF Broken
  <2> QED BY <2>1
<1>1. S = {}
  <2> SUFFICES ASSUME S # {} PROVE FALSE
    OBVIOUS
  <2>1. PICK i \in S : \A j \in S : i <= j
    BY Least
  <2>2. i \in 1 .. Len(s) /\ ~Right(i)
    BY <2>1
  <2>3. Right(i - 1)
    <3>1. CASE i = 1
      BY <1>0, <3>1
    <3>2. CASE i # 1
      <4>1. i - 1 \in 1 .. Len(s) /\ i - 1 \notin S
        BY <2>1, <2>2, <3>2
      <4> QED BY <4>1
    <3> QED BY <3>1, <3>2
  <2>4. Heads(s)[i] = Link(Heads(s)[i - 1], s[i])
    BY <2>2, HeadsStep
  <2>5. PICK head : head = Heads(s)[i - 1]
    OBVIOUS
  <2>6. head # Broken /\ head = IF i = 1 THEN Null ELSE s[i - 1].hash
    BY <2>2, <2>3, <2>5
  <2>7. CASE s[i].hash = Null
    <3>1. head = Null
      <4>1. i # 1 => i - 1 \in 1 .. Len(s) /\ i - 1 < i
        BY <2>2
      <4>2. i # 1 => s[i - 1].hash = Null
        BY <2>2, <2>7, <4>1
      <4> QED BY <2>6, <4>2
    <3>2. Link(head, s[i]) = Null
      BY <2>6, <2>7, <3>1 DEF Link
    <3> QED BY <2>2, <2>4, <2>5, <2>6, <2>7, <3>1, <3>2
  <2>8. CASE s[i].hash # Null
    <3>1. s[i].hash = Digest(s[i]) /\ s[i].prev = head
      BY <2>2, <2>6, <2>8
    <3>2. Link(head, s[i]) = s[i].hash
      BY <2>6, <2>8, <3>1 DEF Link
    <3>3. s[i].hash # Broken
      BY <3>1, DigestNotBroken
    <3> QED BY <2>2, <2>4, <2>5, <3>2, <3>3
  <2> QED BY <2>7, <2>8
<1>2. ASSUME NEW i \in 0 .. Len(s) PROVE Right(i)
  <2>1. i = 0 \/ i \in 1 .. Len(s)
    OBVIOUS
  <2>2. i \notin S
    BY <1>1
  <2>3. i \in 1 .. Len(s) => Right(i)
    BY <2>2
  <2> HIDE DEF Right
  <2> QED BY <1>0, <2>1, <2>3
<1> QED BY <1>2

\* Appends of this release, racing one another, migrations and crashes, never
\* break a chain: replay stops only at a row an older release added after the
\* chain had begun.
THEOREM StoreChains == Spec => []OnlyLegacyBreaks
<1>1. IInv => OnlyLegacyBreaks
  <2> SUFFICES ASSUME IInv, NEW r \in Runs,
                      ~\E i, j \in 1 .. Len(Stream(r)) :
                         i < j /\ Stream(r)[i].hash # Null /\ Stream(r)[j].hash = Null
               PROVE  VerifiedHead(Stream(r)) # Broken
    BY DEF OnlyLegacyBreaks
  <2>1. PICK s : s = Stream(r)
    OBVIOUS
  <2>2. /\ Len(s) \in Nat
        /\ \A i \in 1 .. Len(s) : s[i].hash # Null =>
             /\ s[i].hash = Digest(s[i])
             /\ s[i].prev = IF i = 1 THEN Null ELSE s[i - 1].hash
    BY <2>1, StreamLinked
  <2>3. Heads(s)[Len(s)] # Broken
    <3>1. Len(s) \in 0 .. Len(s)
      BY <2>2
    <3>2. ~\E i, j \in 1 .. Len(s) : i < j /\ s[i].hash # Null /\ s[j].hash = Null
      BY <2>1
    <3> QED BY <2>2, <3>1, <3>2, LinkedHeads
  <2> QED BY <2>1, <2>3 DEF VerifiedHead
<1> QED BY <1>1, StoreIInv, PTL

\* One link, read backwards from an unbroken head.
LEMMA LinkedBack ==
  ASSUME NEW s, Len(s) \in Nat, NEW i \in 1 .. Len(s), Heads(s)[i] # Broken
  PROVE  /\ Heads(s)[i - 1] # Broken
         /\ s[i].hash = Null => Heads(s)[i] = Null /\ Heads(s)[i - 1] = Null
         /\ s[i].hash # Null => /\ Heads(s)[i] = s[i].hash
                                /\ s[i].prev = Heads(s)[i - 1]
                                /\ s[i].hash = Digest(s[i])
<1>1. PICK head, next : head = Heads(s)[i - 1] /\ next = Heads(s)[i]
  OBVIOUS
<1>2. next = Link(head, s[i]) /\ next # Broken
  BY <1>1, HeadsStep
<1>3. /\ head # Broken
      /\ s[i].hash = Null => next = Null /\ head = Null
      /\ s[i].hash # Null => next = s[i].hash /\ s[i].prev = head /\ s[i].hash = Digest(s[i])
  BY <1>2 DEF Link
<1> QED BY <1>1, <1>3

\* A replay that has seen no head has seen no chained row.
LEMMA HeadlessUnchained ==
  ASSUME NEW s, Len(s) \in Nat
  PROVE  \A i \in 0 .. Len(s) :
           Heads(s)[i] = Null => \A k \in 1 .. i : s[k].hash = Null
<1> DEFINE Right(i) == Heads(s)[i] = Null => \A k \in 1 .. i : s[k].hash = Null
           S == { i \in 1 .. Len(s) : ~Right(i) }
<1>0. Right(0)
  OBVIOUS
<1>1. S = {}
  <2> SUFFICES ASSUME S # {} PROVE FALSE
    OBVIOUS
  <2>1. PICK i \in S : \A j \in S : i <= j
    BY Least
  <2>2. i \in 1 .. Len(s) /\ Heads(s)[i] = Null /\ ~\A k \in 1 .. i : s[k].hash = Null
    BY <2>1
  <2>3. Heads(s)[i] # Broken
    BY <2>2, EventStoreAssumption DEF Broken
  <2>4. s[i].hash = Null /\ Heads(s)[i - 1] = Null
    BY <2>2, <2>3, LinkedBack
  <2>5. \A k \in 1 .. i - 1 : s[k].hash = Null
    <3>1. i - 1 = 0 \/ (i - 1 \in 1 .. Len(s) /\ i - 1 \notin S)
      BY <2>1, <2>2
    <3> QED BY <3>1, <2>4
  <2>6. \A k \in 1 .. i : k = i \/ k \in 1 .. i - 1
    BY <2>2
  <2> QED BY <2>2, <2>4, <2>5, <2>6
<1>2. ASSUME NEW i \in 0 .. Len(s) PROVE Right(i)
  <2>1. i = 0 \/ i \in 1 .. Len(s)
    OBVIOUS
  <2>2. i \notin S
    BY <1>1
  <2>3. i \in 1 .. Len(s) => Right(i)
    BY <2>2
  <2> HIDE DEF Right
  <2> QED BY <1>0, <2>1, <2>3
<1> QED BY <1>2

\* Both replays have found the same chained row at the head.
Meet(p, j, s, i) ==
  /\ p[j].hash # Null /\ p[j].hash # Broken /\ p[j].hash = s[i].hash
  /\ Heads(p)[j] = p[j].hash /\ Heads(s)[i] = s[i].hash

\* From one link back to the whole chain.
LEMMA AlikeStep ==
  ASSUME NEW p, NEW s, NEW j \in Nat, NEW i \in Nat, j > 0, i > 0,
         SameRow(p[j], s[i]),
         \/ /\ \A k \in 1 .. j - 1 : p[k].hash = Null
            /\ \A k \in 1 .. i - 1 : s[k].hash = Null
         \/ j > 1 /\ i > 1 /\ ChainedAlike(p, j - 1, s, i - 1)
  PROVE  ChainedAlike(p, j, s, i)
<1>0. j - 0 = j /\ i - 0 = i
  OBVIOUS
<1>1. CASE /\ \A k \in 1 .. j - 1 : p[k].hash = Null
           /\ \A k \in 1 .. i - 1 : s[k].hash = Null
  <2>1. \A k \in 0 .. j - 1 : k = 0 \/ j - k \in 1 .. j - 1
    OBVIOUS
  <2>2. \A k \in 0 .. i - 1 : k = 0 \/ i - k \in 1 .. i - 1
    OBVIOUS
  <2>3. \A k \in 0 .. j - 1 : p[j - k].hash # Null => k = 0
    BY <1>1, <2>1
  <2>4. \A k \in 0 .. i - 1 : s[i - k].hash # Null => k = 0
    BY <1>1, <2>2
  <2> QED BY <1>0, <2>3, <2>4 DEF ChainedAlike
<1>2. CASE j > 1 /\ i > 1 /\ ChainedAlike(p, j - 1, s, i - 1)
  <2>1. ASSUME NEW k \in 0 .. j - 1, k # 0
        PROVE  p[j - k].hash # Null => k < i /\ SameRow(p[j - k], s[i - k])
    <3>1. k - 1 \in 0 .. (j - 1) - 1 /\ (j - 1) - (k - 1) = j - k /\ (i - 1) - (k - 1) = i - k
      BY <2>1
    <3>2. p[(j - 1) - (k - 1)].hash # Null =>
            k - 1 < i - 1 /\ SameRow(p[(j - 1) - (k - 1)], s[(i - 1) - (k - 1)])
      BY <1>2, <3>1 DEF ChainedAlike
    <3>3. k - 1 < i - 1 => k < i
      OBVIOUS
    <3> QED BY <3>1, <3>2, <3>3
  <2>2. ASSUME NEW k \in 0 .. i - 1, k # 0
        PROVE  s[i - k].hash # Null => k < j /\ SameRow(p[j - k], s[i - k])
    <3>1. k - 1 \in 0 .. (i - 1) - 1 /\ (j - 1) - (k - 1) = j - k /\ (i - 1) - (k - 1) = i - k
      BY <2>2
    <3>2. s[(i - 1) - (k - 1)].hash # Null =>
            k - 1 < j - 1 /\ SameRow(p[(j - 1) - (k - 1)], s[(i - 1) - (k - 1)])
      BY <1>2, <3>1 DEF ChainedAlike
    <3>3. k - 1 < j - 1 => k < j
      OBVIOUS
    <3> QED BY <3>1, <3>2, <3>3
  <2> QED BY <1>0, <2>1, <2>2 DEF ChainedAlike
<1> QED BY <1>1, <1>2

\* Two replays, of any two streams, that meet have seen the same chain.
LEMMA MeetingReplays ==
  ASSUME NEW p, NEW s, Len(p) \in Nat, Len(s) \in Nat
  PROVE  \A j \in 1 .. Len(p), i \in 1 .. Len(s) : Meet(p, j, s, i) => ChainedAlike(p, j, s, i)
<1> DEFINE S == { j \in 1 .. Len(p) :
                    \E i \in 1 .. Len(s) : Meet(p, j, s, i) /\ ~ChainedAlike(p, j, s, i) }
<1>1. S = {}
  <2> SUFFICES ASSUME S # {} PROVE FALSE
    OBVIOUS
  <2>1. PICK j \in S : \A m \in S : j <= m
    BY Least
  <2>2. PICK i \in 1 .. Len(s) : Meet(p, j, s, i) /\ ~ChainedAlike(p, j, s, i)
    BY <2>1
  <2>3. j \in 1 .. Len(p) /\ j \in Nat /\ i \in Nat /\ j > 0 /\ i > 0
    BY <2>1, <2>2
  <2>4. /\ Heads(p)[j - 1] # Broken /\ p[j].hash = Digest(p[j])
        /\ p[j].prev = Heads(p)[j - 1]
    BY <2>2, <2>3, LinkedBack DEF Meet
  <2>5. /\ s[i].hash = Digest(s[i]) /\ s[i].prev = Heads(s)[i - 1]
        /\ Heads(s)[i] # Broken
    BY <2>2, <2>3, LinkedBack DEF Meet
  <2>6. SameRow(p[j], s[i]) /\ p[j].prev = s[i].prev
    <3>1. p[j].hash = s[i].hash
      BY <2>2 DEF Meet
    <3>2. Digest(p[j]) = Digest(s[i])
      BY <2>4, <2>5, <3>1
    <3>3. p[j].prev = s[i].prev
      BY <3>2 DEF Digest
    <3> QED BY <3>1, <3>2, <3>3 DEF SameRow
  <2>7. PICK d : d = p[j].prev
    OBVIOUS
  <2>8. d = Heads(p)[j - 1] /\ d = Heads(s)[i - 1] /\ d # Broken
    BY <2>4, <2>5, <2>6, <2>7
  <2>9. CASE d = Null
    <3>1. j - 1 \in 0 .. Len(p) /\ i - 1 \in 0 .. Len(s)
      BY <2>3
    <3>2. /\ \A k \in 1 .. j - 1 : p[k].hash = Null
          /\ \A k \in 1 .. i - 1 : s[k].hash = Null
      BY <2>8, <2>9, <3>1, HeadlessUnchained
    <3> QED BY <2>2, <2>3, <2>6, <3>2, AlikeStep
  <2>10. CASE d # Null
    <3>1. j > 1 /\ i > 1
      <4>1. Heads(p)[0] = Null /\ Heads(s)[0] = Null
        BY HeadsStep
      <4>2. j - 1 # 0 /\ i - 1 # 0
        BY <2>8, <2>10, <4>1
      <4> QED BY <2>3, <4>2
    <3>2. j - 1 \in 1 .. Len(p) /\ i - 1 \in 1 .. Len(s) /\ j - 1 < j
      BY <2>3, <3>1
    <3>3. p[j - 1].hash = d /\ s[i - 1].hash = d
      BY <2>8, <2>10, <3>2, LinkedBack
    <3>4. Meet(p, j - 1, s, i - 1)
      BY <2>8, <2>10, <3>3 DEF Meet
    <3>5. j - 1 \notin S
      BY <2>1, <2>3, <3>2
    <3>6. ChainedAlike(p, j - 1, s, i - 1)
      BY <3>2, <3>4, <3>5
    <3> QED BY <2>2, <2>3, <2>6, <3>1, <3>6, AlikeStep
  <2> QED BY <2>9, <2>10
<1>2. ASSUME NEW j \in 1 .. Len(p), NEW i \in 1 .. Len(s), Meet(p, j, s, i)
      PROVE  ChainedAlike(p, j, s, i)
  <2>1. j \notin S
    BY <1>1
  <2> QED BY <1>2, <2>1
<1> QED BY <1>2

\* The six forms of a presented stream.
LEMMA PresentedForms ==
  ASSUME NEW s, NEW n, n = Len(s), NEW p \in Presented(s)
  PROVE  \/ p = s
         \/ \E k \in 0 .. n : p = SubSeq(s, 1, k)
         \/ \E k \in 1 .. n : p = [ i \in 1 .. n - 1 |-> IF i < k THEN s[i] ELSE s[i + 1] ]
         \/ \E k \in 1 .. n - 1 : p = [ s EXCEPT ![k] = s[k + 1], ![k + 1] = s[k] ]
         \/ \E k, id : p = Edited(s, k, id)
         \/ \E k, id : p = Rehashed(s, k, id)
<1>1. \/ p \in { s }
      \/ p \in { SubSeq(s, 1, k) : k \in 0 .. n }
      \/ p \in { [ i \in 1 .. n - 1 |-> IF i < k THEN s[i] ELSE s[i + 1] ] : k \in 1 .. n }
      \/ p \in { [ s EXCEPT ![k] = s[k + 1], ![k + 1] = s[k] ] : k \in 1 .. n - 1 }
      \/ p \in { Edited(s, k, id) : k \in 1 .. n, id \in EventIds }
      \/ p \in { Rehashed(s, k, id) : k \in 1 .. n, id \in EventIds }
  BY DEF Presented
<1>2. CASE p \in { Edited(s, k, id) : k \in 1 .. n, id \in EventIds }
  BY <1>2
<1>3. CASE p \in { Rehashed(s, k, id) : k \in 1 .. n, id \in EventIds }
  BY <1>3
<1>4. CASE p \in { [ s EXCEPT ![k] = s[k + 1], ![k + 1] = s[k] ] : k \in 1 .. n - 1 }
  BY <1>4
<1>5. CASE p \in { [ i \in 1 .. n - 1 |-> IF i < k THEN s[i] ELSE s[i + 1] ] : k \in 1 .. n }
  BY <1>5
<1>6. CASE p \in { SubSeq(s, 1, k) : k \in 0 .. n }
  BY <1>6
<1>7. CASE p \in { s }
  BY <1>7
<1> QED BY ONLY <1>1, <1>2, <1>3, <1>4, <1>5, <1>6, <1>7

\* What may be presented for a stream is a sequence.
LEMMA PresentedSequences ==
  ASSUME NEW s, NEW n \in Nat, Len(s) = n, s = [ i \in 1 .. n |-> s[i] ], NEW p \in Presented(s)
  PROVE  Len(p) \in Nat
<1>1. CASE p = s
  BY <1>1
<1>2. CASE \E k \in 0 .. n : p = SubSeq(s, 1, k)
  <2>1. PICK k \in 0 .. n : p = SubSeq(s, 1, k)
    BY <1>2
  <2>2. p = [ i \in 1 .. k |-> s[i] ]
    BY <2>1
  <2> QED BY <2>2
<1>3. CASE \E k \in 1 .. n : p = [ i \in 1 .. n - 1 |-> IF i < k THEN s[i] ELSE s[i + 1] ]
  <2>1. PICK k \in 1 .. n : p = [ i \in 1 .. n - 1 |-> IF i < k THEN s[i] ELSE s[i + 1] ]
    BY <1>3
  <2>2. n - 1 \in Nat
    BY <2>1
  <2> QED BY <2>1, <2>2
<1>4. ASSUME DOMAIN p = 1 .. n
      PROVE  Len(p) \in Nat
  BY <1>4
<1>5. CASE \E k \in 1 .. n - 1 : p = [ s EXCEPT ![k] = s[k + 1], ![k + 1] = s[k] ]
  <2>1. DOMAIN p = 1 .. n
    BY <1>5
  <2> QED BY <2>1, <1>4
<1>6. \A k, id : DOMAIN Edited(s, k, id) = 1 .. n
  BY DEF Edited
<1>7. \A k, id : DOMAIN Rehashed(s, k, id) = 1 .. n
  BY <1>6 DEF Rehashed
<1> QED BY <1>1, <1>2, <1>3, <1>4, <1>5, <1>6, <1>7, PresentedForms

\* An anchored head fixes the chained rows below it: whatever is presented for
\* the run, a replay that finds the anchored digest has seen those rows.
THEOREM StoreAnchors == Spec => []AnchorDeterminesPrefix
<1>1. IInv => AnchorDeterminesPrefix
  <2> SUFFICES ASSUME IInv, NEW r \in Runs, NEW i \in 1 .. Len(Stream(r)),
                      WasHeadAt(Stream(r), Stream(r)[i].hash, i), Stream(r)[i].hash # Null,
                      NEW p \in Presented(Stream(r)), NEW j \in 1 .. Len(p),
                      p[j].hash = Stream(r)[i].hash, WasHeadAt(p, Stream(r)[i].hash, j)
               PROVE  ChainedAlike(p, j, Stream(r), i)
    BY DEF AnchorDeterminesPrefix
  <2>1. PICK s : s = Stream(r)
    OBVIOUS
  <2>2. PICK n \in Nat : n = NextSequence(r)
    BY StreamLinked
  <2>3. Len(s) = n /\ s = [ k \in 1 .. n |-> s[k] ]
    <3>1. s = [ k \in 1 .. n |-> RowAt(r, k - 1) ]
      BY <2>1, <2>2 DEF Stream
    <3> QED BY <3>1
  <2>4. Len(p) \in Nat
    BY <2>1, <2>3, PresentedSequences
  <2>5. s[i].hash # Broken
    <3>1. s[i].hash = Digest(s[i])
      BY <2>1, <2>2, <2>3, StreamLinked
    <3> QED BY <3>1, DigestNotBroken
  <2>6. Meet(p, j, s, i)
    BY <2>1, <2>5 DEF Meet, WasHeadAt
  <2> QED BY <2>1, <2>3, <2>4, <2>6, MeetingReplays
<1> QED BY <1>1, StoreIInv, PTL
=============================================================================
