---------------------------- MODULE EvidenceProofs ----------------------------
(* What holds of the evidence files for any number of tasks, goalposts and     *)
(* iterations, logs of any length, and any number of changes from outside and  *)
(* of crashes: the steps of the two evaluations of the bar interleave with     *)
(* every write.                                                               *)
EXTENDS Evidence, FiniteSetTheorems, WellFoundedInduction, TLAPS

-----------------------------------------------------------------------------
(* The inductive invariant, part by part.                                    *)

Modes == { "none", "weak", "verified" }

Dispatching == { "verifying", "record", "bundle" }

Concluding == { "judging", "ending" }

\* Past ReadRecord, before the next entry.
Holding == { "hash", "judge", "goal", "digest" }

RunType ==
  [ pc : { "idle", "publishing" } \cup Dispatching \cup Concluding,
    n : Nat, task : Tasks \cup { Absent }, goal : Goals \cup { Absent },
    passed : BOOLEAN, iter : Nat, cites : SUBSET Iterations, mode : Modes ]

BarType ==
  [ pc : { "off", "bound", "record", "met", "unmet" } \cup Holding,
    todo : SUBSET Iterations, upto : Nat, blob : Records \cup { Absent } ]

\* A reader reads no further than the log, and judges a record it holds.
CellOK(b) ==
  /\ b.upto <= Len(log)
  /\ b.pc \in Holding => b.todo # {} /\ b.blob \in Records

EndTyped ==
  /\ end \in [ mode : Modes, cites : SUBSET Iterations, at : Nat ]
  /\ end.at <= Len(log)
  /\ published \in BOOLEAN /\ touched \in BOOLEAN /\ refused \in BOOLEAN

FilesTyped ==
  /\ records \in [ Iterations -> Records \cup Files ]
  /\ bundles \in [ Iterations -> Bundles \cup Files ]
  /\ goal \in [ Tasks -> Goals \cup { Removed, Unhashable } ]
  /\ out \subseteq Records

RunTyped ==
  /\ run \in RunType /\ run.n <= Len(log)
  /\ run.pc \in Dispatching =>
       run.task \in Tasks /\ run.goal \in Goals /\ run.iter \in Iterations

BarTyped == bar \in [ Readers -> BarType ] /\ \A p \in Readers : CellOK(bar[p])

Types == log \in Seq(Events) /\ EndTyped /\ FilesTyped /\ RunTyped /\ BarTyped

\* Who may stand where: one end, published once; the runner evaluates the bar
\* when it concludes and when it publishes a verified end, and nobody dispatches
\* after the end.
Phases ==
  /\ end.mode = "none" => end = NoEnd
  /\ run.pc \in Dispatching \cup Concluding => end = NoEnd
  /\ run.pc = "publishing" => end.mode = "verified" /\ ~published
  /\ bar["run"].pc = "off" <=> run.pc \notin { "judging", "publishing" }
  /\ bar["run"].pc # "digest"
  /\ bar["run"].pc = "met" => bar["run"].todo = {}
  /\ run.pc = "judging" => run.mode = "weak" /\ run.cites # {}
  /\ run.pc = "ending" => run.mode # "none"
  /\ ~published => bar["verdict"].pc = "off" /\ out = {}
  /\ published \/ refused => end # NoEnd

\* What the first n events of a log bind entry i at, and whether that is one
\* record whose bundle passed.
BoundIn(l, n, i) == { l[k].record : k \in { j \in 1 .. n : l[j].iter = i } }

BackedIn(l, n, i) == \E r \in Records : BoundIn(l, n, i) = { r } /\ r.sha.green

EntryOf(todo) == CHOOSE i \in todo : \A j \in todo : i <= j

\* The blob a cell holds is what its entry was bound at.
BlobBacked(l, b) ==
  BoundIn(l, b.upto, EntryOf(b.todo)) = { b.blob } /\ b.blob.sha.green

\* The runner's evaluation when it concludes, and the end it leads to: what it
\* has judged was bound once among the events it read, which are those of the
\* projection and perhaps more.
ConcludesOn(l, r, b) ==
  /\ r.pc = "judging" /\ b.pc = "bound" => r.cites \subseteq b.todo
  /\ r.pc = "judging" /\ b.pc # "bound" =>
       /\ r.n <= b.upto
       /\ \A i \in r.cites \ b.todo : BackedIn(l, b.upto, i)
       /\ b.pc = "goal" => BlobBacked(l, b)
  /\ r.pc = "ending" /\ r.mode = "verified" =>
       /\ r.cites # {}
       /\ \E u \in r.n .. Len(l) : \A i \in r.cites : BackedIn(l, u, i)

Conclusion == ConcludesOn(log, run, bar["run"])

\* The evaluation behind a verdict.
ProjectsOn(l, b, cites, digests) ==
  /\ b.pc # "off" => b.todo \subseteq cites
  /\ b.pc = "bound" => digests = {}
  /\ b.pc \in { "goal", "digest" } => BlobBacked(l, b)
  /\ \A r \in digests : r.sha.green /\ \E i \in cites : BoundIn(l, b.upto, i) = { r }

Projection == ProjectsOn(log, bar["verdict"], end.cites, out)

\* As long as nothing changed from outside, what the runner read is still so:
\* run r, at cell b, with the end d; the bar that was met is met again.
StandsOn(r, b, d) ==
  /\ r.pc \in { "judging", "publishing" } =>
       /\ b.pc # "bound" => b.upto = Len(log)
       /\ b.pc \in Holding => b.blob = records[EntryOf(b.todo)]
  /\ r.pc = "judging" =>
       /\ b.pc = "bound" => r.cites \subseteq b.todo
       /\ \A i \in r.cites \ b.todo : StrictBar(i)
       /\ b.pc = "goal" =>
            /\ HashVerified(b.blob) /\ JudgedGreen(b.blob)
            /\ BoundOnceAt(Len(log), EntryOf(b.todo), b.blob)
  /\ r.pc = "ending" /\ r.mode = "verified" => \A i \in r.cites : StrictBar(i)
  /\ d.mode = "verified" => \A i \in d.cites : StrictBar(i)
  /\ r.pc = "publishing" => b.pc # "unmet" /\ b.todo \subseteq d.cites

Standing == StandsOn(run, bar["run"], end)

Undisturbed == ~touched => Standing /\ ~refused

IInv ==
  /\ Types /\ Phases /\ Conclusion /\ VerifiedEndBacked /\ Projection /\ Undisturbed

-----------------------------------------------------------------------------
(* Helpers: the entry an evaluation is at, and what a growing log binds.     *)

\* A nonempty set of iterations has a least element.
LEMMA Least ==
  ASSUME NEW N \in Nat, NEW S \in SUBSET (1 .. N), S # {}
  PROVE  \E i \in S : \A j \in S : i <= j
<1> DEFINE T == { 1 .. i : i \in S }
<1>1. \A i \in S : (1 .. i) \in FiniteSubsetsOf(1 .. N)
  <2> SUFFICES ASSUME NEW i \in S PROVE (1 .. i) \in FiniteSubsetsOf(1 .. N)
    OBVIOUS
  <2>1. IsFiniteSet(1 .. i)
    BY FS_Interval
  <2>2. (1 .. i) \subseteq 1 .. N
    OBVIOUS
  <2> QED BY <2>1, <2>2 DEF FiniteSubsetsOf
<1>2. T \subseteq FiniteSubsetsOf(1 .. N) /\ T # {}
  BY <1>1
<1>3. PICK least \in T :
        \A other \in T : ~(<< other, least >> \in StrictSubsetOrdering(1 .. N))
  <2>1. IsWellFoundedOn(StrictSubsetOrdering(1 .. N), FiniteSubsetsOf(1 .. N))
    BY FS_StrictSubsetOrderingWellFounded
  <2> HIDE DEF T
  <2> QED BY <2>1, <1>2, WFMin
<1>4. PICK i \in S : least = 1 .. i
  OBVIOUS
<1>5. ASSUME NEW j \in S, ~(i <= j) PROVE FALSE
  <2>1. (1 .. j) \in SUBSET (1 .. N) /\ (1 .. i) \in SUBSET (1 .. N)
    BY <1>1 DEF FiniteSubsetsOf
  <2>2. (1 .. j) \subseteq (1 .. i)
    BY <1>5
  <2>3. (1 .. j) # (1 .. i)
    <3>1. i \in 1 .. i /\ i \notin 1 .. j
      BY <1>5
    <3> QED BY <3>1
  <2>4. << 1 .. j, 1 .. i >> \in StrictSubsetOrdering(1 .. N)
    BY <2>1, <2>2, <2>3, Zenon DEF StrictSubsetOrdering
  <2> QED BY <2>4, <1>3, <1>4
<1> QED BY <1>5

\* The entry a reader is at is one it has still to judge.
LEMMA EntryPending ==
  ASSUME NEW p, bar[p].todo \in SUBSET Iterations, bar[p].todo # {}
  PROVE  Entry(p) \in bar[p].todo /\ Entry(p) \in Iterations
<1>1. PICK i \in bar[p].todo : \A j \in bar[p].todo : i <= j
  BY Least, EvidenceAssumption DEF Iterations
<1> QED BY <1>1 DEF Entry

\* An append binds nothing among the events before it.
LEMMA BoundStable ==
  ASSUME NEW l \in Seq(Events), NEW e, NEW n \in 0 .. Len(l), NEW i
  PROVE  BoundIn(Append(l, e), n, i) = BoundIn(l, n, i)
<1>1. \A k \in 1 .. n : Append(l, e)[k] = l[k]
  OBVIOUS
<1> QED BY <1>1 DEF BoundIn

\* A record and a bundle are built of what the run holds.
LEMMA BuiltType ==
  ASSUME NEW i \in Iterations, NEW t \in Tasks, NEW g \in Goals, NEW b \in BOOLEAN
  PROVE  Built(i, t, g, b) \in Records
BY DEF Built, Records, Bundles

-----------------------------------------------------------------------------
(* One step of an evaluation, as a step of its reader's cell: b becomes c      *)
(* while the reader is at entry e.                                           *)

\* A test of the bar fails.
Refuted(b, e) ==
  \/ b.pc = "record" /\ b.todo # {} /\ ~IsRecord(records[e])
  \/ b.pc = "hash" /\ ~HashVerified(b.blob)
  \/ b.pc = "judge" /\ ~(JudgedGreen(b.blob) /\ BoundOnceAt(b.upto, e, b.blob))
  \/ b.pc = "goal" /\ ~GoalAgrees(b.blob)

\* A test is passed.
Advances(b, e, c) ==
  \/ b.pc = "bound" /\ c = [ b EXCEPT !.upto = Len(log), !.pc = "record" ]
  \/ /\ b.pc = "record" /\ b.todo # {} /\ IsRecord(records[e])
     /\ c = [ b EXCEPT !.pc = "hash", !.blob = records[e] ]
  \/ b.pc = "hash" /\ HashVerified(b.blob) /\ c = [ b EXCEPT !.pc = "judge" ]
  \/ /\ b.pc = "judge" /\ JudgedGreen(b.blob) /\ BoundOnceAt(b.upto, e, b.blob)
     /\ c = [ b EXCEPT !.pc = "goal" ]

RunCell(b, e, c) ==
  \/ Advances(b, e, c)
  \/ /\ b.pc = "goal" /\ GoalAgrees(b.blob)
     /\ c = [ b EXCEPT !.pc = "record", !.todo = @ \ { e } ]
  \/ Refuted(b, e) /\ c = [ b EXCEPT !.pc = "unmet" ]
  \/ b.pc = "record" /\ b.todo = {} /\ c = [ b EXCEPT !.pc = "met" ]

VerdictCell(b, e, c) ==
  \/ Advances(b, e, c)
  \/ b.pc = "goal" /\ GoalAgrees(b.blob) /\ c = [ b EXCEPT !.pc = "digest" ]
  \/ Refuted(b, e) /\ c = [ b EXCEPT !.pc = "record", !.todo = @ \ { e } ]
  \/ b.pc = "record" /\ b.todo = {} /\ c = [ b EXCEPT !.pc = "off" ]

LEMMA RunBar ==
  ASSUME bar \in [ Readers -> BarType ], Bar("run")
  PROVE  \E c : /\ bar' = [ bar EXCEPT !["run"] = c ]
                /\ RunCell(bar["run"], Entry("run"), c)
<1> DEFINE b == bar["run"]
           e == Entry("run")
<1>0. "run" \in Readers /\ b \in BarType
  BY DEF Readers
<1>1. ASSUME Refuted(b, e), Unmet("run") PROVE bar' = [ bar EXCEPT !["run"] = [ b EXCEPT !.pc = "unmet" ] ]
  BY <1>1, <1>0, Zenon DEF Unmet
<1>2. CASE ReadBound("run")
  <2>1. bar' = [ bar EXCEPT !["run"] = [ b EXCEPT !.upto = Len(log), !.pc = "record" ] ]
    BY <1>2, <1>0 DEF ReadBound
  <2> QED BY <2>1, <1>2 DEF ReadBound, RunCell, Advances
<1>3. CASE ReadRecord("run")
  <2>1. CASE IsRecord(records[e])
    <3>1. bar' = [ bar EXCEPT !["run"] = [ b EXCEPT !.pc = "hash", !.blob = records[e] ] ]
      BY <1>3, <1>0, <2>1 DEF ReadRecord
    <3> QED BY <3>1, <1>3, <2>1 DEF ReadRecord, RunCell, Advances
  <2>2. CASE ~IsRecord(records[e])
    <3>1. Refuted(b, e) /\ Unmet("run")
      BY <1>3, <2>2 DEF ReadRecord, Refuted
    <3> QED BY <3>1, <1>1 DEF RunCell
  <2> QED BY <2>1, <2>2
<1>4. CASE HashBundle("run")
  <2>1. CASE HashVerified(b.blob)
    <3>1. bar' = [ bar EXCEPT !["run"] = [ b EXCEPT !.pc = "judge" ] ]
      BY <1>4, <1>0, <2>1 DEF HashBundle
    <3> QED BY <3>1, <1>4, <2>1 DEF HashBundle, RunCell, Advances
  <2>2. CASE ~HashVerified(b.blob)
    <3>1. Refuted(b, e) /\ Unmet("run")
      BY <1>4, <2>2 DEF HashBundle, Refuted
    <3> QED BY <3>1, <1>1 DEF RunCell
  <2> QED BY <2>1, <2>2
<1>5. CASE JudgeBundle("run")
  <2>1. CASE JudgedGreen(b.blob) /\ BoundOnceAt(b.upto, e, b.blob)
    <3>1. bar' = [ bar EXCEPT !["run"] = [ b EXCEPT !.pc = "goal" ] ]
      BY <1>5, <1>0, <2>1 DEF JudgeBundle
    <3> QED BY <3>1, <1>5, <2>1 DEF JudgeBundle, RunCell, Advances
  <2>2. CASE ~(JudgedGreen(b.blob) /\ BoundOnceAt(b.upto, e, b.blob))
    <3>1. Refuted(b, e) /\ Unmet("run")
      BY <1>5, <2>2 DEF JudgeBundle, Refuted
    <3> QED BY <3>1, <1>1 DEF RunCell
  <2> QED BY <2>1, <2>2
<1>6. CASE CompareGoal("run")
  <2>1. CASE GoalAgrees(b.blob)
    <3>1. bar' = [ bar EXCEPT !["run"] = [ b EXCEPT !.pc = "record", !.todo = @ \ { e } ] ]
      BY <1>6, <1>0, <2>1 DEF CompareGoal
    <3> QED BY <3>1, <1>6, <2>1 DEF CompareGoal, RunCell
  <2>2. CASE ~GoalAgrees(b.blob)
    <3>1. Refuted(b, e) /\ Unmet("run")
      BY <1>6, <2>2 DEF CompareGoal, Refuted
    <3> QED BY <3>1, <1>1 DEF RunCell
  <2> QED BY <2>1, <2>2
<1>7. CASE FinishBar("run")
  <2>1. bar' = [ bar EXCEPT !["run"] = [ b EXCEPT !.pc = "met" ] ]
    BY <1>7, <1>0 DEF FinishBar
  <2> QED BY <2>1, <1>7 DEF FinishBar, RunCell
<1> QED BY <1>2, <1>3, <1>4, <1>5, <1>6, <1>7 DEF Bar

LEMMA VerdictBar ==
  ASSUME bar \in [ Readers -> BarType ], Bar("verdict")
  PROVE  \E c : /\ bar' = [ bar EXCEPT !["verdict"] = c ]
                /\ VerdictCell(bar["verdict"], Entry("verdict"), c)
<1> DEFINE b == bar["verdict"]
           e == Entry("verdict")
<1>0. "verdict" \in Readers /\ b \in BarType
  BY DEF Readers
<1>1. ASSUME Refuted(b, e), Unmet("verdict")
      PROVE  bar' = [ bar EXCEPT !["verdict"] = [ b EXCEPT !.pc = "record", !.todo = @ \ { e } ] ]
  BY <1>1, <1>0 DEF Unmet
<1>2. CASE ReadBound("verdict")
  <2>1. bar' = [ bar EXCEPT !["verdict"] = [ b EXCEPT !.upto = Len(log), !.pc = "record" ] ]
    BY <1>2, <1>0 DEF ReadBound
  <2> QED BY <2>1, <1>2 DEF ReadBound, VerdictCell, Advances
<1>3. CASE ReadRecord("verdict")
  <2>1. CASE IsRecord(records[e])
    <3>1. bar' = [ bar EXCEPT !["verdict"] = [ b EXCEPT !.pc = "hash", !.blob = records[e] ] ]
      BY <1>3, <1>0, <2>1 DEF ReadRecord
    <3> QED BY <3>1, <1>3, <2>1 DEF ReadRecord, VerdictCell, Advances
  <2>2. CASE ~IsRecord(records[e])
    <3>1. Refuted(b, e) /\ Unmet("verdict")
      BY <1>3, <2>2 DEF ReadRecord, Refuted
    <3> QED BY <3>1, <1>1 DEF VerdictCell
  <2> QED BY <2>1, <2>2
<1>4. CASE HashBundle("verdict")
  <2>1. CASE HashVerified(b.blob)
    <3>1. bar' = [ bar EXCEPT !["verdict"] = [ b EXCEPT !.pc = "judge" ] ]
      BY <1>4, <1>0, <2>1 DEF HashBundle
    <3> QED BY <3>1, <1>4, <2>1 DEF HashBundle, VerdictCell, Advances
  <2>2. CASE ~HashVerified(b.blob)
    <3>1. Refuted(b, e) /\ Unmet("verdict")
      BY <1>4, <2>2 DEF HashBundle, Refuted
    <3> QED BY <3>1, <1>1 DEF VerdictCell
  <2> QED BY <2>1, <2>2
<1>5. CASE JudgeBundle("verdict")
  <2>1. CASE JudgedGreen(b.blob) /\ BoundOnceAt(b.upto, e, b.blob)
    <3>1. bar' = [ bar EXCEPT !["verdict"] = [ b EXCEPT !.pc = "goal" ] ]
      BY <1>5, <1>0, <2>1 DEF JudgeBundle
    <3> QED BY <3>1, <1>5, <2>1 DEF JudgeBundle, VerdictCell, Advances
  <2>2. CASE ~(JudgedGreen(b.blob) /\ BoundOnceAt(b.upto, e, b.blob))
    <3>1. Refuted(b, e) /\ Unmet("verdict")
      BY <1>5, <2>2 DEF JudgeBundle, Refuted
    <3> QED BY <3>1, <1>1 DEF VerdictCell
  <2> QED BY <2>1, <2>2
<1>6. CASE CompareGoal("verdict")
  <2>1. CASE GoalAgrees(b.blob)
    <3>1. bar' = [ bar EXCEPT !["verdict"] = [ b EXCEPT !.pc = "digest" ] ]
      BY <1>6, <1>0, <2>1 DEF CompareGoal
    <3> QED BY <3>1, <1>6, <2>1 DEF CompareGoal, VerdictCell
  <2>2. CASE ~GoalAgrees(b.blob)
    <3>1. Refuted(b, e) /\ Unmet("verdict")
      BY <1>6, <2>2 DEF CompareGoal, Refuted
    <3> QED BY <3>1, <1>1 DEF VerdictCell
  <2> QED BY <2>1, <2>2
<1>7. CASE FinishBar("verdict")
  <2>1. bar' = [ bar EXCEPT !["verdict"] = [ b EXCEPT !.pc = "off" ] ]
    BY <1>7, <1>0 DEF FinishBar
  <2> QED BY <2>1, <1>7 DEF FinishBar, VerdictCell
<1> QED BY <1>2, <1>3, <1>4, <1>5, <1>6, <1>7 DEF Bar

-----------------------------------------------------------------------------
(* Types.                                                                    *)

LEMMA CellStaysOK ==
  ASSUME NEW b \in BarType, CellOK(b), log \in Seq(Events), NEW e, NEW c,
         RunCell(b, e, c) \/ VerdictCell(b, e, c)
  PROVE  c \in BarType /\ CellOK(c)
<1>0. Len(log) \in Nat /\ Len(log) <= Len(log)
  OBVIOUS
<1>1. CASE c = [ b EXCEPT !.upto = Len(log), !.pc = "record" ]
  BY <1>1, <1>0 DEF CellOK, BarType, Holding
<1>2. CASE b.pc = "record" /\ b.todo # {} /\ \E r \in Records : c = [ b EXCEPT !.pc = "hash", !.blob = r ]
  <2>1. PICK r \in Records : c = [ b EXCEPT !.pc = "hash", !.blob = r ]
    BY <1>2
  <2>2. c \in BarType /\ c.upto = b.upto /\ c.todo = b.todo /\ c.blob = r
    BY <2>1 DEF BarType, Holding
  <2> QED BY <2>2, <1>2 DEF CellOK
<1>3. CASE b.pc \in Holding /\ \E s \in { "judge", "goal", "digest" } : c = [ b EXCEPT !.pc = s ]
  BY <1>3 DEF CellOK, BarType, Holding
<1>4. CASE \E s \in { "record", "unmet", "met", "off" } :
             \/ c = [ b EXCEPT !.pc = s ]
             \/ c = [ b EXCEPT !.pc = s, !.todo = @ \ { e } ]
  BY <1>4 DEF CellOK, BarType, Holding
<1>5. CASE Advances(b, e, c)
  BY <1>5, <1>1, <1>2, <1>3 DEF Advances, Holding, IsRecord
<1>6. CASE b.pc = "goal" /\ c = [ b EXCEPT !.pc = "digest" ]
  BY <1>6, <1>3 DEF Holding
<1> QED BY <1>4, <1>5, <1>6 DEF RunCell, VerdictCell

LEMMA FreshCellOK ==
  ASSUME log \in Seq(Events), NEW s \in SUBSET Iterations
  PROVE  LET c == [ NoBar EXCEPT !.pc = "bound", !.todo = s ]
         IN  /\ c \in BarType /\ CellOK(c)
             /\ NoBar \in BarType /\ CellOK(NoBar)
<1> DEFINE c == [ NoBar EXCEPT !.pc = "bound", !.todo = s ]
<1>0. Len(log) \in Nat
  OBVIOUS
<1>1. NoBar \in BarType /\ NoBar.pc = "off" /\ NoBar.upto = 0
  BY DEF NoBar, BarType
<1>2. c \in BarType /\ c.pc = "bound" /\ c.upto = 0
  <2> HIDE DEF NoBar
  <2> QED BY <1>1 DEF BarType
<1>3. \A d : d.upto = 0 /\ d.pc \in { "off", "bound" } => CellOK(d)
  BY <1>0 DEF CellOK, Holding
<1> QED BY <1>1, <1>2, <1>3

\* What a longer log leaves of a cell.
LEMMA CellKept ==
  ASSUME NEW b \in BarType, CellOK(b), log \in Seq(Events),
         log' = log \/ \E e : log' = Append(log, e)
  PROVE  CellOK(b)'
<1>1. Len(log) \in Nat /\ Len(log') \in Nat /\ Len(log) <= Len(log')
  OBVIOUS
<1>2. b.upto \in Nat
  BY DEF BarType
<1> QED BY <1>1, <1>2 DEF CellOK

LEMMA BarKept ==
  ASSUME Types, bar' = bar, log' = log \/ \E e : log' = Append(log, e)
  PROVE  BarTyped'
<1>1. \A p \in Readers : bar[p] \in BarType /\ CellOK(bar[p])
  BY DEF Types, BarTyped
<1>2. ASSUME NEW p \in Readers PROVE CellOK(bar[p])'
  <2>1. PICK b \in BarType : b = bar[p]
    BY <1>1
  <2>2. CellOK(b)'
    BY <1>1, <2>1, CellKept DEF Types
  <2> QED BY <2>1, <2>2
<1> QED BY <1>2 DEF Types, BarTyped

LEMMA BarChanged ==
  ASSUME Types, log' = log, NEW q \in Readers, NEW c \in BarType, CellOK(c),
         bar' = [ bar EXCEPT ![q] = c ]
  PROVE  BarTyped'
<1>1. bar' \in [ Readers -> BarType ]
  BY DEF Types, BarTyped
<1>2. ASSUME NEW p \in Readers PROVE CellOK(bar[p])'
  <2>1. PICK b : b = bar'[p]
    OBVIOUS
  <2>2. CellOK(b)
    <3>1. CASE p = q
      <4>1. b = c
        BY <3>1, <2>1 DEF Types, BarTyped
      <4> QED BY <4>1
    <3>2. CASE p # q
      <4>1. b = bar[p]
        BY <3>2, <2>1 DEF Types, BarTyped
      <4> QED BY <4>1 DEF Types, BarTyped
    <3> QED BY <3>1, <3>2
  <2>3. CellOK(b)'
    BY <2>2 DEF CellOK
  <2> QED BY <2>1, <2>3
<1> QED BY <1>1, <1>2 DEF BarTyped

LEMMA TypesInit ==
  ASSUME Init
  PROVE  Types
<1>1. log \in Seq(Events) /\ Len(log) = 0
  BY DEF Init
<1>2. EndTyped
  <2>1. NoEnd \in [ mode : Modes, cites : SUBSET Iterations, at : Nat ] /\ NoEnd.at = 0
    BY DEF NoEnd, Modes
  <2>2. end = NoEnd /\ published = FALSE /\ touched = FALSE /\ refused = FALSE
    BY DEF Init
  <2>3. NoEnd.at <= Len(log)
    BY <2>1, <1>1
  <2>4. published \in BOOLEAN /\ touched \in BOOLEAN /\ refused \in BOOLEAN
    BY <2>2
  <2> HIDE DEF NoEnd
  <2> QED BY <2>1, <2>2, <2>3, <2>4, Zenon DEF EndTyped
<1>3. FilesTyped
  BY DEF Init, FilesTyped, Files
<1>4. RunTyped
  BY <1>1 DEF Init, RunTyped, RunType, Idle, Dispatching, Modes
<1>5. BarTyped
  BY <1>1, FreshCellOK, EvidenceAssumption DEF Init, BarTyped
<1> QED BY <1>1, <1>2, <1>3, <1>4, <1>5 DEF Types

\* The iteration after the last logged one.
LEMMA NextIterationType ==
  ASSUME log \in Seq(Events)
  PROVE  NextIteration \in Nat \ { 0 }
<1>1. CASE log = << >>
  BY <1>1 DEF NextIteration
<1>2. CASE log # << >>
  <2>1. log[Len(log)] \in Events
    BY <1>2
  <2>2. log[Len(log)].iter \in Nat
    BY <2>1, EvidenceAssumption DEF Events, Iterations
  <2> QED BY <2>2, <1>2 DEF NextIteration
<1> QED BY <1>1, <1>2

LEMMA IdleType == Idle \in RunType /\ Idle.n = 0 /\ Idle.pc = "idle"
BY DEF Idle, RunType, Modes

LEMMA TypesDispatch ==
  ASSUME Types, \/ \E t \in Tasks : StartDispatch(t)
                \/ \E passed \in BOOLEAN : CommitDispatch(passed)
                \/ PlaceRecord \/ PlaceBundle
  PROVE  Types'
<1>0. Len(log) \in Nat /\ run \in RunType /\ run.n \in Nat
  BY DEF Types, RunTyped, RunType
<1>1. ASSUME NEW t \in Tasks, StartDispatch(t) PROVE Types'
  <2>1. PICK n : n = run'
    OBVIOUS
  <2>2. NextIteration \in Iterations
    <3>1. NextIteration \in Nat \ { 0 }
      BY NextIterationType DEF Types
    <3>2. NextIteration <= MaxIterations
      BY <1>1 DEF StartDispatch
    <3> QED BY <3>1, <3>2, EvidenceAssumption DEF Iterations
  <2>3. /\ n \in RunType /\ n.n = Len(log)
        /\ n.task \in Tasks /\ n.goal \in Goals /\ n.iter \in Iterations
    <3>1. NextIteration \in Nat /\ goal[t] \in Goals
      BY <1>1, NextIterationType DEF Types, StartDispatch
    <3>2. n = [ Idle EXCEPT !.pc = "verifying", !.n = Len(log), !.task = t,
                            !.goal = goal[t], !.iter = NextIteration ]
      BY <1>1, <2>1 DEF StartDispatch
    <3> HIDE DEF Idle
    <3> QED BY <1>0, <2>2, <3>1, <3>2, IdleType DEF RunType, Dispatching
  <2>4. RunTyped'
    <3>1. run' = n /\ log' = log
      BY <1>1, <2>1 DEF StartDispatch
    <3>2. n.n <= Len(log)
      BY <1>0, <2>3
    <3> QED BY <2>3, <3>1, <3>2 DEF RunTyped
  <2>5. BarTyped'
    BY <1>1, BarKept DEF StartDispatch
  <2> QED BY <1>1, <2>4, <2>5 DEF Types, EndTyped, FilesTyped, StartDispatch, disk, history
<1>2. ASSUME NEW passed \in BOOLEAN, CommitDispatch(passed) PROVE Types'
  <2>1. CASE run.n = Len(log)
    <3>1. run.pc = "verifying" /\ run.task \in Tasks /\ run.goal \in Goals /\ run.iter \in Iterations
      BY <1>2 DEF CommitDispatch, Types, RunTyped, Dispatching
    <3>2. PICK e : e = [ iter |-> run.iter, task |-> run.task, passed |-> passed,
                         record |-> Built(run.iter, run.task, run.goal, passed) ]
      OBVIOUS
    <3>3. e \in Events
      BY <3>1, <3>2, BuiltType DEF Events
    <3>4. log' = Append(log, e)
      BY <1>2, <2>1, <3>2 DEF CommitDispatch
    <3>5. log' \in Seq(Events) /\ Len(log') = Len(log) + 1
      BY <3>3, <3>4 DEF Types
    <3>6. RunTyped'
      <4>1. PICK n : n = [ run EXCEPT !.pc = "record", !.passed = passed ]
        OBVIOUS
      <4>2. /\ n \in RunType /\ n.n = run.n /\ n.task = run.task
            /\ n.goal = run.goal /\ n.iter = run.iter
        BY <4>1, <1>0 DEF RunType, Dispatching
      <4>3. run' = n
        BY <4>1, <1>2, <2>1 DEF CommitDispatch
      <4> QED BY <4>2, <4>3, <3>1, <3>5, <2>1, <1>0 DEF RunTyped
    <3>7. EndTyped'
      <4>1. UNCHANGED << end, published, touched, refused >>
        BY <1>2 DEF CommitDispatch, history
      <4>2. end.at \in Nat /\ end.at <= Len(log)
        BY DEF Types, EndTyped
      <4>3. end.at <= Len(log')
        BY <4>2, <3>5, <1>0
      <4> QED BY <4>1, <4>3 DEF Types, EndTyped
    <3>8. BarTyped'
      BY <1>2, <3>4, BarKept DEF CommitDispatch
    <3> QED BY <1>2, <3>5, <3>6, <3>7, <3>8 DEF Types, FilesTyped, CommitDispatch, disk
  <2>2. CASE run.n # Len(log)
    <3>1. RunTyped'
      BY <1>2, <2>2, <1>0, IdleType DEF RunTyped, CommitDispatch, Dispatching
    <3>2. BarTyped'
      BY <1>2, <2>2, BarKept DEF CommitDispatch
    <3> QED BY <1>2, <2>2, <3>1, <3>2
         DEF Types, EndTyped, FilesTyped, CommitDispatch, disk, history
  <2> QED BY <2>1, <2>2
<1>3. CASE PlaceRecord
  <2>1. run.pc = "record" /\ run.task \in Tasks /\ run.goal \in Goals /\ run.iter \in Iterations
    BY <1>3 DEF PlaceRecord, Types, RunTyped, Dispatching
  <2>2. Built(run.iter, run.task, run.goal, run.passed) \in Records
    BY <2>1, <1>0, BuiltType DEF RunType
  <2>3. records' \in [ Iterations -> Records \cup Files ]
    BY <1>3, <2>1, <2>2 DEF PlaceRecord, Types, FilesTyped
  <2>4. RunTyped'
    <3>1. PICK n : n = [ run EXCEPT !.pc = "bundle" ]
      OBVIOUS
    <3>2. /\ n \in RunType /\ n.n = run.n /\ n.task = run.task
          /\ n.goal = run.goal /\ n.iter = run.iter
      BY <3>1, <1>0 DEF RunType, Dispatching
    <3>3. run' = n /\ log' = log
      BY <1>3, <3>1 DEF PlaceRecord, RunGoto
    <3> QED BY <3>2, <3>3, <2>1 DEF Types, RunTyped
  <2>5. BarTyped'
    BY <1>3, BarKept DEF PlaceRecord
  <2> QED BY <1>3, <2>3, <2>4, <2>5 DEF Types, EndTyped, FilesTyped, PlaceRecord, history
<1>4. CASE PlaceBundle
  <2>1. run.iter \in Iterations /\ run.passed \in BOOLEAN
    BY <1>4, <1>0 DEF PlaceBundle, Types, RunTyped, RunType, Dispatching
  <2>2. bundles' \in [ Iterations -> Bundles \cup Files ]
    BY <1>4, <2>1 DEF PlaceBundle, Types, FilesTyped, Bundles
  <2>3. RunTyped'
    BY <1>4, <1>0, IdleType DEF RunTyped, PlaceBundle, Dispatching
  <2>4. BarTyped'
    BY <1>4, BarKept DEF PlaceBundle
  <2> QED BY <1>4, <2>2, <2>3, <2>4 DEF Types, EndTyped, FilesTyped, PlaceBundle, history
<1> QED BY <1>1, <1>2, <1>3, <1>4

\* The entries the runner cites are iterations.
LEMMA CitedType ==
  ASSUME log \in Seq(Events)
  PROVE  UNION { RecordsOf(t) : t \in LiveTasks } \in SUBSET Iterations
<1>0. \A k \in DOMAIN log : log[k] \in Events
  OBVIOUS
<1>1. \A k \in DOMAIN log : log[k].iter \in Iterations
  BY <1>0 DEF Events
<1>2. \A t : RecordsOf(t) \in SUBSET Iterations
  BY <1>1 DEF RecordsOf
<1> QED BY <1>2

LEMMA TypesEnd ==
  ASSUME Types, StartEnd \/ Judged \/ CommitEnd \/ StartPublish \/ Publish \/ Crash
  PROVE  Types'
<1>0. /\ Len(log) \in Nat /\ Len(log) <= Len(log) /\ 0 <= Len(log)
      /\ run \in RunType /\ run.n \in Nat /\ run.n <= Len(log)
  BY DEF Types, RunTyped, RunType
<1>a. "run" \in Readers
  BY DEF Readers
<1>b. ASSUME log' = log, run' = Idle PROVE RunTyped'
  BY <1>0, <1>b, IdleType DEF RunTyped, Dispatching
<1>c. ASSUME log' = log, bar' = [ bar EXCEPT !["run"] = NoBar ] PROVE BarTyped'
  BY <1>c, <1>a, FreshCellOK, BarChanged DEF Types
<1>d. ASSUME log' = log, NEW s \in SUBSET Iterations, StartBar("run", s) PROVE BarTyped'
  BY <1>d, <1>a, FreshCellOK, BarChanged DEF Types, StartBar
<1>e. ASSUME log' = log, end' = end, UNCHANGED disk, UNCHANGED out,
             published' \in BOOLEAN, touched' \in BOOLEAN, refused' \in BOOLEAN,
             RunTyped', BarTyped'
      PROVE  Types'
  BY <1>e DEF Types, EndTyped, FilesTyped, disk
<1>1. CASE StartEnd
  <2> DEFINE cites == UNION { RecordsOf(t) : t \in LiveTasks }
             missing == \E t \in LiveTasks : RecordsOf(t) = {}
  <2>1. cites \in SUBSET Iterations
    BY CitedType DEF Types
  <2>2. RunTyped'
    <3>1. PICK n : n = [ Idle EXCEPT !.pc = IF missing THEN "ending" ELSE "judging",
                                     !.n = Len(log), !.cites = cites, !.mode = "weak" ]
      OBVIOUS
    <3>2. n \in RunType /\ n.n = Len(log) /\ n.pc \in Concluding
      <4> HIDE DEF cites, missing, Idle
      <4> QED BY <3>1, <2>1, <1>0, IdleType DEF RunType, Concluding, Modes
    <3>3. run' = n /\ log' = log
      BY <1>1, <3>1 DEF StartEnd
    <3>4. n.pc \notin Dispatching
      BY <3>2 DEF Concluding, Dispatching
    <3> QED BY <3>2, <3>3, <3>4, <1>0 DEF RunTyped
  <2>3. BarTyped'
    <3>1. CASE missing
      BY <3>1, <1>1, BarKept DEF StartEnd
    <3>2. CASE ~missing
      BY <3>2, <1>1, <2>1, <1>d DEF StartEnd
    <3> QED BY <3>1, <3>2
  <2> QED BY <1>1, <2>2, <2>3, <1>e DEF StartEnd, Types, EndTyped
<1>2. CASE Judged
  <2>1. RunTyped'
    <3>1. PICK n : n = [ run EXCEPT !.pc = "ending",
                            !.mode = IF bar["run"].pc = "met" THEN "verified" ELSE "weak" ]
      OBVIOUS
    <3>2. n \in RunType /\ n.n = run.n /\ n.pc = "ending"
      BY <3>1, <1>0 DEF RunType, Concluding, Modes
    <3>3. run' = n /\ log' = log
      BY <1>2, <3>1 DEF Judged
    <3>4. "ending" \notin Dispatching
      BY DEF Dispatching
    <3> QED BY <3>2, <3>3, <3>4, <1>0 DEF RunTyped
  <2>2. BarTyped'
    BY <1>2, <1>c DEF Judged
  <2> QED BY <1>2, <2>1, <2>2, <1>e DEF Judged, history, Types, EndTyped
<1>3. CASE CommitEnd
  <2>1. RunTyped' /\ BarTyped'
    BY <1>3, <1>b, BarKept DEF CommitEnd
  <2>2. run.mode \in Modes /\ run.cites \in SUBSET Iterations
    BY <1>0 DEF RunType
  <2>3. /\ end' \in [ mode : Modes, cites : SUBSET Iterations, at : Nat ]
        /\ end'.at <= Len(log)
    <3>1. CASE run.n = Len(log)
      <4>1. PICK n : n = [ mode |-> run.mode, at |-> Len(log),
                           cites |-> IF run.mode = "verified" THEN run.cites ELSE {} ]
        OBVIOUS
      <4>2. n \in [ mode : Modes, cites : SUBSET Iterations, at : Nat ] /\ n.at <= Len(log)
        BY <4>1, <2>2, <1>0
      <4>3. end' = n
        BY <4>1, <3>1, <1>3 DEF CommitEnd
      <4> QED BY <4>2, <4>3
    <3>2. CASE run.n # Len(log)
      BY <3>2, <1>3 DEF CommitEnd, Types, EndTyped
    <3> QED BY <3>1, <3>2
  <2> QED BY <1>3, <2>1, <2>3 DEF Types, EndTyped, FilesTyped, CommitEnd, disk, history
<1>4. CASE StartPublish
  <2>1. CASE end.mode = "weak"
    <3>1. RunTyped' /\ BarTyped'
      BY <1>4, <2>1, BarKept DEF StartPublish, Types, RunTyped
    <3> QED BY <1>4, <2>1, <3>1, <1>e DEF StartPublish, history, Types, EndTyped
  <2>2. CASE end.mode # "weak"
    <3>1. RunTyped'
      <4>1. PICK n : n = [ run EXCEPT !.pc = "publishing" ]
        OBVIOUS
      <4>2. n \in RunType /\ n.n = run.n /\ n.pc = "publishing"
        BY <4>1, <1>0 DEF RunType
      <4>3. run' = n /\ log' = log
        BY <1>4, <2>2, <4>1 DEF StartPublish, RunGoto
      <4>4. "publishing" \notin Dispatching
        BY DEF Dispatching
      <4> QED BY <4>2, <4>3, <4>4, <1>0 DEF RunTyped
    <3>2. BarTyped'
      <4>1. end.cites \in SUBSET Iterations
        BY DEF Types, EndTyped
      <4> QED BY <4>1, <1>4, <2>2, <1>d DEF StartPublish
    <3> QED BY <1>4, <2>2, <3>1, <3>2, <1>e DEF StartPublish, history, Types, EndTyped
  <2> QED BY <2>1, <2>2
<1>5. CASE Publish
  <2>1. RunTyped' /\ BarTyped'
    BY <1>5, <1>b, <1>c DEF Publish
  <2>2. published' \in BOOLEAN /\ refused' \in BOOLEAN /\ touched' \in BOOLEAN
    BY <1>5, Zenon DEF Publish, Types, EndTyped
  <2> QED BY <1>5, <2>1, <2>2, <1>e DEF Publish
<1>6. CASE Crash
  <2>1. RunTyped' /\ BarTyped'
    BY <1>6, <1>b, <1>c DEF Crash
  <2> QED BY <1>6, <2>1, <1>e DEF Crash, Types, EndTyped
<1> QED BY <1>1, <1>2, <1>3, <1>4, <1>5, <1>6

LEMMA TypesRest ==
  ASSUME Types, (\E p \in Readers : Bar(p)) \/ StartVerdict \/ ProjectDigest \/ Outside
  PROVE  Types'
<1>0. Len(log) \in Nat /\ run \in RunType /\ run.n \in Nat /\ run.n <= Len(log)
      /\ end.at \in Nat /\ end.at <= Len(log)
  BY DEF Types, RunTyped, RunType, EndTyped
<1>a. "run" \in Readers /\ "verdict" \in Readers /\ bar \in [ Readers -> BarType ]
  BY DEF Readers, Types, BarTyped
<1>1. ASSUME NEW p \in Readers, Bar(p) PROVE Types'
  <2>1. /\ UNCHANGED << log, end, published, records, bundles, goal, run,
                        touched, refused, out >>
    BY <1>1 DEF Bar, ReadBound, ReadRecord, HashBundle, JudgeBundle, CompareGoal, FinishBar,
                BarUnchanged, disk, history
  <2>2. BarTyped'
    <3>1. PICK c : /\ bar' = [ bar EXCEPT ![p] = c ]
                   /\ \/ RunCell(bar[p], Entry(p), c)
                      \/ VerdictCell(bar[p], Entry(p), c)
      BY <1>1, <1>a, RunBar, VerdictBar DEF Readers
    <3>2. bar[p] \in BarType /\ CellOK(bar[p])
      BY DEF Types, BarTyped
    <3>3. c \in BarType /\ CellOK(c)
      BY <3>1, <3>2, CellStaysOK DEF Types
    <3> QED BY <2>1, <3>1, <3>3, BarChanged
  <2> QED BY <2>1, <2>2 DEF Types, EndTyped, FilesTyped, RunTyped
<1>2. CASE StartVerdict
  <2>1. end.cites \in SUBSET Iterations
    BY DEF Types, EndTyped
  <2>2. BarTyped'
    BY <1>2, <2>1, <1>a, FreshCellOK, BarChanged DEF Types, StartBar, StartVerdict
  <2> QED BY <1>2, <2>2 DEF StartVerdict, disk, history, Types, EndTyped, FilesTyped, RunTyped
<1>3. CASE ProjectDigest
  <2> DEFINE e == Entry("verdict")
             b == bar["verdict"]
             c == [ b EXCEPT !.pc = "record", !.todo = @ \ { e } ]
  <2>1. /\ UNCHANGED << log, end, published, records, bundles, goal, run,
                        touched, refused >>
    BY <1>3 DEF ProjectDigest, BarUnchanged, disk, history
  <2>2. BarTyped'
    <3>1. b \in BarType /\ CellOK(b)
      BY <1>a DEF Types, BarTyped
    <3>2. c \in BarType /\ CellOK(c)
      BY <3>1 DEF CellOK, BarType, Holding
    <3>3. bar' = [ bar EXCEPT !["verdict"] = c ]
      BY <1>3, <1>a DEF ProjectDigest
    <3> QED BY <2>1, <3>2, <3>3, <1>a, BarChanged
  <2>3. out' \subseteq Records
    <3>1. CASE BoundOnceAt(b.upto, e, records[e])
      <4>1. records[e] \in Bound(b.upto, e)
        BY <3>1 DEF BoundOnceAt
      <4>2. b.upto \in Nat /\ b.upto <= Len(log)
        BY <1>a DEF Types, BarTyped, CellOK, BarType
      <4>3. \A k \in 1 .. b.upto : log[k] \in Events
        BY <4>2 DEF Types
      <4>4. records[e] \in Records
        BY <4>1, <4>3 DEF Bound, Events
      <4> QED BY <4>4, <3>1, <1>3 DEF ProjectDigest, Types, FilesTyped
    <3>2. CASE ~BoundOnceAt(b.upto, e, records[e])
      BY <3>2, <1>3 DEF ProjectDigest, Types, FilesTyped
    <3> QED BY <3>1, <3>2
  <2> QED BY <2>1, <2>2, <2>3 DEF Types, EndTyped, FilesTyped, RunTyped
<1>4. CASE Outside
  <2>1. UNCHANGED << end, published, run, bar, out, refused >> /\ touched' = TRUE
    BY <1>4 DEF Outside, RewriteRecord, RewriteBundle, Rebind, MoveGoal, Change
  <2>2. \/ /\ log' = log
        \/ \E e \in Events : log' = Append(log, e)
    <3>1. ASSUME NEW i \in Iterations, Rebind(i) PROVE \E e \in Events : log' = Append(log, e)
      <4>1. records[i] \in Records /\ records[i].task \in Tasks
        BY <3>1 DEF Rebind, IsRecord, Records
      <4>2. PICK e : e = [ iter |-> i, task |-> records[i].task, passed |-> TRUE,
                           record |-> records[i] ]
        OBVIOUS
      <4>3. e \in Events
        BY <4>1, <4>2 DEF Events
      <4> QED BY <4>2, <4>3, <3>1 DEF Rebind
    <3> QED BY <3>1, <1>4 DEF Outside, RewriteRecord, RewriteBundle, MoveGoal
  <2>3. log' \in Seq(Events) /\ Len(log') \in Nat /\ Len(log) <= Len(log')
    BY <2>2 DEF Types
  <2>4. FilesTyped'
    <3>1. ASSUME NEW i \in Iterations, NEW bytes \in Records \cup { Garbage, Absent },
                 RewriteRecord(i, bytes)
          PROVE  FilesTyped'
      BY <3>1, <2>1 DEF RewriteRecord, Types, FilesTyped, Files
    <3>2. ASSUME NEW i \in Iterations, NEW bytes \in Bundles \cup { Garbage, Absent },
                 RewriteBundle(i, bytes)
          PROVE  FilesTyped'
      BY <3>2, <2>1 DEF RewriteBundle, Types, FilesTyped, Files
    <3>3. ASSUME NEW i \in Iterations, Rebind(i) PROVE FilesTyped'
      BY <3>3, <2>1 DEF Rebind, Types, FilesTyped, disk
    <3>4. ASSUME NEW t \in Tasks, NEW g \in Goals \cup { Removed, Unhashable }, MoveGoal(t, g)
          PROVE  FilesTyped'
      BY <3>4, <2>1 DEF MoveGoal, Types, FilesTyped
    <3> QED BY <3>1, <3>2, <3>3, <3>4, <1>4 DEF Outside
  <2>5. RunTyped' /\ EndTyped'
    <3>1. run.n <= Len(log') /\ end.at <= Len(log')
      BY <1>0, <2>3
    <3> QED BY <3>1, <2>1 DEF Types, RunTyped, EndTyped
  <2>6. BarTyped'
    BY <2>1, <2>2, BarKept
  <2> QED BY <2>3, <2>4, <2>5, <2>6 DEF Types
<1> QED BY <1>1, <1>2, <1>3, <1>4

LEMMA TypesNext ==
  ASSUME Types, [Next]_vars
  PROVE  Types'
<1>1. CASE Next
  BY <1>1, TypesDispatch, TypesEnd, TypesRest DEF Next, Run
<1>2. CASE UNCHANGED vars
  BY <1>2 DEF vars, disk, history, Types, EndTyped, FilesTyped, RunTyped, BarTyped, CellOK
<1> QED BY <1>1, <1>2

-----------------------------------------------------------------------------
(* Phases.                                                                   *)

LEMMA RunCellPhase ==
  ASSUME NEW b \in BarType, NEW e, NEW c, RunCell(b, e, c)
  PROVE  /\ b.pc \notin { "off", "met", "unmet" }
         /\ c.pc \notin { "off", "digest", "bound" }
         /\ c.pc = "met" => c.todo = {}
         /\ c.todo \subseteq b.todo
BY DEF RunCell, Advances, Refuted, BarType, Holding

LEMMA VerdictCellPhase ==
  ASSUME NEW b \in BarType, NEW e, NEW c, VerdictCell(b, e, c)
  PROVE  /\ b.pc # "off" /\ c.pc # "bound"
         /\ c.todo \subseteq b.todo
BY DEF VerdictCell, Advances, Refuted, BarType, Holding

LEMMA CellTypes ==
  ASSUME Types
  PROVE  /\ bar \in [ Readers -> BarType ] /\ "run" \in Readers /\ "verdict" \in Readers
         /\ bar["run"] \in BarType /\ bar["verdict"] \in BarType
         /\ run \in RunType /\ Len(log) \in Nat
         /\ end \in [ mode : Modes, cites : SUBSET Iterations, at : Nat ]
BY DEF Types, BarTyped, Readers, RunTyped, EndTyped

LEMMA PhasesInit ==
  ASSUME Init
  PROVE  Phases
BY DEF Init, Phases, NoEnd, NoBar, Idle, Readers, Dispatching, Concluding

\* What the phases ask of a step that leaves the end and the verdict alone.
LEMMA PhasesByRun ==
  ASSUME Types, Phases, UNCHANGED << end, published, out, refused >>,
         bar'["verdict"] = bar["verdict"], NEW n, run' = n, NEW c, bar'["run"] = c,
         n.pc \in Dispatching \cup Concluding => end = NoEnd,
         n.pc = "publishing" => end.mode = "verified" /\ ~published,
         c.pc = "off" <=> n.pc \notin { "judging", "publishing" },
         c.pc # "digest",
         c.pc = "met" => c.todo = {},
         n.pc = "judging" => n.mode = "weak" /\ n.cites # {},
         n.pc = "ending" => n.mode # "none"
  PROVE  Phases'
BY DEF Phases

LEMMA PhasesDispatch ==
  ASSUME Types, Phases, \/ \E t \in Tasks : StartDispatch(t)
                        \/ \E passed \in BOOLEAN : CommitDispatch(passed)
                        \/ PlaceRecord \/ PlaceBundle
  PROVE  Phases'
<1>0. /\ UNCHANGED << end, published, out, refused, bar >>
      /\ end = NoEnd
      /\ bar["run"].pc = "off"
      /\ run'.pc \in Dispatching \cup { "idle" }
  <2>1. ASSUME NEW t \in Tasks, StartDispatch(t)
        PROVE  end = NoEnd /\ run.pc = "idle" /\ run'.pc = "verifying"
    BY <2>1 DEF StartDispatch, Idle
  <2>2. ASSUME NEW passed \in BOOLEAN, CommitDispatch(passed)
        PROVE  run.pc = "verifying" /\ run'.pc \in { "record", "idle" }
    <3>1. run \in RunType
      BY CellTypes
    <3>2. run.pc = "verifying"
          /\ (run' = Idle \/ run' = [ run EXCEPT !.pc = "record", !.passed = passed ])
      BY <2>2 DEF CommitDispatch
    <3> QED BY <3>1, <3>2, IdleType DEF RunType
  <2>3. CASE PlaceRecord
    BY <2>3, CellTypes DEF PlaceRecord, RunGoto, RunType, Phases, Dispatching, disk, history
  <2>4. CASE PlaceBundle
    BY <2>4, IdleType DEF PlaceBundle, Phases, Dispatching, disk, history
  <2>5. UNCHANGED << end, published, out, refused, bar >>
    BY DEF StartDispatch, CommitDispatch, PlaceRecord, PlaceBundle, history
  <2>6. run.pc \in Dispatching \/ (run.pc = "idle" /\ end = NoEnd)
    BY <2>1, <2>2 DEF PlaceRecord, PlaceBundle, Dispatching
  <2>7. run'.pc \in Dispatching \cup { "idle" }
    BY <2>1, <2>2, <2>3, <2>4, CellTypes, IdleType
       DEF PlaceRecord, PlaceBundle, RunGoto, RunType, Dispatching
  <2> QED BY <2>5, <2>6, <2>7 DEF Phases, Dispatching
<1>1. PICK n : n = run'
  OBVIOUS
<1>2. n.pc \notin { "judging", "ending", "publishing" }
  BY <1>0, <1>1 DEF Dispatching
<1> QED BY <1>0, <1>1, <1>2, PhasesByRun DEF Phases

\* The bar after a step that ends the runner's evaluation.
LEMMA BarCleared ==
  ASSUME Types, bar' = [ bar EXCEPT !["run"] = NoBar ]
  PROVE  bar'["run"] = NoBar /\ NoBar.pc = "off" /\ bar'["verdict"] = bar["verdict"]
BY CellTypes DEF NoBar

\* The bar after a step that starts it.
LEMMA BarStarted ==
  ASSUME Types, NEW s \in SUBSET Iterations, StartBar("run", s)
  PROVE  /\ bar'["run"] \in BarType
         /\ bar'["run"].pc = "bound" /\ bar'["run"].todo = s
         /\ bar'["verdict"] = bar["verdict"]
<1>1. PICK c : c = [ NoBar EXCEPT !.pc = "bound", !.todo = s ]
  OBVIOUS
<1>2. NoBar \in BarType
  BY FreshCellOK DEF Types
<1>3. c \in BarType /\ c.pc = "bound" /\ c.todo = s
  <2> HIDE DEF NoBar
  <2> QED BY <1>1, <1>2 DEF BarType
<1> QED BY <1>1, <1>3, CellTypes DEF StartBar

LEMMA PhasesEnd ==
  ASSUME Types, Phases, StartEnd \/ Judged \/ CommitEnd \/ StartPublish \/ Publish \/ Crash
  PROVE  Phases'
<1>0. Idle.pc = "idle"
  BY DEF Idle
<1>1. CASE StartEnd
  <2> DEFINE cites == UNION { RecordsOf(t) : t \in LiveTasks }
             missing == \E t \in LiveTasks : RecordsOf(t) = {}
  <2>0. PICK n : n = [ Idle EXCEPT !.pc = IF missing THEN "ending" ELSE "judging",
                                   !.n = Len(log), !.cites = cites, !.mode = "weak" ]
    OBVIOUS
  <2>1. /\ n.pc = IF missing THEN "ending" ELSE "judging"
        /\ n.cites = cites /\ n.mode = "weak"
    <3>1. Idle \in RunType
      BY IdleType
    <3> HIDE DEF cites, missing, Idle
    <3> QED BY <2>0, <3>1 DEF RunType
  <2>2. run' = n /\ end = NoEnd /\ UNCHANGED << end, published, out, refused >>
    BY <1>1, <2>0 DEF StartEnd
  <2>3. ~missing => cites # {}
    BY <1>1 DEF StartEnd
  <2>4. bar["run"].pc = "off"
    BY <1>1 DEF StartEnd, Phases
  <2>5. CASE missing
    BY <2>1, <2>2, <2>4, <2>5, <1>1, PhasesByRun DEF StartEnd, Phases
  <2>6. CASE ~missing
    <3>1. StartBar("run", cites)
      BY <2>6, <1>1 DEF StartEnd
    <3>2. cites \in SUBSET Iterations
      BY CitedType DEF Types
    <3> QED BY <2>1, <2>2, <2>3, <2>6, <3>1, <3>2, BarStarted, PhasesByRun
  <2> QED BY <2>5, <2>6
<1>2. CASE Judged
  <2>1. PICK n : n = [ run EXCEPT !.pc = "ending",
                          !.mode = IF bar["run"].pc = "met" THEN "verified" ELSE "weak" ]
    OBVIOUS
  <2>2. n.pc = "ending" /\ n.mode \in { "verified", "weak" }
    BY <2>1, CellTypes DEF RunType
  <2>3. run' = n /\ end = NoEnd /\ UNCHANGED << end, published, out, refused >>
    BY <1>2, <2>1 DEF Judged, history, Phases, Concluding
  <2> QED BY <1>2, <2>2, <2>3, BarCleared, PhasesByRun DEF Judged, NoBar
<1>3. CASE CommitEnd
  <2>1. UNCHANGED << published, out, refused, bar >> /\ run' = Idle
    BY <1>3 DEF CommitEnd, history
  <2>2. end = NoEnd /\ bar["run"].pc = "off" /\ run.mode # "none" /\ ~published /\ ~refused
    BY <1>3 DEF CommitEnd, Phases, Concluding
  <2>3. end' = end \/ end'.mode = run.mode
    BY <1>3 DEF CommitEnd
  <2>4. end'.mode = "none" => end' = NoEnd
    BY <2>2, <2>3
  <2> QED BY <2>1, <2>2, <2>4, <1>0 DEF Phases, Dispatching, Concluding
<1>4. CASE StartPublish
  <2>1. /\ end # NoEnd /\ ~published /\ run.pc = "idle" /\ end.mode # "none"
        /\ UNCHANGED << end, out, refused >>
    BY <1>4 DEF StartPublish, history, Phases
  <2>2. CASE end.mode = "weak"
    BY <1>4, <2>1, <2>2 DEF StartPublish, Phases, Dispatching, Concluding
  <2>3. CASE end.mode # "weak"
    <3>1. end.mode = "verified" /\ end.cites \in SUBSET Iterations
      BY <2>1, <2>3 DEF Types, EndTyped, Modes
    <3>2. PICK n : n = [ run EXCEPT !.pc = "publishing" ]
      OBVIOUS
    <3>3. run' = n /\ n.pc = "publishing" /\ StartBar("run", end.cites) /\ UNCHANGED published
      BY <3>2, <1>4, <2>3, CellTypes DEF StartPublish, RunGoto, RunType
    <3> QED BY <2>1, <3>1, <3>3, BarStarted, PhasesByRun DEF Dispatching, Concluding
  <2> QED BY <2>2, <2>3
<1>5. CASE Publish
  <2>1. end.mode = "verified" /\ ~published /\ run' = Idle /\ UNCHANGED << end, out >>
    BY <1>5 DEF Publish, Phases
  <2>2. end # NoEnd
    BY <2>1 DEF NoEnd
  <2> QED BY <1>5, <1>0, <2>1, <2>2, BarCleared DEF Publish, Phases, Dispatching, Concluding, NoBar
<1>6. CASE Crash
  <2>1. run' = Idle /\ UNCHANGED << end, published, out, refused >>
    BY <1>6 DEF Crash
  <2>2. Idle.pc \notin Dispatching \cup Concluding \cup { "publishing" }
    BY <1>0 DEF Dispatching, Concluding
  <2>3. bar'["run"] = NoBar /\ NoBar.pc = "off" /\ bar'["verdict"] = bar["verdict"]
    BY <1>6, BarCleared DEF Crash
  <2> QED BY <1>0, <2>1, <2>2, <2>3, PhasesByRun DEF Concluding
<1> QED BY <1>1, <1>2, <1>3, <1>4, <1>5, <1>6

LEMMA PhasesRest ==
  ASSUME Types, Phases,
         (\E p \in Readers : Bar(p)) \/ StartVerdict \/ ProjectDigest \/ Outside
  PROVE  Phases'
<1>1. CASE Bar("run")
  <2>1. UNCHANGED << end, published, out, refused, run >>
    BY <1>1 DEF Bar, ReadBound, ReadRecord, HashBundle, JudgeBundle, CompareGoal, FinishBar,
                BarUnchanged, history
  <2>2. PICK c : /\ bar' = [ bar EXCEPT !["run"] = c ]
                 /\ RunCell(bar["run"], Entry("run"), c)
    BY <1>1, CellTypes, RunBar
  <2>3. bar'["run"] = c /\ bar'["verdict"] = bar["verdict"]
    BY <2>2, CellTypes
  <2>4. /\ bar["run"].pc \notin { "off", "met", "unmet" }
        /\ c.pc \notin { "off", "digest", "bound" }
        /\ c.pc = "met" => c.todo = {}
    BY <2>2, CellTypes, RunCellPhase
  <2> QED BY <2>1, <2>3, <2>4 DEF Phases
<1>2. CASE Bar("verdict")
  <2>1. UNCHANGED << end, published, out, refused, run >>
    BY <1>2 DEF Bar, ReadBound, ReadRecord, HashBundle, JudgeBundle, CompareGoal, FinishBar,
                BarUnchanged, history
  <2>2. PICK c : /\ bar' = [ bar EXCEPT !["verdict"] = c ]
                 /\ VerdictCell(bar["verdict"], Entry("verdict"), c)
    BY <1>2, CellTypes, VerdictBar
  <2>3. bar'["run"] = bar["run"] /\ bar["verdict"].pc # "off"
    BY <2>2, CellTypes, VerdictCellPhase
  <2> QED BY <2>1, <2>3 DEF Phases
<1>3. CASE StartVerdict
  <2>1. published /\ bar'["run"] = bar["run"] /\ UNCHANGED << end, published, refused, run >>
    BY <1>3, CellTypes DEF StartVerdict, StartBar, history
  <2> QED BY <2>1 DEF Phases
<1>4. CASE ProjectDigest
  <2>1. /\ bar["verdict"].pc = "digest" /\ bar'["run"] = bar["run"]
        /\ UNCHANGED << end, published, refused, run >>
    BY <1>4, CellTypes DEF ProjectDigest, BarUnchanged, history
  <2> QED BY <2>1 DEF Phases
<1>5. CASE Outside
  <2>1. UNCHANGED << end, published, run, bar, out, refused >>
    BY <1>5 DEF Outside, RewriteRecord, RewriteBundle, Rebind, MoveGoal, Change
  <2> QED BY <2>1 DEF Phases
<1> QED BY <1>1, <1>2, <1>3, <1>4, <1>5 DEF Readers

LEMMA PhasesNext ==
  ASSUME Types, Phases, [Next]_vars
  PROVE  Phases'
<1>1. CASE Next
  BY <1>1, PhasesDispatch, PhasesEnd, PhasesRest DEF Next, Run
<1>2. CASE UNCHANGED vars
  BY <1>2 DEF vars, disk, history, Phases
<1> QED BY <1>1, <1>2

-----------------------------------------------------------------------------
(* What the runner's evaluation found, kept to the end it commits.           *)

LEMMA BackedStable ==
  ASSUME NEW l \in Seq(Events), NEW m, m = l \/ \E e : m = Append(l, e),
         NEW n \in 0 .. Len(l), NEW i
  PROVE  BoundIn(m, n, i) = BoundIn(l, n, i) /\ (BackedIn(m, n, i) <=> BackedIn(l, n, i))
<1>1. BoundIn(m, n, i) = BoundIn(l, n, i)
  <2>1. CASE \E e : m = Append(l, e)
    <3>1. PICK e : m = Append(l, e)
      BY <2>1
    <3>2. BoundIn(Append(l, e), n, i) = BoundIn(l, n, i)
      BY BoundStable
    <3> QED BY <3>1, <3>2
  <2>2. CASE m = l
    BY <2>2
  <2> QED BY <2>1, <2>2
<1> QED BY <1>1 DEF BackedIn

LEMMA ConclusionKept ==
  ASSUME NEW l \in Seq(Events), NEW m, m = l \/ \E e \in Events : m = Append(l, e),
         NEW r \in RunType, NEW b \in BarType, b.upto <= Len(l), r.n <= Len(l),
         ConcludesOn(l, r, b)
  PROVE  ConcludesOn(m, r, b)
<1>0. Len(l) \in Nat /\ Len(m) \in Nat /\ Len(l) <= Len(m) /\ b.upto \in 0 .. Len(l) /\ r.n \in Nat
  BY DEF BarType, RunType
<1>1. ASSUME NEW n \in 0 .. Len(l), NEW i
      PROVE  BoundIn(m, n, i) = BoundIn(l, n, i) /\ (BackedIn(m, n, i) <=> BackedIn(l, n, i))
  BY BackedStable
<1>2. BlobBacked(l, b) => BlobBacked(m, b)
  BY <1>0, <1>1 DEF BlobBacked
<1>3. ASSUME NEW u \in r.n .. Len(l), \A i \in r.cites : BackedIn(l, u, i)
      PROVE  u \in r.n .. Len(m) /\ \A i \in r.cites : BackedIn(m, u, i)
  <2>1. u \in 0 .. Len(l) /\ u \in r.n .. Len(m)
    BY <1>0
  <2> QED BY <2>1, <1>1, <1>3
<1> QED BY <1>0, <1>1, <1>2, <1>3 DEF ConcludesOn

LEMMA LogGrows ==
  ASSUME Types, [Next]_vars
  PROVE  log' = log \/ \E e \in Events : log' = Append(log, e)
<1>1. ASSUME NEW passed \in BOOLEAN, CommitDispatch(passed), run.n = Len(log)
      PROVE  \E e \in Events : log' = Append(log, e)
  <2>1. run.task \in Tasks /\ run.goal \in Goals /\ run.iter \in Iterations
    BY <1>1 DEF CommitDispatch, Types, RunTyped, Dispatching
  <2>2. PICK e : e = [ iter |-> run.iter, task |-> run.task, passed |-> passed,
                       record |-> Built(run.iter, run.task, run.goal, passed) ]
    OBVIOUS
  <2>3. e \in Events
    BY <2>1, <2>2, BuiltType DEF Events
  <2> QED BY <2>2, <2>3, <1>1 DEF CommitDispatch
<1>2. ASSUME NEW i \in Iterations, Rebind(i) PROVE \E e \in Events : log' = Append(log, e)
  <2>1. records[i] \in Records /\ records[i].task \in Tasks
    BY <1>2 DEF Rebind, IsRecord, Records
  <2>2. PICK e : e = [ iter |-> i, task |-> records[i].task, passed |-> TRUE,
                       record |-> records[i] ]
    OBVIOUS
  <2>3. e \in Events
    BY <2>1, <2>2 DEF Events
  <2> QED BY <2>2, <2>3, <1>2 DEF Rebind
<1>3. ASSUME NEW passed \in BOOLEAN, CommitDispatch(passed), run.n # Len(log) PROVE log' = log
  BY <1>3 DEF CommitDispatch
<1>4. CASE \/ \E t \in Tasks : StartDispatch(t)
           \/ PlaceRecord \/ PlaceBundle
           \/ StartEnd \/ Judged \/ CommitEnd \/ StartPublish \/ Publish \/ Crash
  BY <1>4 DEF StartDispatch, PlaceRecord, PlaceBundle, StartEnd, Judged, CommitEnd,
              StartPublish, Publish, Crash
<1>5. CASE (\E p \in Readers : Bar(p)) \/ StartVerdict \/ ProjectDigest \/ UNCHANGED vars
  BY <1>5 DEF Bar, ReadBound, ReadRecord, HashBundle, JudgeBundle, CompareGoal, FinishBar,
              BarUnchanged, StartVerdict, ProjectDigest, vars
<1>6. CASE Outside
  BY <1>6, <1>2 DEF Outside, RewriteRecord, RewriteBundle, MoveGoal
<1> QED BY <1>1, <1>3, <1>4, <1>5, <1>6 DEF Next, Run

LEMMA ConclusionInit ==
  ASSUME Init
  PROVE  Conclusion /\ VerifiedEndBacked
BY DEF Init, Conclusion, ConcludesOn, VerifiedEndBacked, NoEnd, Idle

\* A test passed keeps what was found; an entry that passes them all is backed.
LEMMA CellConcludes ==
  ASSUME Types, NEW b \in BarType, CellOK(b), NEW c,
         RunCell(b, EntryOf(b.todo), c), NEW r \in RunType, r.pc = "judging",
         r.n <= Len(log), ConcludesOn(log, r, b)
  PROVE  ConcludesOn(log, r, c)
<1> DEFINE e == EntryOf(b.todo)
<1>0. Len(log) \in Nat /\ r.n \in Nat /\ b.upto \in Nat
  BY DEF Types, BarType, RunType
<1>1. CASE b.pc = "bound" /\ c = [ b EXCEPT !.upto = Len(log), !.pc = "record" ]
  <2>1. c.upto = Len(log) /\ c.todo = b.todo /\ c.pc = "record"
    BY <1>1 DEF BarType
  <2>2. r.cites \ c.todo = {}
    BY <1>1, <2>1 DEF ConcludesOn
  <2> QED BY <2>1, <2>2 DEF ConcludesOn
<1>2. CASE b.pc # "bound" /\ c.pc # "bound" /\ c.pc # "goal" /\ c.upto = b.upto /\ c.todo = b.todo
  BY <1>2 DEF ConcludesOn
<1>3. CASE /\ b.pc = "judge" /\ JudgedGreen(b.blob) /\ BoundOnceAt(b.upto, e, b.blob)
           /\ c = [ b EXCEPT !.pc = "goal" ]
  <2>1. c.upto = b.upto /\ c.todo = b.todo /\ c.pc = "goal" /\ c.blob = b.blob
    BY <1>3 DEF BarType
  <2>2. BlobBacked(log, c)
    BY <1>3, <2>1 DEF BlobBacked, BoundIn, BoundOnceAt, Bound, JudgedGreen
  <2> QED BY <1>3, <2>1, <2>2 DEF ConcludesOn
<1>4. CASE b.pc = "goal" /\ c = [ b EXCEPT !.pc = "record", !.todo = @ \ { e } ]
  <2>1. c.upto = b.upto /\ c.todo = b.todo \ { e } /\ c.pc = "record"
    BY <1>4 DEF BarType
  <2>2. BlobBacked(log, b) /\ b.blob \in Records
    BY <1>4 DEF ConcludesOn, CellOK, Holding
  <2>3. BackedIn(log, b.upto, e)
    BY <2>2 DEF BlobBacked, BackedIn
  <2>4. \A i \in r.cites \ c.todo : BackedIn(log, c.upto, i)
    BY <1>4, <2>1, <2>3 DEF ConcludesOn
  <2> QED BY <1>4, <2>1, <2>4 DEF ConcludesOn
<1>5. CASE \E s \in { "judge", "unmet", "met" } : b.pc # "bound" /\ c = [ b EXCEPT !.pc = s ]
  <2>1. c.upto = b.upto /\ c.todo = b.todo /\ c.pc \notin { "bound", "goal" }
    BY <1>5 DEF BarType
  <2> QED BY <1>5, <2>1, <1>2
<1>6. CASE \E x : b.pc = "record" /\ c = [ b EXCEPT !.pc = "hash", !.blob = x ]
  <2>1. c.upto = b.upto /\ c.todo = b.todo /\ c.pc = "hash"
    BY <1>6 DEF BarType
  <2> QED BY <1>6, <2>1, <1>2
<1> QED BY <1>1, <1>3, <1>4, <1>5, <1>6 DEF RunCell, Advances, Refuted

LEMMA EntryIs ==
  /\ \A p \in Readers : Entry(p) = EntryOf(bar[p].todo)
  /\ (\A p \in Readers : Entry(p) = EntryOf(bar[p].todo))'
BY DEF Entry, EntryOf

LEMMA ConclusionNext ==
  ASSUME Types, Phases, Conclusion, VerifiedEndBacked, [Next]_vars
  PROVE  Conclusion'
<1>0. /\ run \in RunType /\ run.n <= Len(log) /\ Len(log) \in Nat
      /\ bar["run"] \in BarType /\ CellOK(bar["run"]) /\ log \in Seq(Events)
  BY CellTypes DEF Types, RunTyped, BarTyped
<1>1. log' = log \/ \E e \in Events : log' = Append(log, e)
  BY LogGrows
<1>2. ASSUME NEW r, r = run', r.pc \notin Concluding PROVE Conclusion'
  BY <1>2 DEF Conclusion, ConcludesOn, Concluding
<1>3. ASSUME run' = run, bar'["run"] = bar["run"] PROVE Conclusion'
  BY <1>0, <1>1, <1>3, ConclusionKept DEF Conclusion, CellOK
<1>4. CASE \/ \E t \in Tasks : StartDispatch(t)
           \/ \E passed \in BOOLEAN : CommitDispatch(passed)
           \/ PlaceRecord \/ PlaceBundle
  <2>1. run'.pc \notin Concluding
    <3>1. \A t \in Tasks : StartDispatch(t) => run'.pc = "verifying"
      BY DEF StartDispatch, Idle
    <3>2. ASSUME NEW passed \in BOOLEAN, CommitDispatch(passed)
          PROVE  run'.pc \in { "record", "idle" }
      <4>1. run' = Idle \/ run' = [ run EXCEPT !.pc = "record", !.passed = passed ]
        BY <3>2 DEF CommitDispatch
      <4> QED BY <1>0, <4>1, IdleType DEF RunType
    <3>3. PlaceRecord => run'.pc = "bundle"
      BY <1>0 DEF PlaceRecord, RunGoto, RunType
    <3>4. PlaceBundle => run'.pc = "idle"
      BY IdleType DEF PlaceBundle
    <3> QED BY <1>4, <3>1, <3>2, <3>3, <3>4 DEF Concluding
  <2> QED BY <2>1, <1>2
<1>5. CASE StartEnd
  <2> DEFINE cites == UNION { RecordsOf(t) : t \in LiveTasks }
             missing == \E t \in LiveTasks : RecordsOf(t) = {}
  <2>0. PICK n : n = [ Idle EXCEPT !.pc = IF missing THEN "ending" ELSE "judging",
                                   !.n = Len(log), !.cites = cites, !.mode = "weak" ]
    OBVIOUS
  <2>1. /\ n.pc = IF missing THEN "ending" ELSE "judging"
        /\ n.cites = cites /\ n.mode = "weak"
    <3>1. Idle \in RunType
      BY IdleType
    <3> HIDE DEF cites, missing, Idle
    <3> QED BY <2>0, <3>1 DEF RunType
  <2>2. run' = n
    BY <1>5, <2>0 DEF StartEnd
  <2>3. CASE missing
    BY <2>1, <2>2, <2>3 DEF Conclusion, ConcludesOn
  <2>4. CASE ~missing
    <3>1. StartBar("run", cites)
      BY <2>4, <1>5 DEF StartEnd
    <3>2. cites \in SUBSET Iterations
      BY CitedType DEF Types
    <3>3. bar'["run"].pc = "bound" /\ bar'["run"].todo = cites
      BY <3>1, <3>2, BarStarted
    <3> QED BY <2>1, <2>2, <3>3 DEF Conclusion, ConcludesOn
  <2> QED BY <2>3, <2>4
<1>6. CASE Judged
  <2>1. PICK n : n = [ run EXCEPT !.pc = "ending",
                          !.mode = IF bar["run"].pc = "met" THEN "verified" ELSE "weak" ]
    OBVIOUS
  <2>2. /\ n.pc = "ending" /\ n.n = run.n /\ n.cites = run.cites
        /\ n.mode = IF bar["run"].pc = "met" THEN "verified" ELSE "weak"
    BY <2>1, <1>0 DEF RunType
  <2>3. run' = n /\ log' = log
    BY <1>6, <2>1 DEF Judged
  <2>4. CASE bar["run"].pc = "met"
    <3>1. run.pc = "judging" /\ bar["run"].todo = {} /\ run.cites # {}
      BY <1>6, <2>4 DEF Judged, Phases
    <3>2. PICK u : u = bar["run"].upto
      OBVIOUS
    <3>3. u \in run.n .. Len(log) /\ \A i \in run.cites : BackedIn(log, u, i)
      <4>1. u \in Nat /\ u <= Len(log) /\ run.n \in Nat
        BY <1>0, <3>2 DEF BarType, RunType, CellOK
      <4>2. run.n <= u /\ \A i \in run.cites : BackedIn(log, u, i)
        BY <3>1, <3>2, <2>4 DEF Conclusion, ConcludesOn
      <4> QED BY <1>0, <4>1, <4>2
    <3> QED BY <2>2, <2>3, <3>1, <3>3 DEF Conclusion, ConcludesOn
  <2>5. CASE bar["run"].pc # "met"
    BY <2>2, <2>3, <2>5 DEF Conclusion, ConcludesOn
  <2> QED BY <2>4, <2>5
<1>7. CASE CommitEnd \/ Publish \/ Crash
  <2>1. run' = Idle
    BY <1>7 DEF CommitEnd, Publish, Crash
  <2> QED BY <2>1, <1>2, IdleType DEF Concluding
<1>8. CASE StartPublish
  <2>1. run' = run \/ run' = [ run EXCEPT !.pc = "publishing" ]
    BY <1>8 DEF StartPublish, RunGoto
  <2>2. run.pc = "idle"
    BY <1>8 DEF StartPublish
  <2>3. run'.pc \in { "idle", "publishing" }
    BY <2>1, <2>2, <1>0 DEF RunType
  <2> QED BY <2>3, <1>2 DEF Concluding
<1>9. CASE Bar("run")
  <2>1. UNCHANGED << log, run >>
    BY <1>9 DEF Bar, ReadBound, ReadRecord, HashBundle, JudgeBundle, CompareGoal, FinishBar,
                BarUnchanged
  <2>2. PICK c : /\ bar' = [ bar EXCEPT !["run"] = c ]
                 /\ RunCell(bar["run"], Entry("run"), c)
    BY <1>9, CellTypes, RunBar
  <2>3. bar'["run"] = c
    BY <2>2, CellTypes
  <2>4. RunCell(bar["run"], EntryOf(bar["run"].todo), c)
    BY <2>2, EntryIs DEF Readers
  <2>5. CASE run.pc = "judging"
    BY <1>0, <2>1, <2>3, <2>4, <2>5, CellConcludes DEF Conclusion
  <2>6. CASE run.pc # "judging"
    BY <2>1, <2>6 DEF Conclusion, ConcludesOn
  <2> QED BY <2>5, <2>6
<1>10. CASE Bar("verdict")
  <2>1. UNCHANGED << log, run >>
    BY <1>10 DEF Bar, ReadBound, ReadRecord, HashBundle, JudgeBundle, CompareGoal, FinishBar,
                 BarUnchanged
  <2>2. PICK c : bar' = [ bar EXCEPT !["verdict"] = c ]
    BY <1>10, CellTypes, VerdictBar
  <2>3. bar'["run"] = bar["run"]
    BY <2>2, CellTypes
  <2> QED BY <2>1, <2>3, <1>3
<1>11. CASE StartVerdict \/ ProjectDigest \/ Outside \/ UNCHANGED vars
  <2>1. run' = run
    BY <1>11 DEF StartVerdict, ProjectDigest, BarUnchanged, vars, Outside, RewriteRecord,
                 RewriteBundle, Rebind, MoveGoal, Change
  <2>2. bar'["run"] = bar["run"]
    BY <1>11, CellTypes DEF StartVerdict, StartBar, ProjectDigest, vars, Outside, RewriteRecord,
                 RewriteBundle, Rebind, MoveGoal, Change
  <2> QED BY <2>1, <2>2, <1>3
<1> QED BY <1>4, <1>5, <1>6, <1>7, <1>8, <1>9, <1>10, <1>11 DEF Next, Run, Readers

LEMMA BackedIs ==
  /\ VerifiedEndBacked <=>
       (end.mode = "verified" =>
          end.cites # {} /\ \A i \in end.cites : BackedIn(log, end.at, i))
  /\ VerifiedEndBacked' <=>
       (end'.mode = "verified" =>
          end'.cites # {} /\ \A i \in end'.cites : BackedIn(log', end'.at, i))
BY DEF VerifiedEndBacked, BackedIn, Bound, BoundIn

LEMMA VerifiedEndNext ==
  ASSUME Types, Phases, Conclusion, VerifiedEndBacked, [Next]_vars
  PROVE  VerifiedEndBacked'
<1>0. /\ Len(log) \in Nat /\ log \in Seq(Events) /\ end.at \in 0 .. Len(log)
      /\ run \in RunType /\ run.n <= Len(log)
  BY DEF Types, EndTyped, RunTyped
<1>1. CASE CommitEnd /\ run.n = Len(log)
  <2>1. PICK n : n = [ mode |-> run.mode, at |-> Len(log),
                       cites |-> IF run.mode = "verified" THEN run.cites ELSE {} ]
    OBVIOUS
  <2>2. end' = n /\ log' = log /\ run.pc = "ending"
    BY <1>1, <2>1 DEF CommitEnd
  <2>3. /\ n.mode = run.mode /\ n.at = Len(log)
        /\ run.mode = "verified" => n.cites = run.cites
    BY <2>1
  <2>4. ASSUME run.mode = "verified"
        PROVE  run.cites # {} /\ \A i \in run.cites : BackedIn(log, Len(log), i)
    <3>1. PICK u \in run.n .. Len(log) : \A i \in run.cites : BackedIn(log, u, i)
      BY <2>2, <2>4 DEF Conclusion, ConcludesOn
    <3>2. u = Len(log)
      BY <1>0, <1>1, <3>1
    <3> QED BY <2>2, <2>4, <3>1, <3>2 DEF Conclusion, ConcludesOn
  <2> QED BY <2>2, <2>3, <2>4, BackedIs
<1>2. CASE end' = end
  <2>1. log' = log \/ \E e : log' = Append(log, e)
    BY LogGrows
  <2>2. \A i : BackedIn(log', end.at, i) <=> BackedIn(log, end.at, i)
    BY <1>0, <2>1, BackedStable
  <2> QED BY <1>2, <2>2, BackedIs
<1>3. end' = end \/ (CommitEnd /\ run.n = Len(log))
  <2>1. CASE Run
    BY <2>1 DEF Run, StartDispatch, CommitDispatch, PlaceRecord, PlaceBundle, StartEnd, Judged,
                CommitEnd, StartPublish, Publish, Crash
  <2>2. CASE (\E p \in Readers : Bar(p)) \/ StartVerdict \/ ProjectDigest
    BY <2>2 DEF Bar, ReadBound, ReadRecord, HashBundle, JudgeBundle, CompareGoal, FinishBar,
                BarUnchanged, StartVerdict, ProjectDigest
  <2>3. CASE Outside \/ UNCHANGED vars
    BY <2>3 DEF Outside, RewriteRecord, RewriteBundle, Rebind, MoveGoal, Change, vars
  <2> QED BY <2>1, <2>2, <2>3 DEF Next
<1> QED BY <1>1, <1>2, <1>3

-----------------------------------------------------------------------------
(* What the verdict's evaluation found, kept to the digests it projects.     *)

LEMMA ProjectionKept ==
  ASSUME NEW l \in Seq(Events), NEW m, m = l \/ \E e \in Events : m = Append(l, e),
         NEW b \in BarType, b.upto <= Len(l), NEW cites, NEW digests,
         ProjectsOn(l, b, cites, digests)
  PROVE  ProjectsOn(m, b, cites, digests)
<1>0. b.upto \in 0 .. Len(l)
  BY DEF BarType
<1>1. \A i : BoundIn(m, b.upto, i) = BoundIn(l, b.upto, i)
  BY <1>0, BackedStable
<1> QED BY <1>1 DEF ProjectsOn, BlobBacked

LEMMA ProjectionInit ==
  ASSUME Init
  PROVE  Projection
BY DEF Init, Projection, ProjectsOn, Readers, NoBar

LEMMA CellProjects ==
  ASSUME Types, NEW b \in BarType, NEW c, VerdictCell(b, EntryOf(b.todo), c), NEW cites,
         NEW digests, ProjectsOn(log, b, cites, digests)
  PROVE  ProjectsOn(log, c, cites, digests)
<1> DEFINE e == EntryOf(b.todo)
<1>1. CASE b.pc = "bound" /\ c = [ b EXCEPT !.upto = Len(log), !.pc = "record" ]
  <2>1. c.todo = b.todo /\ c.pc = "record"
    BY <1>1 DEF BarType
  <2> QED BY <1>1, <2>1 DEF ProjectsOn
<1>2. CASE /\ b.pc # "off" /\ c.pc \notin { "bound", "goal", "digest" }
           /\ c.upto = b.upto /\ c.todo \subseteq b.todo
  BY <1>2 DEF ProjectsOn
<1>3. CASE /\ b.pc = "judge" /\ JudgedGreen(b.blob) /\ BoundOnceAt(b.upto, e, b.blob)
           /\ c = [ b EXCEPT !.pc = "goal" ]
  <2>1. c.upto = b.upto /\ c.todo = b.todo /\ c.pc = "goal" /\ c.blob = b.blob
    BY <1>3 DEF BarType
  <2>2. BlobBacked(log, c)
    BY <1>3, <2>1 DEF BlobBacked, BoundIn, BoundOnceAt, Bound, JudgedGreen
  <2> QED BY <1>3, <2>1, <2>2 DEF ProjectsOn
<1>4. CASE b.pc = "goal" /\ c = [ b EXCEPT !.pc = "digest" ]
  <2>1. c.upto = b.upto /\ c.todo = b.todo /\ c.pc = "digest" /\ c.blob = b.blob
    BY <1>4 DEF BarType
  <2> QED BY <1>4, <2>1 DEF ProjectsOn, BlobBacked
<1>5. CASE \E s \in { "judge", "record", "off" } :
             \/ b.pc \notin { "bound", "off" } /\ c = [ b EXCEPT !.pc = s ]
             \/ b.pc # "off" /\ c = [ b EXCEPT !.pc = s, !.todo = @ \ { e } ]
  <2>1. c.upto = b.upto /\ c.todo \subseteq b.todo /\ c.pc \in { "judge", "record", "off" }
    BY <1>5 DEF BarType
  <2> QED BY <1>5, <2>1, <1>2
<1>6. CASE \E x : b.pc = "record" /\ c = [ b EXCEPT !.pc = "hash", !.blob = x ]
  <2>1. c.upto = b.upto /\ c.todo = b.todo /\ c.pc = "hash"
    BY <1>6 DEF BarType
  <2> QED BY <1>6, <2>1, <1>2
<1> QED BY <1>1, <1>3, <1>4, <1>5, <1>6 DEF VerdictCell, Advances, Refuted

LEMMA ProjectionNext ==
  ASSUME Types, Phases, Projection, [Next]_vars
  PROVE  Projection'
<1>0. /\ bar["verdict"] \in BarType /\ CellOK(bar["verdict"]) /\ log \in Seq(Events)
  BY CellTypes DEF Types, BarTyped
<1>1. log' = log \/ \E e \in Events : log' = Append(log, e)
  BY LogGrows
<1>2. ASSUME bar'["verdict"] = bar["verdict"], out' = out, end'.cites = end.cites
      PROVE  Projection'
  BY <1>0, <1>1, <1>2, ProjectionKept DEF Projection, CellOK
<1>3. CASE CommitEnd
  <2>1. bar' = bar /\ out' = out
    BY <1>3 DEF CommitEnd
  <2>2. bar["verdict"].pc = "off" /\ out = {}
    <3>1. end = NoEnd
      BY <1>3 DEF CommitEnd, Phases, Concluding
    <3> QED BY <3>1 DEF Phases
  <2> QED BY <2>1, <2>2 DEF Projection, ProjectsOn
<1>4. CASE /\ UNCHANGED << bar, out, end >>
  BY <1>2, <1>4
<1>5. CASE StartEnd \/ StartPublish
  <2>1. UNCHANGED << out, end >>
    BY <1>5 DEF StartEnd, StartPublish
  <2>2. bar'["verdict"] = bar["verdict"]
    BY <1>5, CellTypes DEF StartEnd, StartPublish, StartBar
  <2> QED BY <2>1, <2>2, <1>2
<1>6. CASE Judged \/ Publish \/ Crash
  <2>1. UNCHANGED << out, end >> /\ bar' = [ bar EXCEPT !["run"] = NoBar ]
    BY <1>6 DEF Judged, Publish, Crash
  <2> QED BY <2>1, <1>2, BarCleared
<1>7. CASE Bar("run")
  <2>1. UNCHANGED << out, end >>
    BY <1>7 DEF Bar, ReadBound, ReadRecord, HashBundle, JudgeBundle, CompareGoal, FinishBar,
                BarUnchanged
  <2>2. PICK c : bar' = [ bar EXCEPT !["run"] = c ]
    BY <1>7, CellTypes, RunBar
  <2>3. bar'["verdict"] = bar["verdict"]
    BY <2>2, CellTypes
  <2> QED BY <2>1, <2>3, <1>2
<1>8. CASE Bar("verdict")
  <2>1. UNCHANGED << log, out, end >>
    BY <1>8 DEF Bar, ReadBound, ReadRecord, HashBundle, JudgeBundle, CompareGoal, FinishBar,
                BarUnchanged
  <2>2. PICK c : /\ bar' = [ bar EXCEPT !["verdict"] = c ]
                 /\ VerdictCell(bar["verdict"], Entry("verdict"), c)
    BY <1>8, CellTypes, VerdictBar
  <2>3. bar'["verdict"] = c
    BY <2>2, CellTypes
  <2>4. VerdictCell(bar["verdict"], EntryOf(bar["verdict"].todo), c)
    BY <2>2, EntryIs DEF Readers
  <2> QED BY <1>0, <2>1, <2>3, <2>4, CellProjects DEF Projection
<1>9. CASE StartVerdict
  <2>1. PICK c : c = [ NoBar EXCEPT !.pc = "bound", !.todo = end.cites ]
    OBVIOUS
  <2>2. c.pc = "bound" /\ c.todo = end.cites
    <3>1. NoBar \in BarType
      BY FreshCellOK DEF Types
    <3> HIDE DEF NoBar
    <3> QED BY <2>1, <3>1 DEF BarType
  <2>3. bar'["verdict"] = c /\ out' = {} /\ end' = end
    BY <1>9, <2>1, CellTypes DEF StartVerdict, StartBar
  <2> QED BY <2>2, <2>3 DEF Projection, ProjectsOn
<1>10. CASE ProjectDigest
  <2> DEFINE b == bar["verdict"]
             e == Entry("verdict")
  <2>1. PICK c : c = [ b EXCEPT !.pc = "record", !.todo = @ \ { e } ]
    OBVIOUS
  <2>2. c.pc = "record" /\ c.todo \subseteq b.todo /\ c.upto = b.upto
    BY <2>1, <1>0 DEF BarType
  <2>3. bar'["verdict"] = c /\ end' = end /\ log' = log /\ b.pc = "digest"
    BY <1>10, <2>1, CellTypes DEF ProjectDigest, BarUnchanged
  <2>4. /\ b.todo \subseteq end.cites /\ BlobBacked(log, b)
        /\ \A r \in out : r.sha.green /\ \E i \in end.cites : BoundIn(log, b.upto, i) = { r }
    BY <2>3 DEF Projection, ProjectsOn
  <2>5. e = EntryOf(b.todo) /\ e \in end.cites
    <3>1. b.todo # {} /\ b.todo \in SUBSET Iterations
      BY <2>3, <1>0 DEF CellOK, Holding, BarType
    <3>2. e \in b.todo
      BY <3>1, EntryPending
    <3> QED BY <3>2, <2>4, EntryIs DEF Readers
  <2>6. \A r \in out' : r.sha.green /\ \E i \in end.cites : BoundIn(log, b.upto, i) = { r }
    <3>1. CASE BoundOnceAt(b.upto, e, records[e])
      <4>1. out' = out \cup { records[e] }
        BY <1>10, <3>1 DEF ProjectDigest
      <4>2. BoundIn(log, b.upto, e) = { records[e] }
        BY <3>1 DEF BoundOnceAt, Bound, BoundIn
      <4>3. records[e] = b.blob /\ b.blob.sha.green
        BY <4>2, <2>4, <2>5 DEF BlobBacked
      <4> QED BY <4>1, <4>2, <4>3, <2>4, <2>5
    <3>2. CASE ~BoundOnceAt(b.upto, e, records[e])
      BY <1>10, <3>2, <2>4 DEF ProjectDigest
    <3> QED BY <3>1, <3>2
  <2> QED BY <2>2, <2>3, <2>4, <2>6 DEF Projection, ProjectsOn
<1>11. UNCHANGED << bar, out, end >>
         \/ CommitEnd \/ StartEnd \/ StartPublish \/ Judged \/ Publish \/ Crash
         \/ Bar("run") \/ Bar("verdict") \/ StartVerdict \/ ProjectDigest
  <2>1. CASE Run
    BY <2>1 DEF Run, StartDispatch, CommitDispatch, PlaceRecord, PlaceBundle
  <2>2. CASE Outside \/ UNCHANGED vars
    BY <2>2 DEF Outside, RewriteRecord, RewriteBundle, Rebind, MoveGoal, Change, vars
  <2> QED BY <2>1, <2>2 DEF Next, Readers
<1> QED BY <1>3, <1>4, <1>5, <1>6, <1>7, <1>8, <1>9, <1>10, <1>11

-----------------------------------------------------------------------------
(* The seam between the end and its publication.                             *)

LEMMA UndisturbedInit ==
  ASSUME Init
  PROVE  Undisturbed
BY DEF Init, Undisturbed, Standing, StandsOn, NoEnd, Idle

\* The bar says the same of files that stand still.
LEMMA FilesStandStill ==
  ASSUME UNCHANGED << log, records, bundles, goal >>, NEW r, NEW b, NEW d
  PROVE  StandsOn(r, b, d)' <=> StandsOn(r, b, d)
<1>1. \A i : StrictBar(i)' <=> StrictBar(i)
  BY DEF StrictBar, HashVerified, JudgedGreen, BoundOnceAt, Bound, GoalAgrees
<1>2. HashVerified(b.blob)' <=> HashVerified(b.blob)
  BY DEF HashVerified
<1>3. JudgedGreen(b.blob)' <=> JudgedGreen(b.blob)
  BY DEF JudgedGreen
<1>4. BoundOnceAt(Len(log), EntryOf(b.todo), b.blob)' <=> BoundOnceAt(Len(log), EntryOf(b.todo), b.blob)
  BY DEF BoundOnceAt, Bound
<1> QED BY <1>1, <1>2, <1>3, <1>4 DEF StandsOn

\* Standing after a step that leaves the files alone.
LEMMA StandingNow ==
  ASSUME UNCHANGED << log, records, bundles, goal >>,
         NEW r, NEW b, NEW d, run' = r, bar'["run"] = b, end' = d, StandsOn(r, b, d)
  PROVE  Standing'
<1>1. StandsOn(r, b, d)'
  BY FilesStandStill
<1>2. Standing' <=> StandsOn(r, b, d)'
  BY DEF Standing, StandsOn
<1> QED BY <1>1, <1>2

\* Nothing to stand for before the end, outside its making.
LEMMA NothingStands ==
  ASSUME end' = NoEnd, run'.pc \notin { "judging", "ending", "publishing" }
  PROVE  Standing'
BY DEF Standing, StandsOn, NoEnd

\* A step of the runner's evaluation.
LEMMA CellStands ==
  ASSUME Types, NEW b \in BarType, CellOK(b), NEW c, NEW r \in RunType, NEW d,
         r.pc \in { "judging", "publishing" },
         r.pc = "publishing" => d.mode = "verified",
         RunCell(b, EntryOf(b.todo), c), b.todo # {} => EntryOf(b.todo) \in b.todo,
         StandsOn(r, b, d)
  PROVE  StandsOn(r, c, d)
<1> DEFINE e == EntryOf(b.todo)
<1>0. /\ b.pc # "bound" => b.upto = Len(log)
      /\ b.pc \in Holding => b.blob = records[e] /\ b.blob \in Records /\ e \in b.todo
      /\ r.pc = "publishing" => b.todo \subseteq d.cites /\ \A i \in d.cites : StrictBar(i)
  BY DEF StandsOn, CellOK
<1>1. CASE b.pc = "bound" /\ c = [ b EXCEPT !.upto = Len(log), !.pc = "record" ]
  <2>1. c.upto = Len(log) /\ c.todo = b.todo /\ c.pc = "record"
    BY <1>1 DEF BarType
  <2> QED BY <1>1, <2>1 DEF StandsOn, Holding
<1>2. CASE \E x : /\ b.pc = "record" /\ b.todo # {} /\ x = records[e]
                  /\ c = [ b EXCEPT !.pc = "hash", !.blob = x ]
  <2>1. c.upto = b.upto /\ c.todo = b.todo /\ c.pc = "hash" /\ c.blob = records[e]
    BY <1>2 DEF BarType
  <2> QED BY <1>0, <1>2, <2>1 DEF StandsOn, Holding
<1>3. CASE b.pc = "hash" /\ c = [ b EXCEPT !.pc = "judge" ]
  <2>1. c.upto = b.upto /\ c.todo = b.todo /\ c.pc = "judge" /\ c.blob = b.blob
    BY <1>3 DEF BarType
  <2> QED BY <1>0, <1>3, <2>1 DEF StandsOn, Holding
<1>4. CASE /\ b.pc = "judge" /\ JudgedGreen(b.blob) /\ BoundOnceAt(b.upto, e, b.blob)
           /\ c = [ b EXCEPT !.pc = "goal" ]
  <2>1. c.upto = b.upto /\ c.todo = b.todo /\ c.pc = "goal" /\ c.blob = b.blob
    BY <1>4 DEF BarType
  <2>2. HashVerified(c.blob) /\ JudgedGreen(c.blob) /\ BoundOnceAt(Len(log), EntryOf(c.todo), c.blob)
    BY <1>0, <1>4, <2>1 DEF HashVerified, JudgedGreen
  <2> QED BY <1>0, <1>4, <2>1, <2>2 DEF StandsOn, Holding
<1>5. CASE b.pc = "goal" /\ GoalAgrees(b.blob) /\ c = [ b EXCEPT !.pc = "record", !.todo = @ \ { e } ]
  <2>1. c.upto = b.upto /\ c.todo = b.todo \ { e } /\ c.pc = "record"
    BY <1>5 DEF BarType
  <2>2. CASE r.pc = "judging"
    <3>1. StrictBar(e)
      BY <1>0, <1>5, <2>2 DEF StrictBar, IsRecord, StandsOn, Holding
    <3> QED BY <1>0, <1>5, <2>1, <2>2, <3>1 DEF StandsOn, Holding
  <2>3. CASE r.pc = "publishing"
    BY <1>0, <1>5, <2>1, <2>3 DEF StandsOn, Holding
  <2> QED BY <2>2, <2>3
<1>6. CASE Refuted(b, e) /\ c = [ b EXCEPT !.pc = "unmet" ]
  <2>1. c.upto = b.upto /\ c.todo = b.todo /\ c.pc = "unmet"
    BY <1>6 DEF BarType
  <2>2. r.pc # "publishing"
    <3>1. SUFFICES ASSUME r.pc = "publishing" PROVE FALSE
      OBVIOUS
    <3>2. b.todo # {} /\ b.pc # "bound"
      BY <1>6 DEF Refuted, CellOK, Holding
    <3>3. StrictBar(e)
      BY <1>0, <3>1, <3>2
    <3>4. b.pc \in Holding => b.blob = records[e]
      BY <1>0
    <3> QED BY <1>0, <1>6, <3>2, <3>3, <3>4 DEF Refuted, StrictBar, Holding
  <2>3. b.pc # "bound"
    BY <1>6 DEF Refuted
  <2> QED BY <1>0, <2>1, <2>2, <2>3 DEF StandsOn, Holding
<1>7. CASE b.pc = "record" /\ b.todo = {} /\ c = [ b EXCEPT !.pc = "met" ]
  <2>1. c.upto = b.upto /\ c.todo = b.todo /\ c.pc = "met"
    BY <1>7 DEF BarType
  <2> QED BY <1>0, <1>7, <2>1 DEF StandsOn, Holding
<1> QED BY <1>1, <1>2, <1>3, <1>4, <1>5, <1>6, <1>7 DEF RunCell, Advances

LEMMA UndisturbedNext ==
  ASSUME Types, Phases, Undisturbed, [Next]_vars
  PROVE  Undisturbed'
<1>0. /\ run \in RunType /\ bar["run"] \in BarType /\ CellOK(bar["run"])
  BY CellTypes DEF Types, BarTyped
<1>1. ASSUME touched' = TRUE PROVE Undisturbed'
  BY <1>1 DEF Undisturbed
<1>2. ASSUME touched' = touched, refused' = refused, UNCHANGED << log, records, bundles, goal >>,
             NEW r, NEW b, NEW d, run' = r, bar'["run"] = b, end' = d,
             ~touched /\ Standing => StandsOn(r, b, d)
      PROVE  Undisturbed'
  BY <1>2, StandingNow DEF Undisturbed
<1>3. CASE \/ \E t \in Tasks : StartDispatch(t)
           \/ \E passed \in BOOLEAN : CommitDispatch(passed)
           \/ PlaceRecord \/ PlaceBundle
  <2>1. UNCHANGED << end, touched, refused >>
    BY <1>3 DEF StartDispatch, CommitDispatch, PlaceRecord, PlaceBundle, history
  <2>2. end = NoEnd
    BY <1>3 DEF StartDispatch, CommitDispatch, PlaceRecord, PlaceBundle, Phases, Dispatching
  <2>3. run'.pc \notin { "judging", "ending", "publishing" }
    <3>1. \A t \in Tasks : StartDispatch(t) => run'.pc = "verifying"
      BY DEF StartDispatch, Idle
    <3>2. ASSUME NEW passed \in BOOLEAN, CommitDispatch(passed)
          PROVE  run'.pc \in { "record", "idle" }
      <4>1. run' = Idle \/ run' = [ run EXCEPT !.pc = "record", !.passed = passed ]
        BY <3>2 DEF CommitDispatch
      <4> QED BY <1>0, <4>1, IdleType DEF RunType
    <3>3. PlaceRecord => run'.pc = "bundle"
      BY <1>0 DEF PlaceRecord, RunGoto, RunType
    <3>4. PlaceBundle => run'.pc = "idle"
      BY IdleType DEF PlaceBundle
    <3> QED BY <1>3, <3>1, <3>2, <3>3, <3>4
  <2>4. Standing'
    BY <2>1, <2>2, <2>3, NothingStands
  <2> QED BY <2>1, <2>4 DEF Undisturbed
<1>4. CASE StartEnd
  <2> DEFINE cites == UNION { RecordsOf(t) : t \in LiveTasks }
             missing == \E t \in LiveTasks : RecordsOf(t) = {}
  <2>0. PICK n : n = [ Idle EXCEPT !.pc = IF missing THEN "ending" ELSE "judging",
                                   !.n = Len(log), !.cites = cites, !.mode = "weak" ]
    OBVIOUS
  <2>1. /\ n.pc = IF missing THEN "ending" ELSE "judging"
        /\ n.cites = cites /\ n.mode = "weak"
    <3>1. Idle \in RunType
      BY IdleType
    <3> HIDE DEF cites, missing, Idle
    <3> QED BY <2>0, <3>1 DEF RunType
  <2>2. /\ run' = n /\ end = NoEnd /\ UNCHANGED << log, records, bundles, goal, end, refused >>
    BY <1>4, <2>0 DEF StartEnd, disk
  <2>3. ~refused
    BY <2>2 DEF Phases
  <2>4. NoEnd.mode = "none"
    BY DEF NoEnd
  <2>5. PICK b : b = bar'["run"]
    OBVIOUS
  <2>6. StandsOn(n, b, NoEnd)
    <3>1. CASE missing
      BY <2>1, <2>4, <3>1 DEF StandsOn
    <3>2. CASE ~missing
      <4>1. StartBar("run", cites) /\ cites \in SUBSET Iterations
        BY <3>2, <1>4, CitedType DEF StartEnd, Types
      <4>2. b.pc = "bound" /\ b.todo = cites
        BY <4>1, <2>5, BarStarted
      <4> QED BY <2>1, <2>4, <3>2, <4>2 DEF StandsOn, Holding
    <3> QED BY <3>1, <3>2
  <2>7. Standing'
    BY <2>2, <2>5, <2>6, StandingNow
  <2> QED BY <2>2, <2>3, <2>7 DEF Undisturbed
<1>5. CASE Judged
  <2>1. PICK n : n = [ run EXCEPT !.pc = "ending",
                          !.mode = IF bar["run"].pc = "met" THEN "verified" ELSE "weak" ]
    OBVIOUS
  <2>2. /\ n.pc = "ending" /\ n.cites = run.cites
        /\ n.mode = IF bar["run"].pc = "met" THEN "verified" ELSE "weak"
    BY <2>1, <1>0 DEF RunType
  <2>3. /\ run' = n /\ end' = end /\ touched' = touched /\ refused' = refused
        /\ UNCHANGED << log, records, bundles, goal >> /\ run.pc = "judging"
    BY <1>5, <2>1 DEF Judged, disk, history
  <2>4. Standing => StandsOn(n, bar'["run"], end)
    <3>1. bar["run"].pc = "met" => bar["run"].todo = {}
      BY DEF Phases
    <3> QED BY <2>2, <2>3, <3>1 DEF Standing, StandsOn
  <2> QED BY <2>3, <2>4, <1>2
<1>6. CASE CommitEnd
  <2>1. /\ run' = Idle /\ bar' = bar /\ touched' = touched /\ refused' = refused
        /\ UNCHANGED << log, records, bundles, goal >> /\ run.pc = "ending"
    BY <1>6 DEF CommitEnd, disk, history
  <2>2. PICK d : d = end'
    OBVIOUS
  <2>3. d = end \/ (d.mode = run.mode /\ (run.mode = "verified" => d.cites = run.cites))
    BY <1>6, <2>2 DEF CommitEnd
  <2>4. Standing => StandsOn(Idle, bar["run"], d)
    BY <2>1, <2>3, IdleType DEF Standing, StandsOn
  <2> QED BY <2>1, <2>2, <2>4, <1>2
<1>7. CASE StartPublish
  <2>1. /\ UNCHANGED << log, records, bundles, goal, end >> /\ touched' = touched
        /\ refused' = refused /\ run.pc = "idle"
    BY <1>7 DEF StartPublish, disk, history
  <2>2. CASE end.mode = "weak"
    <3>1. run' = run /\ bar' = bar
      BY <1>7, <2>2 DEF StartPublish
    <3> QED BY <2>1, <3>1, <1>2 DEF Standing
  <2>3. CASE end.mode # "weak"
    <3>1. PICK n : n = [ run EXCEPT !.pc = "publishing" ]
      OBVIOUS
    <3>2. run' = n /\ n.pc = "publishing" /\ StartBar("run", end.cites)
      BY <3>1, <1>0, <1>7, <2>3 DEF StartPublish, RunGoto, RunType
    <3>3. PICK b : b = bar'["run"]
      OBVIOUS
    <3>4. b.pc = "bound" /\ b.todo = end.cites
      BY <3>2, <3>3, BarStarted DEF Types, EndTyped
    <3>5. Standing => StandsOn(n, b, end)
      BY <3>2, <3>4 DEF Standing, StandsOn, Holding
    <3> QED BY <2>1, <3>2, <3>3, <3>5, <1>2
  <2> QED BY <2>2, <2>3
<1>8. CASE Publish
  <2>1. /\ run' = Idle /\ touched' = touched /\ run.pc = "publishing"
        /\ UNCHANGED << log, records, bundles, goal, end >>
        /\ refused' = (refused \/ bar["run"].pc = "unmet")
    BY <1>8 DEF Publish, disk
  <2>2. PICK b : b = bar'["run"]
    OBVIOUS
  <2>3. Standing => StandsOn(Idle, b, end) /\ bar["run"].pc # "unmet"
    BY <2>1, IdleType DEF Standing, StandsOn
  <2>4. ~touched => Standing' /\ ~refused'
    BY <2>1, <2>2, <2>3, StandingNow DEF Undisturbed
  <2> QED BY <2>1, <2>4 DEF Undisturbed
<1>9. CASE Crash
  <2>1. /\ run' = Idle /\ touched' = touched /\ refused' = refused
        /\ UNCHANGED << log, records, bundles, goal, end >>
    BY <1>9 DEF Crash, disk
  <2>2. PICK b : b = bar'["run"]
    OBVIOUS
  <2>3. Standing => StandsOn(Idle, b, end)
    BY IdleType DEF Standing, StandsOn
  <2> QED BY <2>1, <2>2, <2>3, <1>2
<1>10. CASE Bar("run")
  <2>1. /\ UNCHANGED << log, records, bundles, goal, end, run >>
        /\ touched' = touched /\ refused' = refused
    BY <1>10 DEF Bar, ReadBound, ReadRecord, HashBundle, JudgeBundle, CompareGoal, FinishBar,
                 BarUnchanged, disk, history
  <2>2. PICK c : /\ bar' = [ bar EXCEPT !["run"] = c ]
                 /\ RunCell(bar["run"], Entry("run"), c)
    BY <1>10, CellTypes, RunBar
  <2>3. bar'["run"] = c
    BY <2>2, CellTypes
  <2>4. /\ RunCell(bar["run"], EntryOf(bar["run"].todo), c)
        /\ bar["run"].todo # {} => EntryOf(bar["run"].todo) \in bar["run"].todo
    <3>1. Entry("run") = EntryOf(bar["run"].todo)
      BY EntryIs DEF Readers
    <3>2. bar["run"].todo \in SUBSET Iterations
      BY <1>0 DEF BarType
    <3> QED BY <2>2, <3>1, <3>2, EntryPending
  <2>5. run.pc \in { "judging", "publishing" }
    <3>1. bar["run"].pc # "off"
      BY <1>0, <2>4, RunCellPhase
    <3> QED BY <3>1 DEF Phases
  <2>6. run.pc = "publishing" => end.mode = "verified"
    BY DEF Phases
  <2>7. Standing => StandsOn(run, c, end)
    BY <1>0, <2>4, <2>5, <2>6, CellStands DEF Standing
  <2> QED BY <2>1, <2>3, <2>7, <1>2
<1>11. CASE Bar("verdict") \/ StartVerdict \/ ProjectDigest \/ UNCHANGED vars
  <2>1. /\ UNCHANGED << log, records, bundles, goal, end, run >>
        /\ touched' = touched /\ refused' = refused
    BY <1>11 DEF Bar, ReadBound, ReadRecord, HashBundle, JudgeBundle, CompareGoal, FinishBar,
                 BarUnchanged, StartVerdict, ProjectDigest, vars, disk, history
  <2>2. bar'["run"] = bar["run"]
    <3>1. CASE Bar("verdict")
      <4>1. PICK c : bar' = [ bar EXCEPT !["verdict"] = c ]
        BY <3>1, CellTypes, VerdictBar
      <4> QED BY <4>1, CellTypes
    <3>2. CASE StartVerdict \/ ProjectDigest \/ UNCHANGED vars
      BY <3>2, CellTypes DEF StartVerdict, StartBar, ProjectDigest, vars
    <3> QED BY <3>1, <3>2, <1>11
  <2> QED BY <2>1, <2>2, <1>2 DEF Standing
<1>12. CASE Outside
  <2>1. touched' = TRUE
    BY <1>12 DEF Outside, RewriteRecord, RewriteBundle, Rebind, MoveGoal, Change
  <2> QED BY <2>1, <1>1
<1> QED BY <1>3, <1>4, <1>5, <1>6, <1>7, <1>8, <1>9, <1>10, <1>11, <1>12 DEF Next, Run, Readers

-----------------------------------------------------------------------------
(* Theorems.                                                                 *)

LEMMA Invariant == Spec => []IInv
<1>1. Init => IInv
  BY TypesInit, PhasesInit, ConclusionInit, ProjectionInit, UndisturbedInit DEF IInv
<1>2. IInv /\ [Next]_vars => IInv'
  BY TypesNext, PhasesNext, ConclusionNext, VerifiedEndNext, ProjectionNext, UndisturbedNext
     DEF IInv
<1> QED BY <1>1, <1>2, PTL DEF Spec

\* Evidence's type invariant holds in every state: the variables keep their
\* types, the end stands at most at the end of the log, and a reader judges an
\* entry only when it holds a record.
THEOREM EvidenceTypeCorrect == Spec => []TypeOK
<1>1. IInv => TypeOK
  <2> SUFFICES ASSUME IInv PROVE TypeOK
    OBVIOUS
  <2>1. \A p \in Readers :
          /\ bar[p].todo \subseteq Iterations /\ bar[p].upto <= Len(log)
          /\ bar[p].pc \in Holding => bar[p].todo # {} /\ IsRecord(bar[p].blob)
    <3>1. \A p \in Readers : bar[p] \in BarType /\ CellOK(bar[p])
      BY DEF IInv, Types, BarTyped
    <3> QED BY <3>1 DEF BarType, CellOK, IsRecord
  <2>2. run.pc \in { "record", "bundle" } => run.iter \in Iterations
    BY DEF IInv, Types, RunTyped, Dispatching
  <2> QED BY <2>1, <2>2 DEF IInv, Types, EndTyped, FilesTyped, TypeOK, Modes, Holding
<1> QED BY <1>1, Invariant, PTL

\* A committed end that declares verified evidence is backed by the log it was
\* appended to (runner's bar before terminal_written): every record it cites was
\* bound there at one digest, with a bundle that passed, however the files and
\* the log changed while the bar was evaluated.
THEOREM EvidenceEndBacked == Spec => []VerifiedEndBacked
<1>1. IInv => VerifiedEndBacked
  BY DEF IInv
<1> QED BY <1>1, Invariant, PTL

\* A verdict carries only digests the chain committed, each as the only one of a
\* cited record, of a bundle that passed (verdict.py's second read of a record,
\* compared to bound_artifact_digests).
THEOREM EvidenceDigestsCommitted == Spec => []VerdictDigestsCommitted
<1>1. IInv => VerdictDigestsCommitted
  BY DEF IInv, Projection, ProjectsOn, BoundIn, VerdictDigestsCommitted, Bound
<1> QED BY <1>1, Invariant, PTL

\* What meets the writer's bar is not reported by doctor as mismatched, missing,
\* stale or an orphan, on any tree of records and bundles.
THEOREM EvidenceViewsAgree == Spec => []ViewsAgree
<1>1. IInv => ViewsAgree
  <2> SUFFICES ASSUME IInv, NEW i \in Iterations, StrictBar(i)
               PROVE  ~(BoundMismatch(i) \/ HashMismatch(i) \/ PolicyMismatch(i) \/ OrphanBundle(i))
    BY DEF ViewsAgree
  <2>1. ~BoundMismatch(i)
    <3> SUFFICES ASSUME NEW k \in DOMAIN log, log[k].iter = i
                 PROVE  records[i] = log[k].record
      BY DEF BoundMismatch
    <3>1. k \in 1 .. Len(log)
      BY DEF IInv, Types
    <3>2. log[k].record \in Bound(Len(log), i)
      BY <3>1 DEF Bound
    <3> QED BY <3>2 DEF StrictBar, BoundOnceAt
  <2>2. ~HashMismatch(i) /\ ~PolicyMismatch(i)
    BY DEF StrictBar, HashMismatch, PolicyMismatch
  <2>3. ~OrphanBundle(i)
    BY AbsentAssumption DEF StrictBar, IsRecord, OrphanBundle
  <2> QED BY <2>1, <2>2, <2>3
<1> QED BY <1>1, Invariant, PTL

\* terminate refuses the end its own runner committed only when a file, a
\* goalpost or the log changed from outside after the runner began to conclude.
THEOREM EvidenceSeamClosed == Spec => []SeamClosed
<1>1. IInv => SeamClosed
  BY DEF IInv, Undisturbed, SeamClosed
<1> QED BY <1>1, Invariant, PTL
=============================================================================
