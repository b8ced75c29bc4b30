----------------------------- MODULE PureProofs -----------------------------
(* What the functions without state promise for every input: the projection  *)
(* of an external engine's outcome, the scorecard, the gate job that checks   *)
(* a carried anchor, and the search for a cycle in a plan.                    *)
EXTENDS Metrics, Attest, PlanLint, SequenceTheorems, FiniteSetTheorems,
        WellFoundedInduction, TLAPS

-----------------------------------------------------------------------------
(* What a projected verdict promises, for every outcome of the engine,       *)
(* every gate result, every diff and every criteria map.                     *)

Policies == CompletionModes \cup {UnknownMode, None}

\* What the projection asks for before it says Succeeded.
Earned(outcome, gate, scan, kinds, policy) ==
  /\ ~outcome.abort /\ ~outcome.error /\ ~outcome.budget /\ outcome.reachedEnd
  /\ gate.verdict = "Succeeded" /\ ~gate.falseCompletion /\ ValidGate(gate)
  /\ scan.downgrade = None
  /\ Criteria(kinds) = "met" /\ policy # UnknownMode
  /\ outcome.artifacts # << >>
  /\ Normalized(policy) = VerifiedEvidence => RecordShaped(Cited(outcome))

LEMMA SuccessMeans ==
  ASSUME NEW outcome, NEW gate, NEW scan, NEW kinds, NEW policy,
         ResultState(outcome, gate, scan, kinds, policy) = "Succeeded"
  PROVE  Earned(outcome, gate, scan, kinds, policy)
  BY Zenon DEF ResultState, Earned

LEMMA ResultIsTerminal ==
  ASSUME NEW outcome, NEW gate, NEW scan, NEW kinds, NEW policy
  PROVE  ResultState(outcome, gate, scan, kinds, policy) \in TerminalStates
  BY DEF ResultState, TerminalStates

LEMMA CitedSome ==
  ASSUME NEW outcome \in EngineOutcomes, outcome.artifacts # << >>
  PROVE  Cited(outcome) # {}
  <1>1. outcome.artifacts \in Seq(Nat \cup {Blank})
    BY DEF EngineOutcomes
  <1>2. 1 \in DOMAIN outcome.artifacts
    BY <1>1
  <1> QED
    BY <1>2 DEF Cited

\* A projected verdict always passes the gate the reducer holds every terminal
\* event to, though integrations.py and reducer.py state it separately: a run
\* of a host engine that is certified is never a run that does not replay.
THEOREM ProjectionAdmissible ==
  ASSUME NEW outcome \in EngineOutcomes, NEW gate \in GateResults,
         NEW scan \in ScanResults, NEW kinds \in SUBSET CriterionKinds,
         NEW policy \in Policies
  PROVE  VerdictAdmissible(ToTerminalState(outcome, gate, scan, kinds, policy))
  <1> DEFINE v == ToTerminalState(outcome, gate, scan, kinds, policy)
  <1>1. /\ v.result = ResultState(outcome, gate, scan, kinds, policy)
        /\ v.criteria = Criteria(kinds) /\ v.evidence = Cited(outcome)
        /\ v.policy = Normalized(policy) /\ v.falseCompletion = gate.falseCompletion
    BY DEF ToTerminalState
  <1>2. Normalized(policy) \in CompletionModes
    BY DEF Normalized, CompletionModes
  <1> HIDE DEF v
  <1>3. v.result = "Succeeded" => SatisfiesCompletion(v)
    <2> SUFFICES ASSUME v.result = "Succeeded"
                 PROVE  SatisfiesCompletion(v)
      OBVIOUS
    <2>1. Earned(outcome, gate, scan, kinds, policy)
      BY <1>1, SuccessMeans
    <2>2. Cited(outcome) # {}
      BY <2>1, CitedSome DEF Earned
    <2>3. ~v.falseCompletion
      BY <1>1, <2>1, Zenon DEF Earned
    <2> QED
      BY <1>1, <1>2, <2>1, <2>2, <2>3 DEF Earned, SatisfiesCompletion
  <1> QED
    BY <1>1, <1>3, ResultIsTerminal DEF VerdictAdmissible, v

\* A gate that ran says Succeeded exactly when both sets are there and green,
\* and flags a false completion exactly when only the withheld set is red.
THEOREM DecideSound ==
  ASSUME NEW visible \in Seq(CheckResults), NEW holdout \in Seq(CheckResults)
  PROVE  LET gate == Decide(visible, holdout) IN
         /\ (gate.verdict = "Succeeded") <=> (Green(visible) /\ Green(holdout))
         /\ (gate.verdict = "FailedUnverifiable") <=> gate.falseCompletion
         /\ gate.falseCompletion => ~Green(holdout)
  <1> DEFINE gate == Decide(visible, holdout)
  <1>1. Green(holdout) => holdout # << >>
    BY DEF Green
  <1>2. gate.falseCompletion = (Green(visible) /\ holdout # << >> /\ ~Green(holdout))
    BY DEF Decide
  <1>3. gate.verdict = IF ~Green(visible) \/ holdout = << >> THEN NotReady
                       ELSE IF Green(holdout) THEN "Succeeded" ELSE "FailedUnverifiable"
    BY DEF Decide
  <1>4. NotReady # "Succeeded" /\ NotReady # "FailedUnverifiable"
    BY DEF NotReady
  <1> HIDE DEF gate
  <1>5. (gate.verdict = "Succeeded") <=> (Green(visible) /\ Green(holdout))
    BY <1>1, <1>3, <1>4
  <1>6. (gate.verdict = "FailedUnverifiable") <=> gate.falseCompletion
    <2>1. (gate.verdict = "FailedUnverifiable") <=>
            (Green(visible) /\ holdout # << >> /\ ~Green(holdout))
      BY <1>3, <1>4
    <2> QED
      BY <1>2, <2>1, Zenon
  <1>7. gate.falseCompletion => ~Green(holdout)
    BY <1>2, Zenon
  <1> QED
    BY <1>5, <1>6, <1>7 DEF gate

\* A path of a section is a changed file.
LEMMA ChangedMember ==
  ASSUME NEW diff, NEW d \in Range(diff), NEW p \in PathsOf(d), p # DevNull
  PROVE  p \in ChangedFiles(diff)
  <1>1. PathsOf(d) \in { PathsOf(e) : e \in Range(diff) }
    OBVIOUS
  <1>2. p \in UNION { PathsOf(e) : e \in Range(diff) }
    BY <1>1
  <1> QED
    BY <1>2 DEF ChangedFiles

\* From the checks and the diff to the verdict: Succeeded means that every
\* visible and every withheld check passed, that no gate file was changed,
\* deleted or renamed, that no code of the scanner was, and that no answer was
\* read.  The three programs hand each other objects; this is about all three.
THEOREM SuccessIsEarned ==
  ASSUME NEW outcome \in EngineOutcomes, NEW kinds \in SUBSET CriterionKinds,
         NEW policy \in Policies, NEW diff \in Seq(Sections), NEW readAnswers \in BOOLEAN,
         NEW visible \in Seq(CheckResults), NEW holdout \in Seq(CheckResults),
         ResultState(outcome, Decide(visible, holdout),
                     Scan(diff, ChangedFiles(diff), readAnswers), kinds, policy) = "Succeeded"
  PROVE  /\ Green(visible) /\ Green(holdout)
         /\ \A d \in Range(diff) : d.headers => ~IsGate(Target(d))
         /\ \A d \in Range(diff) : d.renamed => ~IsGate(d.from) /\ ~IsGate(d.to)
         /\ \A d \in SelfEdits(diff) : ~d.code
         /\ ~readAnswers
  <1> DEFINE gate == Decide(visible, holdout)
             files == ChangedFiles(diff)
             found == Severities(diff, files, readAnswers)
             scan == Scan(diff, files, readAnswers)
  <1>1. Earned(outcome, gate, scan, kinds, policy)
    BY SuccessMeans
  <1>2. Green(visible) /\ Green(holdout)
    BY <1>1, DecideSound DEF Earned
  <1>3. "critical" \notin found /\ "high" \notin found
    BY <1>1 DEF Earned, Scan, Downgrade, None
  <1> HIDE DEF gate, scan, found
  <1>4. \A f \in files : ~IsGate(f)
    BY <1>3 DEF found, Severities, PathSeverities
  <1>5. \A d \in SelfEdits(diff) : ~d.code
    BY <1>3 DEF found, Severities
  <1>6. ~readAnswers
    BY <1>3 DEF found, Severities
  <1>7. \A f : IsGate(f) => f # DevNull
    BY DEF IsGate, DevNull
  <1>8. ASSUME NEW d \in Range(diff)
        PROVE  /\ d.headers /\ Target(d) # DevNull => Target(d) \in files
               /\ d.renamed /\ d.from # DevNull => d.from \in files
               /\ d.renamed /\ d.to # DevNull => d.to \in files
    <2>1. /\ d.headers => Target(d) \in PathsOf(d)
          /\ d.renamed => d.from \in PathsOf(d) /\ d.to \in PathsOf(d)
      BY DEF PathsOf
    <2>2. \A p \in PathsOf(d) : p # DevNull => p \in files
      BY ChangedMember
    <2> HIDE DEF files
    <2> QED
      BY <2>1, <2>2
  <1> HIDE DEF files
  <1>9. /\ \A d \in Range(diff) : d.headers => ~IsGate(Target(d))
        /\ \A d \in Range(diff) : d.renamed => ~IsGate(d.from) /\ ~IsGate(d.to)
    BY <1>4, <1>7, <1>8
  <1> QED
    BY <1>2, <1>5, <1>6, <1>9

-----------------------------------------------------------------------------
(* What the scorecard's numbers can be relied on for, in every workspace.    *)

(* A further red bundle.                                                     *)

WithBundle(w, b) == [ w EXCEPT !.bundles = @ \cup {b} ]

Workspaces ==
  [ blocks : Seq(Blocks), bundles : SUBSET Bundles,
    terminal : [ succeeded : BOOLEAN, iter : Nat \ {0}, cites : SUBSET Nat ],
    gates : Seq(GateResults), repairs : Seq(Repairs), costs : Seq(Nat),
    gateScript : BOOLEAN, gateLine : BOOLEAN ]

LEMMA SameButBundles ==
  ASSUME NEW w \in Workspaces, NEW r \in Bundles, NEW iter
  PROVE  /\ WithBundle(w, r).blocks = w.blocks
         /\ WithBundle(w, r).terminal = w.terminal
         /\ WithBundle(w, r).bundles = w.bundles \cup {r}
         /\ Order(WithBundle(w, r), iter) = Order(w, iter)
         /\ \A b : Assigned(WithBundle(w, r), b) = Assigned(w, b)
         /\ CompletionIters(WithBundle(w, r)) = CompletionIters(w)
         /\ ClaimIters(WithBundle(w, r)) = ClaimIters(w)
  <1> DEFINE x == WithBundle(w, r)
  <1>1. x.blocks = w.blocks /\ x.terminal = w.terminal /\ x.bundles = w.bundles \cup {r}
    BY DEF WithBundle, Workspaces
  <1> HIDE DEF x
  <1>2. \A i : Order(x, i) = Order(w, i)
    BY <1>1 DEF Order
  <1>4. ASSUME NEW b
        PROVE  Assigned(x, b) = Assigned(w, b)
    <2>1. Naming(x, b) = Naming(w, b)
      BY <1>1, <1>2 DEF Naming
    <2> QED
      BY <1>1, <2>1 DEF Assigned
  <1>5. CompletionIters(x) = CompletionIters(w)
    BY <1>1 DEF CompletionIters
  <1>6. ClaimIters(x) = ClaimIters(w)
    BY <1>1, <1>5 DEF ClaimIters
  <1> QED
    BY <1>1, <1>2, <1>4, <1>5, <1>6 DEF x

LEMMA AttachedGrows ==
  ASSUME NEW w \in Workspaces, NEW r \in Bundles, ~r.green, NEW iter
  PROVE  /\ Attached(w, iter) \subseteq Attached(WithBundle(w, r), iter)
         /\ \A b \in Attached(WithBundle(w, r), iter) : b.green => b \in Attached(w, iter)
  BY SameButBundles DEF Attached, Counted

\* A red bundle more never makes a false completion look clean: leaving a
\* failed verification out of the workspace is the only way its absence helps.
THEOREM RedBundleNeverHelps ==
  ASSUME NEW w \in Workspaces, NEW r \in Bundles, ~r.green
  PROVE  FalseCompletions(w) \subseteq FalseCompletions(WithBundle(w, r))
  <1> DEFINE x == WithBundle(w, r)
  <1>1. \A t : GreenOrders(x, t) \subseteq GreenOrders(w, t)
    BY SameButBundles, AttachedGrows DEF GreenOrders
  <1>2. ASSUME NEW iter, ClaimIsClean(x, iter)
        PROVE  ClaimIsClean(w, iter)
    <2>1. /\ Attached(w, iter) \subseteq Attached(x, iter)
          /\ \A b \in Attached(x, iter) : b.green => b \in Attached(w, iter)
      BY AttachedGrows
    <2>2. \A b : Excused(x, iter, b) => Excused(w, iter, b)
      BY <1>1, SameButBundles DEF Excused
    <2>3. CompletionIters(x) = CompletionIters(w)
      BY SameButBundles
    <2> HIDE DEF x
    <2>4. CASE iter \in CompletionIters(w)
      <3>1. Attached(x, iter) # {} /\ \A b \in Attached(x, iter) : b.green
        BY <1>2, <2>3, <2>4 DEF ClaimIsClean
      <3> QED
        BY <2>1, <2>4, <3>1 DEF ClaimIsClean
    <2>5. CASE iter \notin CompletionIters(w)
      <3>1. /\ \E b \in Attached(x, iter) : b.green
            /\ \A b \in Attached(x, iter) : b.green \/ Excused(x, iter, b)
        BY <1>2, <2>3, <2>5 DEF ClaimIsClean
      <3> QED
        BY <2>1, <2>2, <2>5, <3>1 DEF ClaimIsClean
    <2> QED
      BY <2>4, <2>5
  <1>3. ClaimIters(x) = ClaimIters(w)
    BY SameButBundles
  <1> HIDE DEF x
  <1> QED
    BY <1>2, <1>3 DEF FalseCompletions, x

-----------------------------------------------------------------------------
(* Excuses.                                                                  *)

OneBlockEach(w) ==
  \A i, j \in DOMAIN w.blocks : w.blocks[i].iter = w.blocks[j].iter => i = j

LEMMA OrderOfBlock ==
  ASSUME NEW w \in Workspaces, OneBlockEach(w), NEW i \in DOMAIN w.blocks
  PROVE  Order(w, w.blocks[i].iter) = i
  <1> DEFINE at == { k \in DOMAIN w.blocks : w.blocks[k].iter = w.blocks[i].iter }
  <1>1. at = {i}
    BY DEF OneBlockEach
  <1>2. Order(w, w.blocks[i].iter) =
          IF at = {} THEN 0 ELSE CHOOSE k \in at : \A j \in at : j <= k
    BY DEF Order
  <1>3. i \in Nat
    BY DEF Workspaces
  <1> HIDE DEF at
  <1>4. \E k \in at : \A j \in at : j <= k
    BY <1>1, <1>3
  <1>5. (CHOOSE k \in at : \A j \in at : j <= k) \in at
    BY <1>4
  <1> QED
    BY <1>1, <1>2, <1>5

\* When the RUNLOG holds each iteration once, a progress claim that is clean in
\* spite of a red bundle is followed by a block whose iteration has a green
\* bundle of the same task: an earlier green, or another task's, never will do.
THEOREM ExcusedByLaterGreen ==
  ASSUME NEW w \in Workspaces, OneBlockEach(w), NEW p \in DOMAIN w.blocks,
         ClaimIsClean(w, w.blocks[p].iter),
         NEW red \in Attached(w, w.blocks[p].iter), ~red.green
  PROVE  \E q \in DOMAIN w.blocks : \E b \in Attached(w, w.blocks[q].iter) :
           q > p /\ b.green /\ b.task = red.task
  <1>1. Excused(w, w.blocks[p].iter, red)
    BY DEF ClaimIsClean
  <1>2. PICK q \in GreenOrders(w, red.task) : q > p
    BY <1>1, OrderOfBlock DEF Excused
  <1> QED
    BY <1>2 DEF GreenOrders

-----------------------------------------------------------------------------
(* Held-out verdicts and publication.                                        *)

\* A verdict counted by the scorecard flags a false completion exactly when the
\* gate, run on the same check results, would: a flag typed by hand that its
\* checks do not bear out is never counted.
THEOREM VerdictsRederived ==
  ASSUME NEW gate \in GateResults, ValidVerdict(gate)
  PROVE  gate.falseCompletion <=> Decide(gate.visible, gate.holdout).falseCompletion
  <1>1. gate.visible # << >> /\ gate.holdout # << >>
    BY DEF ValidVerdict, ValidGate, ValidChecks
  <1>2. gate.falseCompletion <=> (Green(gate.visible) /\ ~Green(gate.holdout))
    BY <1>1, Zenon DEF ValidVerdict, Green
  <1>3. Decide(gate.visible, gate.holdout).falseCompletion =
          (Green(gate.visible) /\ gate.holdout # << >> /\ ~Green(gate.holdout))
    BY DEF Decide
  <1> QED
    BY <1>1, <1>2, <1>3, Zenon

\* A published baseline is backed: some held-out verdict counts, some success
\* is claimed, and every productive repair rests on a red and a green bundle of
\* one task whose scores rose, neither of them handed in by the caller.
THEOREM BaselineBacked ==
  ASSUME NEW w \in Workspaces, BaselineOk(w)
  PROVE  /\ HeldOut(w) # {} /\ ClaimIters(w) # {}
         /\ \A i \in Productive(w) : \E red, green \in w.bundles :
              /\ ~red.green /\ green.green /\ red.task = green.task
              /\ green.score > red.score
              /\ ~red.injected /\ ~green.injected
  <1>1. HeldOut(w) # {} /\ ClaimIters(w) # {}
    BY DEF BaselineOk
  <1>2. ASSUME NEW i \in Productive(w)
        PROVE  \E red, green \in w.bundles :
                 /\ ~red.green /\ green.green /\ red.task = green.task
                 /\ green.score > red.score
                 /\ ~red.injected /\ ~green.injected
    <2> DEFINE r == w.repairs[i]
    <2>1. /\ i \in DOMAIN w.repairs /\ i \in Validated(w) /\ Expected(r)
          /\ w.repairs \in Seq(Repairs)
      BY DEF Productive, Validated, Workspaces
    <2>2. Anchor(w, r) # "unanchored" /\ Anchor(w, r) # "rejected"
      BY <2>1 DEF BaselineOk, Unanchored, Validated, Rejected
    <2>3. PICK red \in Scored(w), green \in Scored(w) : Corroborates(w, red, green, r)
      BY <2>2 DEF Anchor
    <2>4. red \in w.bundles /\ green \in w.bundles /\ ~red.injected /\ ~green.injected
      BY <2>3 DEF Scored, Counted
    <2>5. r \in Repairs /\ red \in Bundles /\ green \in Bundles
          /\ red.score # NoScore /\ green.score # NoScore
      BY <2>1, <2>3 DEF Workspaces, Scored, Counted
    <2>6. ~red.green /\ green.green /\ red.task = green.task
          /\ red.score = r.before /\ green.score = r.after
      BY <2>3 DEF Corroborates
    <2>7. IsRepair(r)
      BY <2>5, <2>6 DEF IsRepair, Bundles, NoScore, NoObject
    <2>8. green.score > red.score
      BY <2>1, <2>6, <2>7 DEF Expected
    <2> QED
      BY <2>4, <2>6, <2>8
  <1> QED
    BY <1>1, <1>2

-----------------------------------------------------------------------------
(* What the gate job's checks amount to together, for every workspace, every *)
(* input and every answer of the attestation index.                          *)

\* Read with and without jsonschema, an anchor that writes no field as null is
\* judged alike where it matters: what the structural checks let through, the
\* schema does.
THEOREM StructuralLegCovers ==
  ASSUME NEW a \in Anchors, StructuralOk(a), a.sequence # "null",
         \A f \in StringFields : a.strings[f] # "null"
  PROVE  SchemaOk(a)
  <1>1. \A f \in StringFields : a.strings[f] \in {"absent", "fits"}
    BY DEF StructuralOk
  <1> QED
    BY <1>1 DEF StructuralOk, SchemaOk

\* The resolve step is green for one answer of the index only: gh ran, exited
\* 0, and its result carries a witnessed certificate whose signer, repository,
\* runner and trigger are the pinned ones.  Whatever else happened, in whatever
\* words it was reported, the step fails.
THEOREM ResolveGreenMeansSigned ==
  ASSUME NEW gh, NEW pinned, NEW file, NEW jsonschema, NEW workflow, NEW repository,
         Resolve(gh, pinned, file, jsonschema, workflow, repository).exit = 0
  PROVE  /\ pinned /\ ReadAnchor(file, jsonschema) = "ok"
         /\ gh.started /\ gh.exit = 0 /\ gh.wellShaped /\ Certified(gh.result)
         /\ IdentityAgrees(gh.result.signer, workflow)
         /\ IdentityAgrees(gh.result.repository, repository)
         /\ gh.result.hosted /\ Trigger(gh.result) = "push"
         /\ gh.result.predicate # Nothing
  <1>1. pinned /\ ReadAnchor(file, jsonschema) = "ok"
    BY DEF Resolve
  <1>2. LookUp(gh, workflow, repository) = "corroborated"
    BY <1>1 DEF Resolve
  <1>3. gh.started /\ gh.exit = 0
    BY <1>2 DEF LookUp, ClassifyFailure
  <1>4. gh.wellShaped /\ Certified(gh.result)
    BY <1>2, <1>3 DEF LookUp
  <1>5. SignerIssues(gh.result, workflow, repository) = {}
    BY <1>2, <1>3, <1>4 DEF LookUp
  <1>6. gh.result.predicate # Nothing
    BY <1>2, <1>3, <1>4, <1>5 DEF LookUp
  <1>7. /\ IdentityAgrees(gh.result.signer, workflow)
        /\ IdentityAgrees(gh.result.repository, repository)
        /\ gh.result.hosted /\ Trigger(gh.result) = "push"
    BY <1>5 DEF SignerIssues
  <1> QED
    BY <1>1, <1>3, <1>4, <1>6, <1>7

\* A verdict made in one workspace and compared in another agrees exactly when
\* the two name the same run, head, terminal and evidence: what doctor says and
\* which version of the tool says it never enter.
THEOREM CompareDecides ==
  ASSUME NEW v, NEW w, w.terminalReadable, w.evidence # Malformed
  PROVE  (CompareExit(BuildVerdict(v), w) = 0) <=>
           /\ v.run = w.run /\ Current(v) = Current(w)
           /\ v.terminal = w.terminal /\ v.evidence = w.evidence
  <1> DEFINE a == BuildVerdict(v)
             b == BuildVerdict(w)
             facets == {"run", "head", "terminal", "evidence"}
  <1>1. /\ a["run"] = v.run /\ a["head"] = Current(v)
        /\ a["terminal"] = v.terminal /\ a["evidence"] = v.evidence
        /\ a.shape = "bare" /\ a.schema = TRUE
    BY DEF BuildVerdict
  <1>2. /\ b["run"] = w.run /\ b["head"] = Current(w)
        /\ b["terminal"] = w.terminal /\ b["evidence"] = w.evidence
    BY DEF BuildVerdict
  <1>3. Disagreements(a, w) =
          { f \in facets : a[f] # b[f] \/ (f = "evidence" /\ a["evidence"] = Malformed) }
    BY DEF Disagreements
  <1>4. CompareExit(a, w) = 0 <=> Disagreements(a, w) = {}
    BY <1>1 DEF CompareExit, RefusedDocument, NoTerminalRecord
  <1> HIDE DEF a, b
  <1>5. Disagreements(a, w) = {} <=>
          /\ a["run"] = b["run"] /\ a["head"] = b["head"]
          /\ a["terminal"] = b["terminal"] /\ a["evidence"] = b["evidence"]
          /\ a["evidence"] # Malformed
    BY <1>3
  <1> QED
    BY <1>1, <1>2, <1>4, <1>5 DEF a

\* A green job with a carried anchor vouches for the past: the anchored head
\* was a head of this chain, and when the predicate signed for it is the
\* verdict of a run v whose chain still ends there, v is this run.
THEOREM GreenJobVouches ==
  ASSUME NEW w, NEW inputs, NEW gh, JobPasses(w, inputs, gh), Resolves(inputs),
         w.terminalReadable, w.evidence # Malformed
  PROVE  /\ \E i \in DOMAIN w.heads : w.heads[i] = inputs.file.head
         /\ Certified(gh.result) /\ IdentityAgrees(gh.result.signer, inputs.workflow)
         /\ \A v : gh.result.predicate = BuildVerdict(v) /\ inputs.file.head = Current(w) =>
              v.run = w.run /\ v.terminal = w.terminal /\ v.evidence = w.evidence
  <1>1. AnchorStep(w, inputs, gh).exit = 0 /\ ComparePasses(w, inputs, gh)
    BY DEF JobPasses
  <1>2. \E i \in DOMAIN w.heads : w.heads[i] = inputs.file.head
    BY <1>1 DEF ComparePasses, WasHead
  <1>3. Certified(gh.result) /\ IdentityAgrees(gh.result.signer, inputs.workflow)
    BY <1>1, ResolveGreenMeansSigned DEF AnchorStep
  <1>4. ASSUME NEW v, gh.result.predicate = BuildVerdict(v), inputs.file.head = Current(w)
        PROVE  v.run = w.run /\ v.terminal = w.terminal /\ v.evidence = w.evidence
    <2>1. CompareExit(BuildVerdict(v), w) = 0
      BY <1>1, <1>4 DEF ComparePasses
    <2> QED
      BY <2>1, CompareDecides
  <1> QED
    BY <1>2, <1>3, <1>4

-----------------------------------------------------------------------------
(* The depth-first search of plan lint, by its invariant.                    *)

\* Gray nodes are the nodes on the stack, once each, every iterator between
\* the first edge and one past the last.
GrayOnStack(q) ==
  /\ \A i \in 1 .. Len(q.stack) :
       /\ q.color[q.stack[i].node] = "gray"
       /\ q.stack[i].at <= Len(Deps[q.stack[i].node]) + 1
  /\ \A i, j \in 1 .. Len(q.stack) : q.stack[i].node = q.stack[j].node => i = j
  /\ \A t \in Known : q.color[t] = "gray" => \E i \in 1 .. Len(q.stack) : q.stack[i].node = t

\* Each node on the stack is the edge its predecessor has just taken.
StackIsPath(q) ==
  \A i \in 1 .. Len(q.stack) - 1 :
    /\ q.stack[i].at > 1
    /\ Deps[q.stack[i].node][q.stack[i].at - 1] = q.stack[i + 1].node

\* The starts before next are not white.
StartsVisited(q) ==
  \A i \in 1 .. Len(Ids) : i < q.next => q.color[Ids[i]] # "white"

Supported(S) == \A t \in S : \E i \in DOMAIN Deps[t] : Deps[t][i] \in S

Black(q) == { t \in Known : q.color[t] = "black" }

\* The edges of a black node lead to black nodes, and so do the edges an
\* iterator has passed, the one the next node was reached by excepted.
BlackClosed(q) ==
  /\ \A t \in Black(q) : \A k \in DOMAIN Deps[t] :
       Deps[t][k] \in Known => Deps[t][k] \in Black(q)
  /\ \A i \in 1 .. Len(q.stack) : \A k \in DOMAIN Deps[q.stack[i].node] :
       /\ k < q.stack[i].at
       /\ Deps[q.stack[i].node][k] \in Known
       => \/ Deps[q.stack[i].node][k] \in Black(q)
          \/ i < Len(q.stack) /\ k = q.stack[i].at - 1

BlackAcyclic(q) == \A S \in SUBSET Black(q) : S # {} => ~Supported(S)

SearchInv(q) ==
  /\ q \in Searches
  /\ GrayOnStack(q)
  /\ StackIsPath(q)
  /\ StartsVisited(q)
  /\ q.cyclic = {} => BlackClosed(q) /\ BlackAcyclic(q)
  /\ q.cyclic # {} => HasCycle

-----------------------------------------------------------------------------
(* What the helpers on the stack return.                                     *)

LEMMA KnownNames == Known \subseteq Names /\ \A t \in Known : Deps[t] \in Seq(Names)
  BY PlanAssumption DEF Known

\* The stack without its top.
LEMMA UnderProperties ==
  ASSUME NEW q \in Searches, q.stack # << >>
  PROVE  /\ Len(q.stack) \in Nat \ {0}
         /\ Under(q) \in Seq(Frames)
         /\ Len(Under(q)) = Len(q.stack) - 1
         /\ \A i \in 1 .. Len(q.stack) - 1 : Under(q)[i] = q.stack[i]
         /\ Top(q) \in Frames
  <1>1. q.stack \in Seq(Frames)
    BY DEF Searches
  <1>2. Len(q.stack) \in Nat \ {0} /\ 1 <= Len(q.stack)
    BY <1>1, EmptySeq
  <1>3. \A i \in 1 .. Len(q.stack) - 1 : q.stack[i] \in Frames
    BY <1>1, <1>2
  <1> QED
    BY <1>1, <1>2, <1>3 DEF Under, Top

\* The stack with the top's iterator moved on.
LEMMA MovedProperties ==
  ASSUME NEW q \in Searches, q.stack # << >>
  PROVE  /\ Moved(q) \in Seq(Frames)
         /\ Len(Moved(q)) = Len(q.stack)
         /\ \A i \in 1 .. Len(q.stack) - 1 : Moved(q)[i] = q.stack[i]
         /\ Moved(q)[Len(q.stack)] = [ node |-> Top(q).node, at |-> Top(q).at + 1 ]
  <1>1. [ Top(q) EXCEPT !.at = @ + 1 ] = [ node |-> Top(q).node, at |-> Top(q).at + 1 ]
    BY UnderProperties DEF Frames
  <1>2. [ node |-> Top(q).node, at |-> Top(q).at + 1 ] \in Frames
    BY UnderProperties DEF Frames
  <1> QED
    BY <1>1, <1>2, UnderProperties DEF Moved

-----------------------------------------------------------------------------
(* Each kind of step preserves the invariant.                                *)

LEMMA FirstHolds == SearchInv(FirstSearch)
  <1>1. FirstSearch \in Searches
    BY DEF FirstSearch, Searches
  <1>2. Black(FirstSearch) = {}
    BY DEF FirstSearch, Black
  <1>3. /\ FirstSearch.next = 1 /\ FirstSearch.cyclic = {} /\ Len(FirstSearch.stack) = 0
        /\ \A t \in Known : FirstSearch.color[t] = "white"
    BY DEF FirstSearch
  <1>4. GrayOnStack(FirstSearch) /\ StackIsPath(FirstSearch)
    BY <1>3 DEF GrayOnStack, StackIsPath
  <1>5. StartsVisited(FirstSearch)
    BY <1>3, PlanAssumption DEF StartsVisited
  <1>6. BlackClosed(FirstSearch) /\ BlackAcyclic(FirstSearch)
    BY <1>2, <1>3 DEF BlackClosed, BlackAcyclic
  <1> QED
    BY <1>1, <1>3, <1>4, <1>5, <1>6 DEF SearchInv

LEMMA StartHolds ==
  ASSUME NEW q, SearchInv(q), q.stack = << >>, q.next <= Len(Ids)
  PROVE  SearchInv(StartAt(q))
  <1> DEFINE t == Ids[q.next]
             r == StartAt(q)
  <1>1. q \in Searches /\ q.next \in 1 .. Len(Ids) /\ Len(Ids) \in Nat /\ t \in Known
    BY PlanAssumption DEF SearchInv, Searches, Known
  <1>2. CASE q.color[t] # "white"
    <2>1. /\ r \in Searches /\ r.next = q.next + 1 /\ r.color = q.color
          /\ r.stack = q.stack /\ r.cyclic = q.cyclic
      BY <1>1, <1>2 DEF StartAt, Searches
    <2>2. StartsVisited(r)
      BY <1>1, <1>2, <2>1 DEF SearchInv, StartsVisited, Searches
    <2> HIDE DEF r
    <2> QED
      BY <2>1, <2>2 DEF SearchInv, GrayOnStack, StackIsPath, BlackClosed, BlackAcyclic, Black, r
  <1>3. CASE q.color[t] = "white"
    <2>1. /\ r.next = q.next + 1 /\ r.color = [ q.color EXCEPT ![t] = "gray" ]
          /\ r.stack = << Frame(t) >> /\ r.cyclic = q.cyclic
      BY <1>1, <1>3 DEF StartAt, Searches
    <2>2. r \in Searches
      <3>1. r = [ next |-> q.next + 1, color |-> [ q.color EXCEPT ![t] = "gray" ],
                  stack |-> << Frame(t) >>, cyclic |-> q.cyclic ]
        BY <1>1, <1>3 DEF StartAt, Searches
      <3>2. Frame(t) \in Frames
        BY <1>1 DEF Frame, Frames
      <3>3. << Frame(t) >> \in Seq(Frames)
        BY <3>2
      <3>4. [ q.color EXCEPT ![t] = "gray" ] \in [ Known -> {"white", "gray", "black"} ]
        BY <1>1 DEF Searches
      <3>5. q.next + 1 \in Nat \ {0} /\ q.cyclic \in SUBSET Known
        BY <1>1 DEF Searches
      <3> HIDE DEF r, t
      <3> QED
        BY <3>1, <3>3, <3>4, <3>5 DEF Searches
    <2>3. Len(r.stack) = 1 /\ r.stack[1] = [ node |-> t, at |-> 1 ]
      BY <2>1 DEF Frame
    <2>4. \A u \in Known : q.color[u] # "gray"
      BY DEF SearchInv, GrayOnStack
    <2>5. \A u \in Known : r.color[u] = IF u = t THEN "gray" ELSE q.color[u]
      BY <1>1, <2>1 DEF Searches
    <2>6. Black(r) = Black(q)
      BY <1>3, <2>5 DEF Black
    <2> HIDE DEF r
    <2>7. GrayOnStack(r)
      BY <1>1, <2>3, <2>4, <2>5, KnownNames DEF GrayOnStack
    <2>8. StackIsPath(r)
      BY <2>3 DEF StackIsPath
    <2>9. StartsVisited(r)
      <3> SUFFICES ASSUME NEW i \in 1 .. Len(Ids), i < q.next + 1
                   PROVE  r.color[Ids[i]] # "white"
        BY <2>1 DEF StartsVisited
      <3>1. Ids[i] \in Known
        BY DEF Known
      <3>2. i = q.next \/ i < q.next
        BY <1>1
      <3> QED
        BY <3>1, <3>2, <2>5 DEF SearchInv, StartsVisited
    <2>10. q.cyclic = {} => BlackClosed(r) /\ BlackAcyclic(r)
      BY <2>3, <2>6, <1>1, KnownNames DEF SearchInv, BlackClosed, BlackAcyclic
    <2> QED
      BY <2>1, <2>2, <2>7, <2>8, <2>9, <2>10 DEF SearchInv, r
  <1> QED
    BY <1>2, <1>3

\* Moving the top's iterator on changes nothing else.
LEMMA MovedTop ==
  ASSUME NEW q \in Searches, q.stack # << >>
  PROVE  /\ Moved(q) \in Seq(Frames)
         /\ Len(Moved(q)) = Len(q.stack)
         /\ \A i \in 1 .. Len(q.stack) - 1 : Moved(q)[i] = q.stack[i]
         /\ Moved(q)[Len(q.stack)].node = q.stack[Len(q.stack)].node
         /\ Moved(q)[Len(q.stack)].at = q.stack[Len(q.stack)].at + 1
  <1>1. Top(q) = q.stack[Len(q.stack)]
    BY DEF Top
  <1>2. /\ Moved(q)[Len(q.stack)].node = Top(q).node
        /\ Moved(q)[Len(q.stack)].at = Top(q).at + 1
    <2>1. Moved(q)[Len(q.stack)] = [ node |-> Top(q).node, at |-> Top(q).at + 1 ]
      BY MovedProperties
    <2> QED
      BY <2>1
  <1> QED
    BY <1>1, <1>2, MovedProperties

\* Every node on the stack is known, and its iterator is a position.
LEMMA StackProperties ==
  ASSUME NEW q, SearchInv(q), q.stack # << >>
  PROVE  /\ q \in Searches
         /\ Len(q.stack) \in Nat \ {0}
         /\ \A i \in 1 .. Len(q.stack) :
              /\ q.stack[i].node \in Known
              /\ q.stack[i].at \in Nat \ {0}
              /\ q.color[q.stack[i].node] = "gray"
              /\ Deps[q.stack[i].node] \in Seq(Names)
         /\ Top(q) = q.stack[Len(q.stack)]
         /\ Edges(q) = Deps[q.stack[Len(q.stack)].node]
  <1>1. q \in Searches /\ q.stack \in Seq(Frames)
    BY DEF SearchInv, Searches
  <1>2. Len(q.stack) \in Nat \ {0}
    BY <1>1, EmptySeq
  <1>3. \A i \in 1 .. Len(q.stack) : q.stack[i] \in Frames
    BY <1>1, <1>2
  <1>4. \A i \in 1 .. Len(q.stack) : q.color[q.stack[i].node] = "gray"
    BY DEF SearchInv, GrayOnStack
  <1> QED
    BY <1>1, <1>2, <1>3, <1>4, KnownNames DEF Frames, Top, Edges

LEMMA LeaveHolds ==
  ASSUME NEW q, SearchInv(q), q.stack # << >>, Top(q).at > Len(Edges(q))
  PROVE  SearchInv(Leave(q))
  <1> DEFINE L == Len(q.stack)
             n == q.stack[L].node
             r == Leave(q)
  <1>1. /\ q \in Searches /\ L \in Nat \ {0} /\ L \in 1 .. L /\ n \in Known
        /\ q.color[n] = "gray" /\ Deps[n] \in Seq(Names)
        /\ Top(q).node = n /\ q.stack[L].at > Len(Deps[n])
    BY StackProperties
  <1>2. /\ Under(q) \in Seq(Frames) /\ Len(Under(q)) = L - 1
        /\ \A i \in 1 .. L - 1 : Under(q)[i] = q.stack[i]
    BY <1>1, UnderProperties
  <1> HIDE DEF n, L
  <1>3. r = [ next |-> q.next, color |-> [ q.color EXCEPT ![n] = "black" ],
              stack |-> Under(q), cyclic |-> q.cyclic ]
    <2>1. r = [ q EXCEPT !.color[n] = "black", !.stack = Under(q) ]
      BY <1>1 DEF Leave, r
    <2>2. q \in Searches
      BY <1>1
    <2> HIDE DEF r
    <2> QED
      BY <2>1, <2>2 DEF Searches
  <1> HIDE DEF r
  <1>4. /\ r.next = q.next /\ r.cyclic = q.cyclic
        /\ r.stack = Under(q) /\ Len(r.stack) = L - 1
        /\ \A i \in 1 .. L - 1 : r.stack[i] = q.stack[i]
        /\ \A t \in Known : r.color[t] = IF t = n THEN "black" ELSE q.color[t]
    BY <1>1, <1>2, <1>3 DEF Searches
  <1>5. r \in Searches
    BY <1>1, <1>2, <1>3 DEF Searches
  <1>6. \A i \in 1 .. L - 1 :
          q.stack[i].node \in Known /\ q.stack[i].node # n /\ i \in 1 .. L
    BY SMTT(30), <1>1, StackProperties DEF SearchInv, GrayOnStack, L, n
  <1>7. GrayOnStack(r)
    <2>1. \A i \in 1 .. Len(r.stack) :
            /\ r.color[r.stack[i].node] = "gray"
            /\ r.stack[i].at <= Len(Deps[r.stack[i].node]) + 1
      <3> TAKE i \in 1 .. Len(r.stack)
      <3>1. i \in 1 .. L - 1 /\ i \in 1 .. L /\ r.stack[i] = q.stack[i]
        BY <1>1, <1>4
      <3>2. /\ q.color[q.stack[i].node] = "gray"
            /\ q.stack[i].at <= Len(Deps[q.stack[i].node]) + 1
        BY <3>1 DEF SearchInv, GrayOnStack, L
      <3> QED
        BY <1>4, <1>6, <3>1, <3>2
    <2>2. \A i, j \in 1 .. Len(r.stack) : r.stack[i].node = r.stack[j].node => i = j
      BY SMTT(30), <1>1, <1>4, <1>6 DEF SearchInv, GrayOnStack, L
    <2>3. ASSUME NEW t \in Known, r.color[t] = "gray"
          PROVE  \E i \in 1 .. Len(r.stack) : r.stack[i].node = t
      <3>1. t # n /\ q.color[t] = "gray"
        BY <1>4, <2>3
      <3>2. PICK i \in 1 .. L : q.stack[i].node = t
        BY <3>1 DEF SearchInv, GrayOnStack, L
      <3>3. i \in 1 .. L - 1
        BY <1>1, <3>1, <3>2 DEF n
      <3> QED
        BY <1>4, <3>2, <3>3
    <2> QED
      BY <2>1, <2>2, <2>3 DEF GrayOnStack
  <1>8. StackIsPath(r)
    <2>1. \A i \in 1 .. Len(r.stack) - 1 :
            i \in 1 .. L - 1 /\ i + 1 \in 1 .. L - 1
      BY <1>1, <1>4
    <2> QED
      BY <1>4, <2>1 DEF SearchInv, StackIsPath, L
  <1>9. StartsVisited(r)
    BY <1>4 DEF SearchInv, StartsVisited, Known
  <1>10. Black(r) = Black(q) \cup {n} /\ n \notin Black(q)
    BY <1>1, <1>4 DEF Black
  <1>11. ASSUME q.cyclic = {}
         PROVE  BlackClosed(r) /\ BlackAcyclic(r)
    <2>1. BlackClosed(q) /\ BlackAcyclic(q)
      BY <1>11 DEF SearchInv
    <2>2. \A k \in DOMAIN Deps[n] : Deps[n][k] \in Known => Deps[n][k] \in Black(q)
      <3> TAKE k \in DOMAIN Deps[n]
      <3>1. k < q.stack[L].at
        BY <1>1, StackProperties DEF L
      <3> QED
        BY <1>1, <2>1, <3>1 DEF BlackClosed, n, L
    <2>3. BlackClosed(r)
      <3>1. ASSUME NEW t \in Black(r), NEW k \in DOMAIN Deps[t], Deps[t][k] \in Known
            PROVE  Deps[t][k] \in Black(r)
        BY <1>10, <2>1, <2>2, <3>1 DEF BlackClosed
      <3>2. ASSUME NEW i \in 1 .. Len(r.stack), NEW k \in DOMAIN Deps[r.stack[i].node],
                   k < r.stack[i].at, Deps[r.stack[i].node][k] \in Known
            PROVE  \/ Deps[r.stack[i].node][k] \in Black(r)
                   \/ i < Len(r.stack) /\ k = r.stack[i].at - 1
        <4>1. i \in 1 .. L /\ i \in 1 .. L - 1 /\ r.stack[i] = q.stack[i]
          BY <1>1, <1>4
        <4>2. \/ Deps[q.stack[i].node][k] \in Black(q)
              \/ k = q.stack[i].at - 1
          BY <2>1, <3>2, <4>1 DEF BlackClosed, L
        <4>3. CASE i = L - 1 /\ k = q.stack[i].at - 1
          <5>1. Deps[q.stack[i].node][q.stack[i].at - 1] = q.stack[i + 1].node
            BY <4>1 DEF SearchInv, StackIsPath, L
          <5>2. Deps[q.stack[i].node][k] = n
            BY <1>1, <4>3, <5>1 DEF n
          <5> QED
            BY <1>10, <4>1, <5>2
        <4>4. CASE i # L - 1
          BY <1>1, <1>4, <1>10, <4>1, <4>2, <4>4
        <4> QED
          BY <1>10, <4>1, <4>2, <4>3, <4>4
      <3> QED
        BY <3>1, <3>2 DEF BlackClosed
    <2>4. ASSUME NEW S \in SUBSET Black(r), S # {}, Supported(S)
          PROVE  FALSE
      <3>1. S \subseteq Known /\ S \subseteq Black(q) \cup {n} /\ Black(q) \subseteq Known
        BY <1>10 DEF Black
      <3>2. CASE n \notin S
        BY <2>1, <2>4, <3>1, <3>2 DEF BlackAcyclic
      <3>3. CASE n \in S
        <4>1. S \ {n} # {}
          BY <1>10, <2>2, <2>4, <3>1, <3>3 DEF Supported
        <4>2. S \ {n} \in SUBSET Black(q)
          BY <3>1
        <4>3. ASSUME NEW t \in S \ {n}
              PROVE  \E i \in DOMAIN Deps[t] : Deps[t][i] \in S \ {n}
          <5>1. PICK i \in DOMAIN Deps[t] : Deps[t][i] \in S
            BY <2>4 DEF Supported
          <5>2. Deps[t][i] \in Black(q)
            BY <2>1, <3>1, <4>2, <5>1 DEF BlackClosed
          <5> QED
            BY <1>10, <5>1, <5>2
        <4>4. Supported(S \ {n})
          BY <4>3 DEF Supported
        <4> QED
          BY <2>1, <4>1, <4>2, <4>4 DEF BlackAcyclic
      <3> QED
        BY <3>2, <3>3
    <2> QED
      BY <2>3, <2>4 DEF BlackAcyclic
  <1>12. r.cyclic # {} => HasCycle
    BY <1>4 DEF SearchInv
  <1> QED
    BY <1>4, <1>5, <1>7, <1>8, <1>9, <1>11, <1>12 DEF SearchInv, r

\* What every way of taking the top's next edge has in common.
LEMMA MovedHolds ==
  ASSUME NEW q, SearchInv(q), q.stack # << >>, Top(q).at <= Len(Edges(q)),
         NEW r \in Searches, r.stack = Moved(q), r.color = q.color, r.next = q.next
  PROVE  GrayOnStack(r) /\ StackIsPath(r) /\ StartsVisited(r)
  <1> DEFINE L == Len(q.stack)
  <1>1. /\ q \in Searches /\ L \in Nat \ {0} /\ Top(q) = q.stack[L] /\ L \in 1 .. L
        /\ q.stack[L].at <= Len(Deps[q.stack[L].node])
        /\ \A i \in 1 .. L : q.stack[i].at \in Nat \ {0} /\ Deps[q.stack[i].node] \in Seq(Names)
    BY StackProperties
  <1>2. /\ Len(r.stack) = L
        /\ \A i \in 1 .. L - 1 : r.stack[i] = q.stack[i]
        /\ r.stack[L].node = q.stack[L].node /\ r.stack[L].at = q.stack[L].at + 1
    BY <1>1, MovedTop
  <1> HIDE DEF L
  <1>3. \A i \in 1 .. L :
          /\ r.stack[i].node = q.stack[i].node
          /\ i # L => i \in 1 .. L - 1 /\ r.stack[i].at = q.stack[i].at
    BY <1>1, <1>2
  <1>4. GrayOnStack(r)
    <2>1. \A i \in 1 .. Len(r.stack) :
            /\ r.color[r.stack[i].node] = "gray"
            /\ r.stack[i].at <= Len(Deps[r.stack[i].node]) + 1
      <3> TAKE i \in 1 .. Len(r.stack)
      <3>1. /\ q.color[q.stack[i].node] = "gray"
            /\ q.stack[i].at <= Len(Deps[q.stack[i].node]) + 1
        BY <1>2 DEF SearchInv, GrayOnStack, L
      <3>2. Len(Deps[q.stack[L].node]) \in Nat /\ q.stack[L].at \in Nat
        BY <1>1
      <3>3. i \in 1 .. L /\ r.stack[i].node = q.stack[i].node
        BY <1>2, <1>3
      <3>4. CASE i = L
        BY <1>1, <1>2, <3>1, <3>2, <3>3, <3>4
      <3>5. CASE i # L
        BY <1>3, <3>1, <3>3, <3>5
      <3> QED
        BY <3>4, <3>5
    <2> QED
      BY <1>2, <1>3, <2>1 DEF SearchInv, GrayOnStack, L
  <1>5. StackIsPath(r)
    <2> SUFFICES ASSUME NEW i \in 1 .. L - 1
                 PROVE  /\ r.stack[i].at > 1
                        /\ Deps[r.stack[i].node][r.stack[i].at - 1] = r.stack[i + 1].node
      BY <1>2 DEF StackIsPath
    <2>1. i \in 1 .. L /\ i + 1 \in 1 .. L /\ r.stack[i] = q.stack[i]
      BY <1>1, <1>2
    <2>2. /\ q.stack[i].at > 1
          /\ Deps[q.stack[i].node][q.stack[i].at - 1] = q.stack[i + 1].node
      BY DEF SearchInv, StackIsPath, L
    <2> QED
      BY <1>3, <2>1, <2>2
  <1> QED
    BY <1>4, <1>5 DEF SearchInv, StartsVisited

\* An edge to an unknown or a finished task.
LEMMA SkipHolds ==
  ASSUME NEW q, SearchInv(q), q.stack # << >>, Top(q).at <= Len(Edges(q)),
         Edges(q)[Top(q).at] \notin Known \/ q.color[Edges(q)[Top(q).at]] = "black"
  PROVE  SearchInv(Follow(q, Edges(q)[Top(q).at]))
  <1> DEFINE L == Len(q.stack)
             r == Follow(q, Edges(q)[Top(q).at])
  <1>1. /\ q \in Searches /\ L \in Nat \ {0} /\ Top(q) = q.stack[L] /\ L \in 1 .. L
        /\ \A i \in 1 .. L : q.stack[i].at \in Nat \ {0} /\ Deps[q.stack[i].node] \in Seq(Names)
    BY StackProperties
  <1>2. r = [ next |-> q.next, color |-> q.color, stack |-> Moved(q), cyclic |-> q.cyclic ]
    BY <1>1 DEF Follow, Searches
  <1> HIDE DEF r
  <1>3. r \in Searches
    BY <1>1, <1>2, MovedTop DEF Searches
  <1>4. GrayOnStack(r) /\ StackIsPath(r) /\ StartsVisited(r)
    BY <1>2, <1>3, MovedHolds
  <1>5. /\ Len(r.stack) = L
        /\ \A i \in 1 .. L - 1 : r.stack[i] = q.stack[i]
        /\ r.stack[L].node = q.stack[L].node /\ r.stack[L].at = q.stack[L].at + 1
    BY <1>1, <1>2, MovedTop
  <1>6. Black(r) = Black(q)
    BY <1>2 DEF Black
  <1>7. Deps[q.stack[L].node][q.stack[L].at] \in Known =>
          Deps[q.stack[L].node][q.stack[L].at] \in Black(q)
    BY <1>1, StackProperties DEF Black
  <1> HIDE DEF L
  <1>8. ASSUME q.cyclic = {}
        PROVE  BlackClosed(r) /\ BlackAcyclic(r)
    <2>1. BlackClosed(q) /\ BlackAcyclic(q)
      BY <1>8 DEF SearchInv
    <2>2. ASSUME NEW i \in 1 .. Len(r.stack), NEW k \in DOMAIN Deps[r.stack[i].node],
                 k < r.stack[i].at, Deps[r.stack[i].node][k] \in Known
          PROVE  \/ Deps[r.stack[i].node][k] \in Black(r)
                 \/ i < Len(r.stack) /\ k = r.stack[i].at - 1
      <3>1. CASE i # L
        <4>1. i \in 1 .. L /\ r.stack[i] = q.stack[i]
          BY <1>1, <1>5, <3>1
        <4> QED
          BY <1>5, <1>6, <2>1, <2>2, <4>1 DEF BlackClosed, L
      <3>2. CASE i = L /\ k = q.stack[L].at
        BY <1>5, <1>6, <1>7, <2>2, <3>2
      <3>3. CASE i = L /\ k # q.stack[L].at
        <4>1. k < q.stack[L].at /\ k \in DOMAIN Deps[q.stack[L].node]
          <5>1. k \in DOMAIN Deps[q.stack[L].node] /\ k < q.stack[L].at + 1
            BY <1>5, <2>2, <3>3
          <5>2. k \in Nat /\ q.stack[L].at \in Nat
            BY <1>1, <5>1
          <5> QED
            BY <3>3, <5>1, <5>2
        <4>2. Deps[q.stack[L].node][k] \in Known
          BY <1>5, <2>2, <3>3
        <4>3. Deps[q.stack[L].node][k] \in Black(q)
          BY <1>1, <2>1, <4>1, <4>2 DEF BlackClosed, L
        <4> QED
          BY <1>5, <1>6, <3>3, <4>3
      <3> QED
        BY <3>1, <3>2, <3>3
    <2> QED
      BY <1>6, <2>1, <2>2 DEF BlackClosed, BlackAcyclic
  <1> QED
    BY <1>2, <1>3, <1>4, <1>8 DEF SearchInv, r

\* An edge to a task on the stack: the stack from there on is a cycle.
LEMMA BackEdgeHolds ==
  ASSUME NEW q, SearchInv(q), q.stack # << >>, Top(q).at <= Len(Edges(q)),
         Edges(q)[Top(q).at] \in Known, q.color[Edges(q)[Top(q).at]] = "gray"
  PROVE  SearchInv(Follow(q, Edges(q)[Top(q).at]))
  <1> DEFINE L == Len(q.stack)
             dep == Edges(q)[Top(q).at]
             r == Follow(q, dep)
  <1>1. /\ q \in Searches /\ L \in Nat \ {0} /\ Top(q) = q.stack[L] /\ L \in 1 .. L
        /\ \A i \in 1 .. L : q.stack[i].at \in Nat \ {0} /\ Deps[q.stack[i].node] \in Seq(Names)
        /\ \A i \in 1 .. L : q.stack[i].node \in Known
        /\ dep = Deps[q.stack[L].node][q.stack[L].at]
        /\ q.stack[L].at <= Len(Deps[q.stack[L].node])
    BY StackProperties
  <1>2. r = [ next |-> q.next, color |-> q.color, stack |-> Moved(q),
              cyclic |-> q.cyclic \cup { q.stack[L].node, dep } ]
    BY <1>1 DEF Follow, Searches
  <1> HIDE DEF r
  <1>3. r \in Searches
    BY ZenonT(40), <1>1, <1>2, MovedTop DEF Searches
  <1>4. GrayOnStack(r) /\ StackIsPath(r) /\ StartsVisited(r)
    BY <1>2, <1>3, MovedHolds
  <1>5. PICK j \in 1 .. L : q.stack[j].node = dep
    BY DEF SearchInv, GrayOnStack
  <1> HIDE DEF L, dep
  <1>6. HasCycle
    <2> DEFINE S == { q.stack[i].node : i \in j .. L }
    <2>1. S \in SUBSET Known /\ S # {}
      <3>1. j \in j .. L /\ \A i \in j .. L : i \in 1 .. L
        BY <1>1, <1>5
      <3> QED
        BY <1>1, <3>1
    <2>2. ASSUME NEW i \in j .. L
          PROVE  \E k \in DOMAIN Deps[q.stack[i].node] : Deps[q.stack[i].node][k] \in S
      <3>1. CASE i = L
        <4>1. q.stack[L].at \in DOMAIN Deps[q.stack[L].node]
          BY <1>1
        <4>2. Deps[q.stack[L].node][q.stack[L].at] \in S
          BY <1>1, <1>5
        <4> QED
          BY <3>1, <4>1, <4>2
      <3>2. CASE i # L
        <4>1. i \in 1 .. L - 1 /\ i \in 1 .. L /\ i + 1 \in j .. L
          BY <1>1, <1>5, <3>2
        <4>2. /\ q.stack[i].at > 1
              /\ Deps[q.stack[i].node][q.stack[i].at - 1] = q.stack[i + 1].node
          BY <4>1 DEF SearchInv, StackIsPath, L
        <4>3. q.stack[i].at <= Len(Deps[q.stack[i].node]) + 1
          BY <4>1 DEF SearchInv, GrayOnStack, L
        <4>4. q.stack[i].at - 1 \in DOMAIN Deps[q.stack[i].node]
          <5>1. /\ Deps[q.stack[i].node] \in Seq(Names) /\ q.stack[i].at \in Nat
                /\ Len(Deps[q.stack[i].node]) \in Nat
            BY <1>1, <4>1
          <5>2. q.stack[i].at - 1 \in 1 .. Len(Deps[q.stack[i].node])
            BY SMTT(30), <4>2, <4>3, <5>1
          <5> QED
            BY <5>1, <5>2
        <4> QED
          BY <4>1, <4>2, <4>4
      <3> QED
        BY <3>1, <3>2
    <2> HIDE DEF S
    <2>3. \A t \in S : \E i \in DOMAIN Deps[t] : Deps[t][i] \in S
      BY <2>2 DEF S
    <2> QED
      BY <2>1, <2>3 DEF HasCycle
  <1>7. r.cyclic # {}
    BY <1>2
  <1> QED
    BY <1>3, <1>4, <1>6, <1>7 DEF SearchInv, r, dep

\* An edge to a task not seen before.
LEMMA EnterHolds ==
  ASSUME NEW q, SearchInv(q), q.stack # << >>, Top(q).at <= Len(Edges(q)),
         Edges(q)[Top(q).at] \in Known, q.color[Edges(q)[Top(q).at]] = "white"
  PROVE  SearchInv(Follow(q, Edges(q)[Top(q).at]))
  <1> DEFINE L == Len(q.stack)
             dep == Edges(q)[Top(q).at]
             r == Follow(q, dep)
             m == [ next |-> q.next, color |-> q.color, stack |-> Moved(q), cyclic |-> q.cyclic ]
  <1>1. /\ q \in Searches /\ L \in Nat \ {0} /\ Top(q) = q.stack[L] /\ L \in 1 .. L
        /\ \A i \in 1 .. L : q.stack[i].at \in Nat \ {0} /\ Deps[q.stack[i].node] \in Seq(Names)
        /\ \A i \in 1 .. L : q.stack[i].node \in Known /\ q.color[q.stack[i].node] = "gray"
        /\ dep = Deps[q.stack[L].node][q.stack[L].at]
    BY StackProperties
  <1>2. r = [ next |-> q.next, color |-> [ q.color EXCEPT ![dep] = "gray" ],
              stack |-> Append(Moved(q), Frame(dep)), cyclic |-> q.cyclic ]
    BY <1>1 DEF Follow, Searches
  <1>3. m \in Searches
    BY <1>1, MovedTop DEF Searches
  <1>4. GrayOnStack(m) /\ StackIsPath(m) /\ StartsVisited(m)
    BY <1>3, MovedHolds
  <1>5. /\ Moved(q) \in Seq(Frames) /\ Len(Moved(q)) = L
        /\ \A i \in 1 .. L - 1 : Moved(q)[i] = q.stack[i]
        /\ Moved(q)[L].node = q.stack[L].node /\ Moved(q)[L].at = q.stack[L].at + 1
    BY <1>1, MovedTop
  <1>6. Frame(dep) \in Frames /\ Frame(dep).node = dep /\ Frame(dep).at = 1
    BY DEF Frame, Frames
  <1>7. /\ r.stack \in Seq(Frames) /\ Len(r.stack) = L + 1
        /\ \A i \in 1 .. L : r.stack[i] = Moved(q)[i]
        /\ r.stack[L + 1] = Frame(dep)
    <2>1. r.stack = Append(Moved(q), Frame(dep))
      BY <1>2
    <2> DEFINE M == Moved(q)
               f == Frame(dep)
    <2>2. M \in Seq(Frames) /\ Len(M) = L /\ L \in Nat /\ f \in Frames
      BY <1>1, <1>5, <1>6
    <2> HIDE DEF r, dep, L, m, M, f
    <2>3. /\ Append(M, f) \in Seq(Frames) /\ Len(Append(M, f)) = L + 1
          /\ \A i \in 1 .. L : Append(M, f)[i] = M[i]
          /\ Append(M, f)[L + 1] = f
      BY <2>2
    <2> QED
      BY <2>1, <2>3 DEF M, f
  <1>8. \A t \in Known : r.color[t] = IF t = dep THEN "gray" ELSE q.color[t]
    <2>1. DOMAIN q.color = Known
      BY <1>1 DEF Searches
    <2> HIDE DEF r, dep, L, m
    <2>2. r.color = [ q.color EXCEPT ![dep] = "gray" ]
      BY <1>2
    <2> QED
      BY <2>1, <2>2
  <1>9. r \in Searches
    <2>1. /\ q.next \in Nat \ {0} /\ q.cyclic \in SUBSET Known
          /\ [ q.color EXCEPT ![dep] = "gray" ] \in [ Known -> {"white", "gray", "black"} ]
      BY <1>1 DEF Searches
    <2>2. Append(Moved(q), Frame(dep)) \in Seq(Frames)
      BY <1>5, <1>6
    <2> HIDE DEF r, dep, L, m
    <2> QED
      BY <1>2, <2>1, <2>2 DEF Searches
  <1>10. r.next = q.next /\ r.cyclic = q.cyclic
    BY <1>2
  <1>11. \A i \in 1 .. L : Moved(q)[i].node = q.stack[i].node /\ Moved(q)[i].node # dep
    <2>1. q.color[dep] = "white"
      OBVIOUS
    <2> DEFINE M == Moved(q)
    <2>2. /\ \A i \in 1 .. L - 1 : M[i] = q.stack[i]
          /\ M[L].node = q.stack[L].node
      BY <1>5
    <2>3. L \in Nat \ {0} /\ \A i \in 1 .. L : q.color[q.stack[i].node] = "gray"
      BY <1>1
    <2> HIDE DEF r, dep, L, m, M
    <2>4. \A i \in 1 .. L : i \in 1 .. L - 1 \/ i = L
      BY <2>3
    <2>5. \A i \in 1 .. L : M[i].node = q.stack[i].node
      BY <2>2, <2>4
    <2>6. \A i \in 1 .. L : q.stack[i].node # dep
      BY <2>1, <2>3
    <2> QED
      BY <2>5, <2>6 DEF M
  <1> HIDE DEF r, dep, L
  <1>12. GrayOnStack(r)
    <2>1. ASSUME NEW i \in 1 .. Len(r.stack)
          PROVE  /\ r.color[r.stack[i].node] = "gray"
                 /\ r.stack[i].at <= Len(Deps[r.stack[i].node]) + 1
      <3>1. CASE i = L + 1
        <4>1. dep \in Known /\ Len(Deps[dep]) \in Nat
          BY KnownNames DEF dep
        <4> QED
          BY <1>6, <1>7, <1>8, <3>1, <4>1
      <3>2. CASE i # L + 1
        <4>1. i \in 1 .. L
          BY <1>1, <1>7, <3>2
        <4>2. Moved(q)[i].at <= Len(Deps[Moved(q)[i].node]) + 1
          BY <1>4, <1>5, <4>1 DEF GrayOnStack
        <4>3. r.stack[i].node = q.stack[i].node /\ r.stack[i] = Moved(q)[i]
          BY <1>7, <1>11, <4>1
        <4>4. r.color[r.stack[i].node] = "gray"
          BY <1>1, <1>8, <4>1, <4>3
        <4> QED
          BY <4>2, <4>3, <4>4
      <3> QED
        BY <3>1, <3>2
    <2>2. ASSUME NEW i \in 1 .. Len(r.stack), NEW j \in 1 .. Len(r.stack),
                 r.stack[i].node = r.stack[j].node
          PROVE  i = j
      <3>1. (i \in 1 .. L \/ i = L + 1) /\ (j \in 1 .. L \/ j = L + 1)
        BY <1>1, <1>7
      <3>2. \A a, b \in 1 .. L : Moved(q)[a].node = Moved(q)[b].node => a = b
        BY <1>4, <1>5 DEF GrayOnStack
      <3> QED
        BY <1>6, <1>7, <1>11, <2>2, <3>1, <3>2
    <2>3. ASSUME NEW t \in Known, r.color[t] = "gray"
          PROVE  \E i \in 1 .. Len(r.stack) : r.stack[i].node = t
      <3>1. CASE t = dep
        <4>1. L + 1 \in 1 .. Len(r.stack)
          BY <1>1, <1>7
        <4> QED
          BY <1>6, <1>7, <3>1, <4>1
      <3>2. CASE t # dep
        <4>1. q.color[t] = "gray"
          BY <1>8, <2>3, <3>2
        <4>2. PICK i \in 1 .. L : Moved(q)[i].node = t
          BY <1>4, <1>5, <4>1 DEF GrayOnStack
        <4>3. i \in 1 .. Len(r.stack)
          BY <1>1, <1>7
        <4> QED
          BY <1>7, <4>2, <4>3
      <3> QED
        BY <3>1, <3>2
    <2> QED
      BY <2>1, <2>2, <2>3 DEF GrayOnStack
  <1>13. StackIsPath(r)
    <2> SUFFICES ASSUME NEW i \in 1 .. Len(r.stack) - 1
                 PROVE  /\ r.stack[i].at > 1
                        /\ Deps[r.stack[i].node][r.stack[i].at - 1] = r.stack[i + 1].node
      BY DEF StackIsPath
    <2>1. CASE i = L
      <3>1. r.stack[L].at = q.stack[L].at + 1 /\ r.stack[L].node = q.stack[L].node
        BY <1>1, <1>5, <1>7
      <3>2. q.stack[L].at \in Nat \ {0}
        BY <1>1
      <3>3. r.stack[L].at > 1 /\ r.stack[L].at - 1 = q.stack[L].at
        BY <3>1, <3>2
      <3> QED
        BY <1>1, <1>6, <1>7, <2>1, <3>1, <3>3
    <2>2. CASE i # L
      <3>1. i \in 1 .. L - 1 /\ i \in 1 .. L /\ i + 1 \in 1 .. L
        BY <1>1, <1>7, <2>2
      <3>2. /\ Moved(q)[i].at > 1
            /\ Deps[Moved(q)[i].node][Moved(q)[i].at - 1] = Moved(q)[i + 1].node
        BY <1>4, <1>5, <3>1 DEF StackIsPath
      <3> QED
        BY <1>7, <3>1, <3>2
    <2> QED
      BY <2>1, <2>2
  <1>14. StartsVisited(r)
    BY <1>8, <1>10 DEF SearchInv, StartsVisited, Known
  <1>15. ASSUME q.cyclic = {}
         PROVE  BlackClosed(r) /\ BlackAcyclic(r)
    <2>1. BlackClosed(q) /\ BlackAcyclic(q)
      BY <1>15 DEF SearchInv
    <2>2. Black(r) = Black(q)
      BY <1>8 DEF Black, dep
    <2>3. ASSUME NEW i \in 1 .. Len(r.stack), NEW k \in DOMAIN Deps[r.stack[i].node],
                 k < r.stack[i].at, Deps[r.stack[i].node][k] \in Known
          PROVE  \/ Deps[r.stack[i].node][k] \in Black(r)
                 \/ i < Len(r.stack) /\ k = r.stack[i].at - 1
      <3>1. CASE i \in 1 .. L - 1
        <4>1. i \in 1 .. L /\ r.stack[i] = q.stack[i] /\ i < Len(r.stack)
          BY <1>1, <1>5, <1>7, <3>1
        <4> QED
          BY <2>1, <2>2, <2>3, <4>1 DEF BlackClosed, L
      <3>2. CASE i = L
        <4>1. r.stack[i].at = q.stack[L].at + 1 /\ r.stack[i].node = q.stack[L].node
          BY <1>1, <1>5, <1>7, <3>2
        <4>2. k \in DOMAIN Deps[q.stack[L].node] /\ k \in Nat /\ i < Len(r.stack)
          BY <1>1, <1>7, <2>3, <3>2, <4>1
        <4>3. CASE k = q.stack[L].at
          BY <1>1, <4>1, <4>2, <4>3
        <4>4. CASE k # q.stack[L].at
          <5>1. k < q.stack[L].at
            BY <1>1, <2>3, <4>1, <4>2, <4>4
          <5> QED
            BY <1>1, <2>1, <2>2, <2>3, <4>1, <4>2, <5>1 DEF BlackClosed, L
        <4> QED
          BY <4>3, <4>4
      <3>3. CASE i = L + 1
        <4>1. k < 1 /\ k \in DOMAIN Deps[dep] /\ Deps[dep] \in Seq(Names)
          BY <1>6, <1>7, <2>3, <3>3, KnownNames DEF dep
        <4> QED
          BY <4>1
      <3> QED
        BY <1>1, <1>7, <3>1, <3>2, <3>3
    <2> QED
      BY <2>1, <2>2, <2>3 DEF BlackClosed, BlackAcyclic
  <1> QED
    BY <1>9, <1>10, <1>12, <1>13, <1>14, <1>15 DEF SearchInv, r, dep

\* Every step of the search.
LEMMA StepHolds ==
  ASSUME NEW q, SearchInv(q)
  PROVE  SearchInv(Step(q))
  <1>1. q \in Searches /\ Len(Ids) \in Nat
    BY PlanAssumption DEF SearchInv
  <1>2. CASE q.stack = << >>
    BY <1>1, <1>2, StartHolds DEF Step, Done, Searches
  <1>3. CASE q.stack # << >> /\ Top(q).at > Len(Edges(q))
    BY <1>3, LeaveHolds DEF Step
  <1>4. CASE q.stack # << >> /\ ~(Top(q).at > Len(Edges(q)))
    <2> DEFINE dep == Edges(q)[Top(q).at]
    <2>1. Top(q).at <= Len(Edges(q)) /\ Top(q).at \in Nat
      BY <1>4, StackProperties
    <2>2. dep \in Known => q.color[dep] \in {"white", "gray", "black"}
      BY <1>1 DEF Searches
    <2>3. Step(q) = Follow(q, dep)
      BY <1>4 DEF Step
    <2> QED
      BY <1>4, <2>1, <2>2, <2>3, SkipHolds, BackEdgeHolds, EnterHolds
  <1> QED
    BY <1>2, <1>3, <1>4

\* A nonempty set of numbers of steps has a least element.
LEMMA Least ==
  ASSUME NEW N \in Nat, NEW S \in SUBSET (1 .. N), S # {}
  PROVE  \E i \in S : \A j \in S : i <= j
<1> DEFINE T == { 1 .. i : i \in S }
<1>1. \A i \in S : (1 .. i) \in FiniteSubsetsOf(1 .. N)
  <2> SUFFICES ASSUME NEW i \in S PROVE (1 .. i) \in FiniteSubsetsOf(1 .. N)
    OBVIOUS
  <2>1. IsFiniteSet(1 .. i)
    BY FS_Interval
  <2>2. (1 .. i) \subseteq 1 .. N
    OBVIOUS
  <2> QED BY <2>1, <2>2 DEF FiniteSubsetsOf
<1>2. T \subseteq FiniteSubsetsOf(1 .. N) /\ T # {}
  BY <1>1
<1>3. PICK least \in T :
        \A other \in T : ~(<< other, least >> \in StrictSubsetOrdering(1 .. N))
  <2>1. IsWellFoundedOn(StrictSubsetOrdering(1 .. N), FiniteSubsetsOf(1 .. N))
    BY FS_StrictSubsetOrderingWellFounded
  <2> HIDE DEF T
  <2> QED BY <2>1, <1>2, WFMin
<1>4. PICK i \in S : least = 1 .. i
  OBVIOUS
<1>5. ASSUME NEW j \in S, ~(i <= j) PROVE FALSE
  <2>1. (1 .. j) \in SUBSET (1 .. N) /\ (1 .. i) \in SUBSET (1 .. N)
    BY <1>1 DEF FiniteSubsetsOf
  <2>2. (1 .. j) \subseteq (1 .. i)
    BY <1>5
  <2>3. (1 .. j) # (1 .. i)
    <3>1. i \in 1 .. i /\ i \notin 1 .. j
      BY <1>5
    <3> QED BY <3>1
  <2>4. << 1 .. j, 1 .. i >> \in StrictSubsetOrdering(1 .. N)
    BY <2>1, <2>2, <2>3, Zenon DEF StrictSubsetOrdering
  <2> QED BY <2>4, <1>3, <1>4
<1> QED BY <1>5

Searched(f, n) ==
  f = [ i \in 0 .. n |-> IF i = 0 THEN FirstSearch ELSE Step(f[i - 1]) ]

\* The search can be taken any number of steps.
LEMMA SearchReaches ==
  ASSUME NEW N \in Nat
  PROVE  \E f : Searched(f, N)
<1>0. \E f : Searched(f, 0)
  <2> DEFINE f == [ i \in 0 .. 0 |-> FirstSearch ]
  <2>1. f = [ i \in 0 .. 0 |-> IF i = 0 THEN FirstSearch ELSE Step(f[i - 1]) ]
    OBVIOUS
  <2> QED BY <2>1 DEF Searched
<1> DEFINE S == { n \in 1 .. N : ~\E f : Searched(f, n) }
<1>1. CASE S = {}
  BY <1>0, <1>1
<1>2. CASE S # {}
  <2>1. PICK n \in S : \A m \in S : n <= m
    BY <1>2, Least
  <2>2. n \in 1 .. N /\ n - 1 \in 0 .. N /\ n - 1 \notin S
    BY <2>1
  <2>3. \E f : Searched(f, n - 1)
    BY <1>0, <2>2
  <2>4. PICK f : f = [ i \in 0 .. n - 1 |-> IF i = 0 THEN FirstSearch ELSE Step(f[i - 1]) ]
    BY <2>3 DEF Searched
  <2> DEFINE g == [ i \in 0 .. n |-> IF i = n THEN Step(f[n - 1]) ELSE f[i] ]
  <2>5. ASSUME NEW i \in 0 .. n
        PROVE  g[i] = IF i = 0 THEN FirstSearch ELSE Step(g[i - 1])
    <3>1. CASE i = 0
      <4>1. i # n /\ i \in 0 .. n - 1
        BY <2>2, <3>1
      <4> QED BY <2>4, <3>1, <4>1
    <3>2. CASE i = n
      <4>1. i # 0 /\ g[i] = Step(f[n - 1]) /\ g[i - 1] = f[n - 1]
        BY <2>2, <3>2
      <4> QED BY <4>1
    <3>3. CASE i # 0 /\ i # n
      <4>1. i \in 0 .. n - 1 /\ i - 1 \in 0 .. n /\ i - 1 # n
        BY <2>2, <3>3
      <4>2. f[i] = Step(f[i - 1])
        BY <2>4, <4>1, <3>3
      <4>3. g[i] = f[i] /\ g[i - 1] = f[i - 1]
        BY <3>3, <4>1
      <4> QED BY <3>3, <4>2, <4>3
    <3> QED BY <3>1, <3>2, <3>3
  <2>6. g = [ i \in 0 .. n |-> g[i] ]
    OBVIOUS
  <2> HIDE DEF g
  <2>7. g = [ i \in 0 .. n |-> IF i = 0 THEN FirstSearch ELSE Step(g[i - 1]) ]
    BY <2>5, <2>6
  <2> QED BY <2>1, <2>7 DEF Searched
<1> QED BY <1>1, <1>2

\* In one way only.
LEMMA SearchesAgree ==
  ASSUME NEW f, NEW g, NEW m \in Nat, NEW n \in Nat, Searched(f, m), Searched(g, n), m <= n
  PROVE  \A i \in 0 .. m : f[i] = g[i]
<1>1. f = [ i \in 0 .. m |-> IF i = 0 THEN FirstSearch ELSE Step(f[i - 1]) ]
  BY Zenon DEF Searched
<1>2. g = [ i \in 0 .. n |-> IF i = 0 THEN FirstSearch ELSE Step(g[i - 1]) ]
  BY Zenon DEF Searched
<1>3. f[0] = FirstSearch /\ g[0] = FirstSearch
  BY <1>1, <1>2
<1>4. \A i \in 1 .. m : f[i] = Step(f[i - 1])
  BY <1>1
<1>5. \A i \in 1 .. n : g[i] = Step(g[i - 1])
  BY <1>2
<1> DEFINE S == { i \in 1 .. m : f[i] # g[i] }
<1>6. S = {}
  <2> SUFFICES ASSUME S # {} PROVE FALSE
    OBVIOUS
  <2>1. PICK i \in S : \A j \in S : i <= j
    BY Least
  <2>2. i \in 1 .. m /\ f[i] # g[i]
    BY <2>1
  <2>3. i - 1 = 0 \/ (i - 1 \in 1 .. m /\ i - 1 \notin S)
    BY <2>1, <2>2
  <2>4. f[i - 1] = g[i - 1]
    BY <1>3, <2>3
  <2>5. i \in 1 .. n
    BY <2>2
  <2> QED BY <1>4, <1>5, <2>2, <2>4, <2>5
<1> QED BY <1>3, <1>6

\* SearchAfter starts at the first search and takes one step at a time.
LEMMA SearchAfterStep ==
  /\ SearchAfter[0] = FirstSearch
  /\ \A n \in Nat : SearchAfter[n + 1] = Step(SearchAfter[n])
<1> DEFINE at(n) == (CHOOSE f : Searched(f, n))[n]
           h == [ n \in Nat |-> at(n) ]
<1>1. \A n \in Nat : Searched(CHOOSE f : Searched(f, n), n)
  BY SearchReaches, Zenon
<1>2. ASSUME NEW n \in Nat
      PROVE  at(n) = IF n = 0 THEN FirstSearch ELSE Step(at(n - 1))
  <2>1. PICK f : f = CHOOSE g : Searched(g, n)
    OBVIOUS
  <2>2. Searched(f, n) /\ at(n) = f[n]
    BY <1>1, <2>1, Zenon
  <2>3. f = [ i \in 0 .. n |-> IF i = 0 THEN FirstSearch ELSE Step(f[i - 1]) ]
    BY <2>2, Zenon DEF Searched
  <2>4. f[n] = IF n = 0 THEN FirstSearch ELSE Step(f[n - 1])
    BY <2>3
  <2>5. CASE n = 0
    BY <2>2, <2>4, <2>5
  <2>6. CASE n # 0
    <3>1. PICK e : e = CHOOSE g : Searched(g, n - 1)
      OBVIOUS
    <3>2. n - 1 \in Nat /\ n - 1 <= n
      BY <2>6
    <3>3. Searched(e, n - 1) /\ at(n - 1) = e[n - 1]
      BY <1>1, <3>1, <3>2, Zenon
    <3>4. \A i \in 0 .. n - 1 : e[i] = f[i]
      BY <2>2, <3>2, <3>3, SearchesAgree
    <3>5. e[n - 1] = f[n - 1]
      BY <3>2, <3>4
    <3> HIDE DEF at
    <3> QED BY <2>2, <2>4, <2>6, <3>3, <3>5
  <2> QED BY <2>5, <2>6
<1> HIDE DEF at
<1>3. \A n \in Nat : h[n] = at(n)
  OBVIOUS
<1>4. h = [ n \in Nat |-> IF n = 0 THEN FirstSearch ELSE Step(h[n - 1]) ]
  <2>1. ASSUME NEW n \in Nat
        PROVE  at(n) = IF n = 0 THEN FirstSearch ELSE Step(h[n - 1])
    <3>1. n # 0 => n - 1 \in Nat
      OBVIOUS
    <3> HIDE DEF h
    <3> QED BY <1>2, <1>3, <3>1
  <2>2. h = [ n \in Nat |-> at(n) ]
    OBVIOUS
  <2> HIDE DEF h
  <2> QED BY <2>1, <2>2
<1> HIDE DEF h
<1>5. SearchAfter =
        [ n \in Nat |-> IF n = 0 THEN FirstSearch ELSE Step(SearchAfter[n - 1]) ]
  BY <1>4, Zenon DEF SearchAfter
<1>6. PICK k : k = SearchAfter
  OBVIOUS
<1>7. k = [ n \in Nat |-> IF n = 0 THEN FirstSearch ELSE Step(k[n - 1]) ]
  BY <1>5, <1>6
<1>8. k[0] = FirstSearch
  BY <1>7
<1>9. ASSUME NEW n \in Nat
      PROVE  k[n + 1] = Step(k[n])
  <2>1. n + 1 \in Nat /\ n + 1 # 0 /\ (n + 1) - 1 = n
    OBVIOUS
  <2> QED BY <1>7, <2>1
<1> QED BY <1>6, <1>8, <1>9

LEMMA SearchInvariant == \A n \in Nat : SearchInv(SearchAfter[n])
<1> SUFFICES ASSUME NEW N \in Nat PROVE SearchInv(SearchAfter[N])
  OBVIOUS
<1>0. SearchInv(SearchAfter[0])
  BY FirstHolds, SearchAfterStep
<1> DEFINE S == { n \in 1 .. N : ~SearchInv(SearchAfter[n]) }
<1>1. S = {}
  <2> SUFFICES ASSUME S # {} PROVE FALSE
    OBVIOUS
  <2>1. PICK n \in S : \A m \in S : n <= m
    BY Least
  <2>2. n \in 1 .. N /\ ~SearchInv(SearchAfter[n])
    BY <2>1
  <2>3. n - 1 = 0 \/ (n - 1 \in 1 .. N /\ n - 1 \notin S)
    BY <2>1, <2>2
  <2>4. SearchInv(SearchAfter[n - 1])
    BY <1>0, <2>3
  <2>5. SearchAfter[n] = Step(SearchAfter[n - 1])
    <3>1. n - 1 \in Nat /\ (n - 1) + 1 = n
      BY <2>2
    <3> QED BY <3>1, SearchAfterStep
  <2> QED BY <2>2, <2>4, <2>5, StepHolds
<1> QED BY <1>0, <1>1

\* Lint's verdict is right: whenever the search has ended it has recorded a
\* cycle if and only if the dependency graph has one.
THEOREM CycleFoundIffAny == \A n \in Nat : Done(SearchAfter[n]) => SearchDecides(n)
  <1>1. ASSUME NEW q, SearchInv(q), Done(q), q.cyclic = {}
        PROVE  ~HasCycle
    <2>1. q \in Searches /\ Len(Ids) \in Nat
      BY <1>1, PlanAssumption DEF SearchInv
    <2>2. q.stack = << >> /\ q.next > Len(Ids)
      BY <1>1 DEF Done
    <2>3. \A t \in Known : q.color[t] # "gray"
      BY <1>1, <2>2 DEF SearchInv, GrayOnStack
    <2>4. ASSUME NEW t \in Known
          PROVE  q.color[t] = "black"
      <3>1. PICK i \in 1 .. Len(Ids) : Ids[i] = t
        BY PlanAssumption DEF Known
      <3>2. q.color[t] # "white"
        BY <1>1, <2>1, <2>2, <3>1 DEF SearchInv, StartsVisited, Searches
      <3> QED
        BY <2>1, <2>3, <3>2 DEF Searches
    <2>5. Black(q) = Known
      BY <2>4 DEF Black
    <2> QED
      BY <1>1, <2>5 DEF SearchInv, BlackAcyclic, Supported, HasCycle
  <1>2. ASSUME NEW n \in Nat, Done(SearchAfter[n])
        PROVE  SearchDecides(n)
    <2>1. SearchInv(SearchAfter[n])
      BY SearchInvariant
    <2>2. (SearchAfter[n].cyclic # {}) <=> HasCycle
      BY <1>1, <1>2, <2>1 DEF SearchInv
    <2> QED BY <1>2, <2>2 DEF SearchDecides
  <1> QED
    BY <1>2
=============================================================================
