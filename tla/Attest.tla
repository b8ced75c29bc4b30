------------------------------- MODULE Attest -------------------------------
(* The carried anchor and the gate job of action.yml: reading an anchor file *)
(* (loop/anchor.py), asking the attestation index about its head             *)
(* (scripts/action_anchor_resolve.py) under the signer pins of               *)
(* loop/attestation.py, and comparing the attested verdict with this         *)
(* workspace's (loop/verdict.py).  The index answers through `gh`, a program *)
(* outside the repository.                                                   *)
EXTENDS Naturals, Sequences

Nothing == "none"

-----------------------------------------------------------------------------
(* The anchor file.  Its optional fields are given by what their value is.   *)

Present == {"fits", "too short", "too long", "wrong type"}
StringFields == {"attestation_id", "run_id", "recorded_at"}

Anchors ==
  [ schema : BOOLEAN, head : {"digest", "not a digest", "wrong type"}, unknownField : BOOLEAN,
    sequence : {"absent", "null", "natural", "negative", "whole float", "wrong type"},
    strings : [ StringFields -> {"absent", "null"} \cup Present ] ]

\* The checks made without jsonschema: null counts as absent.
StructuralOk(a) ==
  /\ a.schema /\ a.head = "digest" /\ ~a.unknownField
  /\ a.sequence \in {"absent", "null", "natural"}
  /\ \A f \in StringFields : a.strings[f] \in {"absent", "null", "fits"}

\* schemas/anchor.schema.json: an integer may be written 1.0, and none is null.
SchemaOk(a) ==
  /\ a.schema /\ a.head = "digest" /\ ~a.unknownField
  /\ a.sequence \in {"absent", "natural", "whole float"}
  /\ \A f \in StringFields : a.strings[f] \in {"absent", "fits"}

\* What the file at the path holds: nothing to parse, a value that is no
\* object, or an anchor document.
ReadAnchor(file, jsonschema) ==
  IF file.underLoop \/ ~file.json THEN "anchor_file_unreadable"
  ELSE IF ~file.object THEN "anchor_file_invalid"
  ELSE IF ~StructuralOk(file.anchor) \/ (jsonschema /\ ~SchemaOk(file.anchor))
       THEN "anchor_file_invalid" ELSE "ok"

-----------------------------------------------------------------------------
(* Signer trust.  An identity is a list of segments, with or without scheme, *)
(* ref and closing slashes around it.                                        *)

RequiredClaims == {"subjectAlternativeName", "sourceRepositoryURI", "runnerEnvironment"}
TriggerClaims == {"githubWorkflowTrigger", "buildTrigger"}

Host == "github.com"

NormalizeIdentity(identity) == identity.segments

IdentityAgrees(claim, pin) ==
  NormalizeIdentity(claim) \in
    { NormalizeIdentity(pin), << Host >> \o NormalizeIdentity(pin) }

\* Claims are in the certificate or not; a result without one has none.
Certified(result) ==
  /\ result.certificate /\ result.witnessed
  /\ RequiredClaims \subseteq result.claims
  /\ TriggerClaims \cap result.claims # {}

\* githubWorkflowTrigger is read first.
Trigger(result) ==
  IF "githubWorkflowTrigger" \in result.claims
  THEN result.workflowTrigger ELSE result.buildTrigger

SignerIssues(result, workflow, repository) ==
  { i \in {"signer_workflow_mismatch", "signer_repository_mismatch",
           "self_hosted_runner", "signer_trigger_mismatch"} :
      CASE i = "signer_workflow_mismatch" -> ~IdentityAgrees(result.signer, workflow)
        [] i = "signer_repository_mismatch" -> ~IdentityAgrees(result.repository, repository)
        [] i = "self_hosted_runner" -> ~result.hosted
        [] i = "signer_trigger_mismatch" -> Trigger(result) # "push" }

-----------------------------------------------------------------------------
(* Resolving the anchored head.                                              *)

LookupOutcomes == {"corroborated", "contradicted", "unavailable"}

\* Absence and transport markers are looked for before those of a denial.
ClassifyFailure(exit, markers) ==
  IF exit \notin {2, 4} /\ "absent" \notin markers /\ "denied" \in markers
  THEN "contradicted" ELSE "unavailable"

LookUp(gh, workflow, repository) ==
  IF ~gh.started THEN "unavailable"
  ELSE IF gh.exit # 0 THEN ClassifyFailure(gh.exit, gh.markers)
  ELSE IF ~gh.wellShaped \/ ~Certified(gh.result) THEN "unavailable"
  ELSE IF SignerIssues(gh.result, workflow, repository) # {} THEN "contradicted"
  ELSE IF gh.result.predicate = Nothing THEN "unavailable"
  ELSE "corroborated"

\* The step's outcome and exit code; without a pin or an anchor, nothing is
\* looked up.
Resolve(gh, pinned, file, jsonschema, workflow, repository) ==
  IF ~pinned \/ ReadAnchor(file, jsonschema) # "ok"
  THEN [ outcome |-> Nothing, exit |-> 2 ]
  ELSE LET outcome == LookUp(gh, workflow, repository) IN
       [ outcome |-> outcome, exit |-> IF outcome = "corroborated" THEN 0 ELSE 1 ]

-----------------------------------------------------------------------------
(* Verdicts.  A workspace w has heads, those its chain had in order, and its *)
(* terminal record; only the entries that clear the strict bar are evidence. *)

Current(w) == IF w.heads = << >> THEN Nothing ELSE w.heads[Len(w.heads)]

WasHead(w, head) == \E i \in DOMAIN w.heads : w.heads[i] = head

Malformed == {"not a list"}

\* Absent, unreadable, or without a Boolean false_completion.
NoTerminalRecord(w) == ~w.terminalReadable

BuildVerdict(w) ==
  [ shape |-> "bare", schema |-> TRUE,
    run |-> w.run, head |-> Current(w), terminal |-> w.terminal,
    evidence |-> w.evidence, doctor |-> w.doctor, tool |-> w.tool ]

RefusedDocument(document) == document.shape # "bare" \/ ~document.schema

\* Where the attested document differs from this workspace's projection.
Disagreements(document, w) ==
  LET here == BuildVerdict(w) IN
  { f \in {"run", "head", "terminal", "evidence"} :
      document[f] # here[f] \/ (f = "evidence" /\ document.evidence = Malformed) }

CompareExit(document, w) ==
  IF RefusedDocument(document) \/ NoTerminalRecord(w) THEN 2
  ELSE IF Disagreements(document, w) = {} THEN 0 ELSE 1

-----------------------------------------------------------------------------
(* The gate job: steps in order, each one gating.                            *)

DoctorPasses(w, inputs) ==
  /\ w.healthy /\ w.jsonschema
  /\ inputs.expectHead # Nothing => Current(w) = inputs.expectHead

\* Attesting needs the permission of the calling job, a verdict, and a head to
\* attest; without a head it is skipped.
AttestPasses(w, inputs) == inputs.attest => inputs.permitted /\ ~NoTerminalRecord(w)

\* An explicit head wins over the anchor.
Resolves(inputs) == inputs.anchored /\ inputs.expectHead = Nothing

AnchorStep(w, inputs, gh) ==
  Resolve(gh, inputs.pinned, inputs.file, w.jsonschema, inputs.workflow, inputs.repository)

\* Ancestry always; agreement only when the anchored head is the current one.
ComparePasses(w, inputs, gh) ==
  /\ w.healthy /\ WasHead(w, inputs.file.head)
  /\ inputs.file.head = Current(w) => CompareExit(gh.result.predicate, w) = 0

\* A floor of 0 is none, and a score that is no number is not compared with it.
ScorecardExit(floor, score) ==
  IF floor \notin 0 .. 100 THEN 2
  ELSE IF floor # 0 /\ score.number /\ score.value < floor THEN 1 ELSE 0

JobPasses(w, inputs, gh) ==
  /\ DoctorPasses(w, inputs)
  /\ AttestPasses(w, inputs)
  /\ Resolves(inputs) => /\ AnchorStep(w, inputs, gh).exit = 0
                         /\ ComparePasses(w, inputs, gh)
  /\ ScorecardExit(inputs.floor, inputs.score) = 0
=============================================================================
