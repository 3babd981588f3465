------------------------------- MODULE Receipt ------------------------------
(***************************************************************************)
(* The change admission receipt and the two judges of it: schema_check.py  *)
(* (check_receipt: is the document consistent with itself?) and            *)
(* impact_pair.py (receipt_problems: does it agree with what Git says?).   *)
(*                                                                         *)
(* A receipt r is a record of claims; a world w is what Git and the graphs *)
(* rebuilt from it say of the same range. A digest is the content it is    *)
(* taken of, an optional part is a set of at most one element, a graph is  *)
(* what its digest names. Documents have the JSON shapes the tools write;  *)
(* what the checks say of other shapes is left out.                        *)
(***************************************************************************)
EXTENDS Decisions, Functions

Admitting == {"admitted", "admitted_with_exemptions"}
Absent == "none"
When(c, finding) == IF c THEN {finding} ELSE {}

------------------------------------------------------------------------------
(* What the matrix says (verifier-matrix.v1.json, receipt schema).          *)

KindValues == {"contract_diff", "type_check", "schema_diff", "config_schema", "fitness_rules",
  "targeted_test", "property_check", "canary", "doc_reference", "other", "endpoint_probe",
  "shell_syntax", "shell_behavior", "systemd_unit_semantics", "source_file_integrity"}

MatrixKind(mid) ==
  CASE mid = "route_config_consistency" -> "config_schema"
    [] mid = "full_fallback_test" -> "targeted_test"
    [] mid = "source_input_contract" -> "other"
    [] OTHER -> mid

SelectableValues == {"targeted_test", "property_check"}
NoVerifierTypes == {"receipt", "work_item"}
DocKinds == {"doc", "receipt"}
FullSuite == "global_fallback_full_suite"

------------------------------------------------------------------------------
(* schema_check.py                                                          *)

\* entities reached by an edge and not only by the global fallback
TraversalEntities(entries) == {e.entity : e \in {x \in entries : ~x.fallbackOnly}}

\* every deployable, and every code unit under none of them
FallbackUnits(entries) ==
  LET units == {e.entity : e \in {x \in entries : x.type = "deployable_unit"}}
  IN units \cup {e.entity : e \in {x \in entries : x.type = "code_unit" /\ x.under \notin units}}

\* full_test_arms of a committed profile: what each arm requires; {} when there is no valid list
ArmDefinition(profile) == IF profile.valid THEN {profile.arms} ELSE {}

\* the definition in force over a range: that of the base, provided the range does not change it
ArmDefinitionForRange(base, head) ==
  CASE ArmDefinition(base) = {} -> [refused |-> "base_invalid", arms |-> <<>>]
    [] ArmDefinition(base) # {} /\ ArmDefinition(head) # ArmDefinition(base) ->
         [refused |-> "changed_in_range", arms |-> <<>>]
    [] OTHER -> [refused |-> Absent, arms |-> base.arms]

Satisfies(slot) == IF slot = "stub_ok" THEN {"real_disposable", "real_external", "stub"} ELSE {slot}

ArmVerdict(arm, head, slot) == Decide(<<
  <<arm.passed + arm.failed + arm.skipped # arm.total, N>>,
  <<arm.failed > 0 \/ arm.claims = F, F>>,
  <<arm.head # head, N>>,
  <<arm.total = 0 \/ arm.skipped > 0 \/ arm.passed # arm.total, N>>,
  <<arm.backend \notin Satisfies(slot), N>>,
  <<arm.backend # "stub" /\ ~arm.control, N>> >>, V)

ArmsVerdict(ev, head, def) ==
  LET slot(n) == IF n \in DOMAIN def.arms THEN def.arms[n] ELSE "real_disposable"
      results == {ArmVerdict(a, head, slot(a.name)) : a \in ev.arms}
  IN Decide(<<
       <<def.refused # Absent, N>>,
       <<DOMAIN def.arms = {}, N>>,
       <<ev.head # head, N>>,
       <<ev.definition # def.arms, N>>,
       <<ev.arms = {}, N>>,
       <<F \in results, F>>,
       <<{a.name : a \in ev.arms} # DOMAIN def.arms, N>>,
       <<Cardinality(ev.arms) # Cardinality({a.name : a \in ev.arms}), N>>,
       <<results # {V} \/ ev.notRun, N>> >>, V)

RowsOf(r, ids) == {v \in r.rows : v.id \in ids}
VerdictOf(r, e) == {v.verdict : v \in {x \in r.verdicts : x.entity = e}}
Recorded(r) == {v.entity : v \in r.verdicts}
IdsOf(r, e) == UNION {v.ids : v \in {x \in r.verdicts : x.entity = e}}
Says(v, e) == IF e \in DOMAIN v.per THEN {v.per[e]} ELSE {}

\* the class "this unit has no test suite, and says so"
AbsentSuiteProblems(r, e) ==
  LET ts == CHOOSE t \in r.suite : TRUE
      proves(x) == /\ x.exit = 0 /\ x.ref
                   /\ \E v \in r.rows : /\ v.id = x.verifier /\ v.exit = 0 /\ e \in v.entities
                                        /\ v.command = x.command
  IN When(~ts.declaredAbsent, "status") \cup When(~ts.behaviourOpen, "behavior")
     \cup When(e \notin ts.entities, "entity") \cup When(~ts.reasoned, "declaration")
     \cup When(ts.tests \/ ts.scripts \/ ts.unknown, "tree")
     \cup When(ts.static = {} \/ \E x \in ts.static : ~proves(x), "static")
     \cup When(VerdictOf(r, e) # {N}, "verdict")
     \cup When(r.admission # "admitted_with_exemptions", "admission")
     \cup When(~\E x \in r.exemptions : x.entity = e /\ x.owner /\ x.expires > 0, "exemption")

FallbackEvidenceProblems(r, units, def) ==
  LET armed == {v \in r.rows : v.scope = FullSuite /\ v.arms # {}}
      verdict(v) == ArmsVerdict(CHOOSE a \in v.arms : TRUE, r.head, def)
      lying == {v \in armed : verdict(v) # V /\ \E u \in units : Says(v, u) = {V}}
      measured(v, e) == /\ v.scope = FullSuite /\ v.kind = "targeted_test" /\ e \in v.entities
                        /\ v.exit = 0 /\ Says(v, e) = {V} /\ v.ref # Absent
                        /\ v.arms # {} => verdict(v) = V
      without == {e \in units : ~\E v \in RowsOf(r, IdsOf(r, e)) : measured(v, e)}
  IN CASE lying # {} -> {"ARMS_VERDICT_MISMATCH"}
       [] lying = {} /\ r.admission \notin Admitting -> {}
       [] OTHER -> When(\E e \in without : r.suite = {} \/ AbsentSuiteProblems(r, e) # {},
                        "missing full fallback test")

\* --select and what became of it
CheckVerifierSelection(r) ==
  IF r.choice = {} THEN When(r.modern, "VERIFIER_SELECTION_MISSING")
  ELSE LET s == CHOOSE x \in r.choice : TRUE
           listed(v) == IF v \in DOMAIN s.applied THEN s.applied[v] ELSE {}
           demanded(v) == UNION {{e \in DOMAIN q : v \in q[e]} : q \in r.required}
           unapplied == {x.verifier : x \in s.notApplied}
       IN When(\/ s.requested \ SelectableValues # {}
               \/ \E v \in DOMAIN s.applied : s.applied[v] = {}
               \/ DOMAIN s.applied \cup unapplied # s.requested
               \/ \E x \in s.notApplied : (x.reason = "NO_ENTITY_OF_APPLICABLE_TYPE") # (x.entities = {})
               \/ r.required # {} /\ \E v \in SelectableValues : listed(v) # demanded(v),
               "VERIFIER_SELECTION_INVALID")
          \cup When(s.noted # s.requested, "VERIFIER_SELECTION_CONTRADICTS_NOTES")

\* DEC-AUP-0035: the receipt this one replaces
SupersededClaimBad(r, x) == \/ x.path # x.entity \/ x.path # r.path
                            \/ r.item = Absent \/ x.item # r.item
                            \/ x.own # x.path
                            \/ x.base = Absent /\ x.head = Absent
                            \/ x.entity \in Recorded(r)

ChangedNodes(r) == {f.node : f \in r.files} \ {Absent}

\* DEC-AUP-0034: no verifier, not changed, same bytes at both revisions
ExclusionBad(r, x) ==
  IF x.rule = "DEC-AUP-0035" THEN SupersededClaimBad(r, x)
  ELSE x.base = Absent \/ x.base # x.head \/ x.entity \in Recorded(r) \cup ChangedNodes(r)

Excluded(r) == {x.entity : x \in {y \in r.exclusions : ~ExclusionBad(r, y)}}

CheckExclusions(r) == When(\E x \in r.exclusions : ExclusionBad(r, x), "STRUCTURAL_EXCLUSION_INVALID")

CheckStaleness(r) ==
  IF r.staleness = "not_checked" THEN {"STALENESS_NOT_CHECKED"}
  ELSE When(\/ r.staleness # "fresh" \/ r.mismatched
            \/ r.graph.at # IF r.mode = "diff" THEN r.base ELSE r.tree
            \/ r.mode = "diff" /\ r.dirty,
            "RECEIPT_ON_STALE_GRAPH")

CheckRevisions(r) ==
  IF r.headGraph = {} /\ r.selection = {} THEN {}
  ELSE LET selected == UNION {s.base \cup s.head : s \in r.selection}
       IN When(\/ r.mode # "diff" \/ r.headGraph = {}
               \/ \E g \in r.headGraph : g.at # r.head \/ ~g.fresh, "HEAD_GRAPH_BINDING_INVALID")
          \cup When(\/ r.selection = {}
                    \/ selected \ (Recorded(r) \cup Excluded(r)) # {}
                    \/ \E q \in r.required : selected \ DOMAIN q # {}
                    \/ r.admission \in Admitting /\ \E s \in r.selection : s.unmeasured # {},
                    "REVISION_SELECTION_INCOMPLETE")

\* the author's explanation of an empty impact set, bound to the two graphs
ExplanationBad(r, x) ==
  \/ <<x.base, x.head>> # <<r.base, r.head>> \/ ~x.substantive \/ ~x.metadata
  \/ x.baseGraph # r.graph.digest
  \/ ~\E g \in r.headGraph : x.headGraph = g.digest
  \/ r.core \cup r.tail # {} \/ r.triggered

CheckImpact(r, def) ==
  LET all == r.core \cup r.tail
      inferred(e) == e.provs \cap {"inferred", "observed"} # {}
  IN When(r.triggered /\ ~r.reason, "GLOBAL_FALLBACK_WITHOUT_REASON")
     \cup When(/\ r.triggered /\ (r.modern \/ \E v \in r.rows : v.scope = FullSuite)
               /\ FallbackEvidenceProblems(r, FallbackUnits(all), def) # {},
               "FULL_FALLBACK_TEST_NOT_MEASURED")
     \cup When(\E e \in all : e.provs = {}, "IMPACT_ENTRY_WITHOUT_PROVENANCE")
     \cup When((\E e \in r.core : inferred(e)) \/ \E e \in r.tail : e.provs = {"deterministic"},
               "IMPACT_ENTRY_MISPLACED")
     \cup When(\/ /\ all = {} /\ ~r.triggered /\ r.explanation = {}
                  /\ \E f \in r.files : f.kind \notin DocKinds
               \/ \E x \in r.explanation : x.bound /\ ExplanationBad(r, x),
               "EMPTY_IMPACT_WITHOUT_EXPLANATION")

\* the entities of the impact set that owe a verdict: under the fallback only those it selects
Owing(r) ==
  LET all == r.core \cup r.tail
      selection == FallbackUnits(all) \cup TraversalEntities(all) \cup r.seeds \cup ChangedNodes(r)
  IN {e.entity : e \in all} \cap (IF r.triggered THEN selection ELSE {e.entity : e \in all})

CheckVerifiers(r) ==
  When(\E v \in r.rows : v.kind \notin KindValues, "VERIFIER_KIND_UNKNOWN")
  \cup When(\E v \in r.rows : v.ref = Absent, "VERIFIER_WITHOUT_OUTPUT_REF")

Probes(r) == {v.id : v \in {x \in r.rows : x.kind = "endpoint_probe"}}

\* an observation the receipt may cite: explained when it is not a success, of a probe of this receipt
ObservationValid(r, o) == (o.verdict = V \/ o.detail) /\ o.verifier \in Probes(r)

CheckObserved(r) ==
  LET seen(id) == {o.verdict : o \in {x \in r.observed : ObservationValid(r, x) /\ x.verifier = id}}
      resting == (UNION {v.ids : v \in {x \in r.verdicts : x.verdict = V}}) \cap Probes(r)
  IN When(\E o \in r.observed : ~ObservationValid(r, o), "OBSERVED_ENTRY_INVALID")
     \cup When(\E id \in resting : seen(id) = {}, "ENDPOINT_PROBE_WITHOUT_OBSERVATION")
     \cup When(\E id \in resting : seen(id) \ {V} # {}, "PROBE_CLAIM_CONTRADICTS_OBSERVATION")

ExemptionValid(r, x) == x.owner /\ x.reason /\ x.expires > r.captured
ValidExempt(r) == {x.entity : x \in {y \in r.exemptions : ExemptionValid(r, y)}}

CheckExemptions(r) ==
  When(\E x \in r.exemptions : ~x.owner, "EXEMPTION_WITHOUT_OWNER")
  \cup When(\E x \in r.exemptions : x.expires = 0, "EXEMPTION_WITHOUT_EXPIRY")
  \cup When(\E x \in r.exemptions : x.expires > 0 /\ x.expires <= r.captured, "EXEMPTION_EXPIRED")
  \cup When(\E x \in r.exemptions : ~x.reason, "RECEIPT_MISSING_FIELD")

CheckVerdicts(r) ==
  LET ids == {v.id : v \in r.rows}
  IN When(\E v \in r.verdicts : v.verdict = V /\ (v.ids = {} \/ v.ids \ ids # {}), "VERIFIED_WITHOUT_VERIFIER")
     \cup When(\E v \in r.verdicts : v.verdict = N /\ ~v.reason, "NOT_MEASURED_WITHOUT_REASON")
     \cup When((Owing(r) \cup ChangedNodes(r)) \ (Recorded(r) \cup Excluded(r)) # {}, "ENTITY_WITHOUT_VERDICT")

BoundaryInferred(r) ==
  {e.entity : e \in {x \in r.core \cup r.tail : x.boundary /\ x.provs \cap {"inferred", "observed"} # {}}}

\* what crossed a service boundary on a guess needs a canary, and the canary a committed file
CheckCanary(r) ==
  LET canaries == {v \in r.rows : v.kind \in {"canary", "shell_behavior"}}
      listed == UNION {v.entities : v \in canaries}
      owes(e) == e \notin ValidExempt(r) /\ (VerdictOf(r, e) = {V} \/ r.admission \in Admitting)
      quieted == {e \in BoundaryInferred(r) \cap listed : owes(e)}
      cashed == UNION {v.ids : v \in {x \in r.verdicts : x.verdict = V}}
  IN When(\E e \in BoundaryInferred(r) \ listed : owes(e), "INFERRED_BOUNDARY_WITHOUT_CANARY")
     \cup When(\E v \in canaries : (v.id \in cashed \/ v.entities \cap quieted # {}) /\ v.ref # "committed",
               "CANARY_CLAIM_WITHOUT_COMMITTED_EVIDENCE")

CheckAdmission(r) ==
  LET open == {v.entity : v \in {x \in r.verdicts : x.verdict # V}}
  IN When(\/ r.admission = "admitted" /\ (open # {} \/ (r.triggered /\ r.verdicts = {}))
          \/ r.admission = "admitted_with_exemptions" /\ open \ ValidExempt(r) # {},
          "ADMISSION_CONTRADICTS_VERDICTS")

CheckReceipt(r, def) ==
  When(r.files = {}, "CHANGE_SET_EMPTY") \cup CheckExclusions(r) \cup CheckStaleness(r)
  \cup CheckRevisions(r) \cup CheckVerifierSelection(r) \cup CheckImpact(r, def)
  \cup CheckVerifiers(r) \cup CheckObserved(r) \cup CheckExemptions(r) \cup CheckVerdicts(r)
  \cup CheckCanary(r) \cup CheckAdmission(r)

------------------------------------------------------------------------------
(* impact_pair.py: the range is queried again, from Git.                    *)

\* What the query of the range says when it is asked about `files` (impact_pair.query, module Impact)
Query(w, files) ==
  LET of(part) == UNION {w.effect[f.path][part] : f \in files}
      all == of("core") \cup of("tail")
  IN [core |-> of("core"), tail |-> of("tail"), base |-> of("base"), head |-> of("head"),
      unmeasured |-> of("unmeasured"), triggered |-> \E f \in files : f.path \in w.globals,
      external |-> of("external") # {},
      empty |-> /\ all = {} /\ ~\E f \in files : f.path \in w.globals
                /\ \E f \in files : f.kind \notin DocKinds,
      events |-> of("events")]

Selection(q) == [base |-> q.base, head |-> q.head, unmeasured |-> q.unmeasured]

\* the installed and the current builder must agree on all but their own version
GraphParity(installed, current) ==
  CASE ~installed.digestValid \/ ~current.digestValid -> "CALLER_GRAPH_INVALID"
    [] installed.digestValid /\ current.digestValid /\ installed.body # current.body -> "CALLER_GRAPH_SEMANTIC_DRIFT"
    [] OTHER -> "parity"

\* The graphs as the caller's own signed bundle builds them; the first answer is the refusal.
CallerGraphPair(b) == Decide(<<
  <<~b.atRoot \/ ~b.canonicalPath, "CALLER_BUNDLE_PATH">>,
  <<~b.regularFiles, "CALLER_BUNDLE_FILE_TYPE">>,
  <<~b.sameAtBaseAndHead, "CALLER_BUNDLE_CHANGED">>,
  <<~b.signed, "CALLER_BUNDLE_UNTRUSTED">>,
  <<~b.pathsInside, "CALLER_BUNDLE_PATH">>,
  <<~b.filesMatch, "CALLER_BUNDLE_UNTRUSTED">>,
  <<~b.workflowCommitted, "CALLER_WORKFLOW_UNBOUND">>,
  <<b.workflowChanged, "CALLER_WORKFLOW_CHANGED">>,
  <<~b.workflowMatches, "CALLER_BUNDLE_UNTRUSTED">>,
  <<~b.builds, "CALLER_GRAPH_BUILD_FAILED">>,
  <<~b.graphValid, "CALLER_GRAPH_INVALID">>,
  <<GraphParity(b.installed, b.current) # "parity", GraphParity(b.installed, b.current)>> >>, "paired")

\* bind_empty_explanation: only a complete and really empty prediction may be explained away
BindEmptyExplanation(w, q, x) == Decide(<<
  <<~x.substantive, "EMPTY_IMPACT_EXPLANATION_INVALID">>,
  <<<<x.base, x.head, x.baseGraph, x.headGraph>> # <<w.base, w.head, w.before, w.after>>,
    "EMPTY_IMPACT_EXPLANATION_STALE">>,
  <<q.core \cup q.tail # {} \/ q.triggered \/ q.unmeasured # {} \/ q.external \/ ~q.empty,
    "EMPTY_IMPACT_EXPLANATION_INAPPLICABLE">> >>, "bound")

\* the events that still stop the draft (exit 3)
BlockingQueryEvents(q, bound) == q.events \cup When(q.empty /\ ~bound, "EMPTY_IMPACT_REQUIRES_EXPLANATION")

\* a receipt's base vouches for the arm definition only when the caller trusts that very base
BaseUntrusted(w, r) == w.trusted = Absent \/ w.trusted # r.base \/ r.base = r.head \/ ~w.ancestor

FallbackArmProblems(w, r, units) ==
  LET untrusted == [refused |-> "base_untrusted", arms |-> <<>>]
  IN FallbackEvidenceProblems(r, units,
       IF BaseUntrusted(w, r) THEN untrusted ELSE ArmDefinitionForRange(w.profile.base, w.profile.head))

\* what the tree of the head says about tests: files, scripts, and what cannot be classified
TrackedTestFiles(files) == {f \in files : ~f.vendored /\ f.class = "test"}

AbsentSuiteTree(files) ==
  LET own == {f \in files : ~f.vendored}
      manifest == {f \in own : f.class = "manifest"}
  IN [tests |-> TrackedTestFiles(files) # {} \/ \E f \in own \ manifest : f.class = "source" /\ f.content = "tests",
      scripts |-> \E f \in manifest : f.content = "tests",
      unknown |-> \E f \in own : f.class = "foreign" \/ (f.class # "test" /\ f.content = "unreadable")]

AbsentSuiteRepoProblems(w, r, units) ==
  LET ts == CHOOSE t \in r.suite : TRUE
      tree == AbsentSuiteTree(w.tree)
  IN When(units # {w.root} \/ ts.entities # units, "units")
     \cup When(~ts.root, "deployable")
     \cup When(tree.tests, "tests") \cup When(tree.scripts, "scripts") \cup When(tree.unknown, "unknown")
     \cup When(~w.absence.declared \/ ts.why # w.absence.why, "profile")
     \cup When({x.command : x \in ts.static} # {w.absence.static}, "static")

RowMeasuredVerified(v, e) == IF e \in DOMAIN v.per THEN v.per[e] = V ELSE v.exit = 0

UncoveredRowKinds(minimum, covered) ==
  {m \in minimum : (IF m = "full_fallback_test" THEN m ELSE MatrixKind(m)) \notin covered}

\* DEC-AUP-0035 from Git: the document at that path is an earlier receipt of the same work item
SupersededSelfRederived(w, r, x, path) ==
  LET blob == w.blob[path]
      agrees(role) == IF blob[role] = Absent THEN x[role] = Absent
                      ELSE x[role] = blob[role] /\ w.itemOf[blob[role]] = r.item
  IN /\ path = r.path /\ r.item # Absent /\ x.item = r.item /\ x.own = path
     /\ agrees("base") /\ agrees("head")
     /\ blob.base # Absent \/ blob.head # Absent

StructuralExclusionOk(w, r, x) ==
  LET path == w.path[x.entity]
  IN /\ w.type[x.entity] \in NoVerifierTypes
     /\ IF x.rule = "DEC-AUP-0035" THEN SupersededSelfRederived(w, r, x, path)
        ELSE /\ path \notin {f.path : f \in r.files}
             /\ w.blob[path].base # Absent /\ w.blob[path].base = w.blob[path].head
             /\ <<x.base, x.head>> = <<w.blob[path].base, w.blob[path].head>>

\* Mutant of StructuralExclusionsRederived: the receipt's word is taken for it.
StructuralExclusionsClaimed(w, r) == {x.entity : x \in r.exclusions}

StructuralExclusionsRederived(w, r) == {x.entity : x \in {y \in r.exclusions : StructuralExclusionOk(w, r, y)}}

\* type_check_not_owed: a declaration that some data is no code. It must be dated, owned and alive,
NotOwedEntries(entries, now) == {e \in entries : e.wellFormed /\ e.literalPath /\ e.expires > now}

\* stand at the base already, and cover no TypeScript of either revision
NotOwedInForce(w, now) ==
  {e \in NotOwedEntries(w.notOwed.head, now) \cap NotOwedEntries(w.notOwed.base, now) :
     ~\E p \in e.covers : w.typescript[p]}

TypeCheckNotOwed(w, path, now) ==
  /\ ~w.typescript[path] /\ ~w.compiled[path]
  /\ \E e \in NotOwedInForce(w, now) : path \in e.covers

\* mandatory_by_entity (module Impact derives the duties from the two graphs)
MandatoryByEntity(w, q, now) ==
  [e \in q.base \cup q.head |->
     IF TypeCheckNotOwed(w, w.path[e], now) THEN w.duty[e] \ {"type_check"} ELSE w.duty[e]]

\* verified, and yet its own rows do not say so
ClaimProblems(r, e, minimum) ==
  LET referenced == RowsOf(r, IdsOf(r, e))
      name(v) == IF v.scope = FullSuite THEN "full_fallback_test" ELSE v.kind
      covered == {name(v) : v \in {x \in referenced : e \in x.entities /\ RowMeasuredVerified(x, e) /\ x.ref # Absent}}
  IN When(UncoveredRowKinds(minimum, covered) # {}, "mandatory output missing")
     \cup When(\E v \in referenced : Says(v, e) \cap {F, N} # {}, "row contradicts the claim")

\* receipt_problems after the query: what the rebuilt answer q says against the receipt
QueryProblems(w, r, q, mandatory) ==
  LET selected == q.base \cup q.head
      admitted == r.admission \in Admitting
      paired == r.selection # {} \/ r.headGraph # {}
      units == FallbackUnits(q.core \cup q.tail)
      bound == {x \in r.explanation : x.bound}
      enforce == paired \/ w.workflow \/ q.triggered \/ bound # {}
  IN (IF q.triggered THEN FallbackArmProblems(w, r, units) ELSE {})
     \cup (IF q.triggered /\ r.suite # {} THEN AbsentSuiteRepoProblems(w, r, units) ELSE {})
     \cup When(\E x \in bound : BindEmptyExplanation(w, q, x) # "bound" \/ q.events # {} \/ ~paired, "explanation")
     \cup When(~paired /\ (q.head \ q.base # {} \/ q.unmeasured # {}), "head graph binding missing")
     \cup When(/\ paired
               /\ \/ r.graph.at # w.base \/ (r.graph.digest # w.before /\ w.origin # "valid")
                  \/ ~\E g \in r.headGraph : g.at = w.head /\ (g.digest = w.after \/ w.origin = "valid")
                  \/ r.selection # {Selection(q)} \/ <<r.core, r.tail>> # <<q.core, q.tail>>,
               "graph or selection differs")
     \cup When(StructuralExclusionsRederived(w, r) # {x.entity : x \in r.exclusions}, "exclusion refused")
     \cup When(selected \ (Recorded(r) \cup StructuralExclusionsRederived(w, r)) # {}, "missing verdicts")
     \cup When(enforce /\ admitted /\ r.required = {}, "no mandatory mapping")
     \cup When(\E m \in r.required : selected \ DOMAIN m # {} \/ \E e \in selected : ~mandatory[e] \subseteq m[e],
               "obligations omitted")
     \cup (IF enforce /\ admitted
           THEN UNION {ClaimProblems(r, e, mandatory[e]) : e \in {x \in selected : VerdictOf(r, x) = {V}}}
           ELSE {})
     \cup When(q.unmeasured # {}, "head not extracted")

ReceiptProblems(w, r) ==
  LET files == {f \in w.actual : f.path \in {g.path : g \in r.files}}
      q == Query(w, files)
      nothing == /\ r.selection = {} /\ r.headGraph = {} /\ ~q.triggered /\ ~w.workflow
                 /\ ~\E x \in r.explanation : x.bound
                 /\ q.head \subseteq q.base /\ q.unmeasured = {}
  IN CASE r.mode # "diff" \/ files = {} -> {}
       [] \E b \in r.caller : CallerGraphPair(b) # "paired" -> {"caller graph refused"}
       [] w.origin = "invalid" -> {"origin association refused"}
       [] nothing -> {}
       [] OTHER -> QueryProblems(w, r, q, MandatoryByEntity(w, q, r.captured))
==============================================================================
