---------------------------- MODULE AdmissionGate ----------------------------
(***************************************************************************)
(* admit_change.py: a branch on its way through the admission gate. The    *)
(* author commits edits, has a receipt issued, exempts what the graph      *)
(* cannot compute, signs decisions, attaches the receipt to its work item  *)
(* and commits these records; at some point the gate judges the range from *)
(* the base to the last commit. Everything between the receipt's head and  *)
(* the judged head is a commit no verifier has seen: what of it the gate   *)
(* still admits is the subject of this module.                             *)
(*                                                                         *)
(* A commit is its index in the log, log[1] the base; a commit names its   *)
(* tree, so a binding <<base, head>> also says the digest of the diff. A   *)
(* tale fixes the surroundings: the patches the author may commit, what a  *)
(* verification may answer, the policy, the author, the other branch.      *)
(***************************************************************************)
EXTENDS StructuralCase

CONSTANTS Tales, MaxHour, StructuralTtl, DecisionTtl

Base == 1
Book == "book"                          \* the ledger of the work item

\* What a tale brings along. Its trees have the same paths, with one ledger at most. A receipt found in
\* one of them was issued over commits before the base. An answer gives an entity one of the three
\* verdicts, and no decision: only exempt-decision writes one.
BookOk(content) == content = {} \/ \E b \in content : content = {b} /\ DOMAIN b = {"item", "rest", "rows"}
Earlier(r) == "head" \in DOMAIN r /\ r.head \in 0..(Base - 1)
FilesOk(tree) ==
  /\ Book \in DOMAIN tree => BookOk(tree[Book])
  /\ \A p \in DOMAIN tree \cap ReceiptPaths : \A r \in tree[p] : Earlier(r)
AnswerOk(a) ==
  /\ {"verdicts", "exemptions"} \subseteq DOMAIN a
  /\ \A e \in DOMAIN a.verdicts : a.verdicts[e] \in Verdicts
  /\ \A x \in a.exemptions : x.code # "decision_to_proceed"
ASSUME TaleAssumption ==
  \A t \in Tales :
    /\ {Book} \cup ReceiptPaths \subseteq DOMAIN t.tree /\ FilesOk(t.tree)
    /\ \A patch \in t.patches : DOMAIN patch \subseteq DOMAIN t.tree /\ FilesOk(patch)
    /\ \A tree \in t.trunk : DOMAIN tree = DOMAIN t.tree /\ FilesOk(tree)
    /\ \A a \in t.answers : AnswerOk(a)

ASSUME TtlAssumption == StructuralTtl \in Nat \ {0} /\ DecisionTtl \in Nat \ {0}

VARIABLES
  tale,     \* the surroundings
  log,      \* the commits: their trees
  joined,   \* which of them merge the other branch
  desk,     \* the receipt files of the working tree
  folio,    \* the ledger file of the working tree
  wire,     \* the digests Muneral holds
  hour,     \* the clock
  issued,   \* verifications so far
  penned,   \* the ledger is as attach has just written it
  ruling    \* the gate's answer

vars == <<tale, log, joined, desk, folio, wire, hour, issued, penned, ruling>>

Artefacts == {"map"}                    \* what a declaration may name
StructuralCodes ==
  {"no_impact_by_construction", "gate_self_update", "spent_receipt_archive", "declaration_amend"}
Decision == "decision_to_proceed"
NoOpinion == [authority |-> "none", second |-> {}]

\* f where it is defined, g elsewhere: TLC's f @@ g, whose definition the provers do not have
Over(f, g) == [x \in DOMAIN f \cup DOMAIN g |-> IF x \in DOMAIN f THEN f[x] ELSE g[x]]

\* bytes: a receipt is told from another by its issue and by the edits made to it since
Digest(r) == <<r.no, r.rev>>
Names(s, t) == {p \in DOMAIN s : s[p] # t[p]}

------------------------------------------------------------------------------
(* The range base..h as the batteries see it.                               *)

MergeOf(l, j, h) ==
  LET ks == {k \in j : k <= h}
      up == ks # {} /\ ~tale.sideways
  IN [made |-> ks # {}, known |-> tale.known, anchor |-> IF up THEN tale.trunk ELSE {l[Base]},
      sideways |-> ks # {} /\ tale.sideways, unmoved |-> ~up, descends |-> TRUE,
      touched |-> UNION {Names(l[k - 1], l[k]) : k \in ks}]

\* the runs of the declared verifiers: an artefact is regenerated from "src"
RunsOf(tree) ==
  [p \in Artefacts |-> [setup |-> tale.setup, clean |-> IF tree[p] = tree["src"] THEN "zero" ELSE "other",
                        corrupted |-> IF tale.binds THEN "other" ELSE "zero"]]
RangeOf(l, j, h, b7) ==
  [before |-> l[Base], after |-> l[h], base |-> Base, head |-> h, commits |-> (Base + 1)..h,
   merge |-> MergeOf(l, j, h), graph |-> tale.graph, inbound |-> tale.inbound, nodeless |-> tale.nodeless,
   worktree |-> TRUE, rank |-> [p \in Artefacts |-> 1], job |-> tale.job, conclusion |-> tale.conclusion,
   runs |-> RunsOf(l[h]),
   authority |-> b7.authority, second |-> b7.second, candidate |-> tale.candidate]

------------------------------------------------------------------------------
(* Receipts.                                                                *)

ReceiptBinds(r, h) ==
  /\ r.mode \in {"diff", "worktree"} /\ r.head \in (Base + 1)..h
  /\ r.mode = "diff" => r.base \in Base..h
Bound(d, h) == {r \in UNION Range(d) : ReceiptBinds(r, h)}
Unbound(d, h) == (UNION Range(d)) \ Bound(d, h)

\* verify.py's verdict on its own receipt, and that of the two exempt commands
AdmissionVerdict(verdicts, exemptions) ==
  LET exempted == {x.entity : x \in exemptions}
      open == {verdicts[e] : e \in DOMAIN verdicts \ exempted}
  IN Decide(<< <<F \in open, "refused">>, <<N \in open \/ DOMAIN verdicts = {}, "paused_safe">> >>,
            IF exemptions # {} THEN "admitted_with_exemptions" ELSE "admitted")

NewReceipt(l, b, h, a, no, at) ==
  Over([no |-> no, rev |-> 0, mode |-> "diff", base |-> b, head |-> h, captured |-> at,
        files |-> DOMAIN Changed([before |-> l[b], after |-> l[h]]),
        admission |-> AdmissionVerdict(a.verdicts, a.exemptions)], a)

\* the receipt the gate writes for a registered automated author, when every path is allowed
AllowlistOk(g) ==
  LET outside == DOMAIN Changed(g) \ tale.allowlist
      declared == outside \cap DeclaredArtefacts(DeclarationInForce(g))
  IN outside = {} \/ (outside = declared /\ VerifyDeclaredArtefacts(g, declared) = V)

SynthesizeAutomatedReceipt(l, g, a, at) ==
  LET job == Decide(<< <<tale.job = "none", N>>, <<tale.conclusion = "success", V>>,
                       <<tale.conclusion = "none", N>> >>, F)
      unit == {e \in DOMAIN a.verdicts : e[1] = "unit"}
      measured == [e \in DOMAIN a.verdicts |->
                     IF e \in unit /\ a.verdicts[e] # F /\ job # V THEN job ELSE a.verdicts[e]]
      author == <<"authorship", g.head>>
      exempt == [entity |-> author, code |-> "automated", owner |-> TRUE, expires |-> at + StructuralTtl]
      judged == AdmissionVerdict(measured, {})
  IN IF ~tale.graph \/ DOMAIN Changed(g) \cap FallbackPaths = {} THEN {}
     ELSE {[NewReceipt(l, g.base, g.head, a, 0, at) EXCEPT
              !.verdicts = [e \in DOMAIN measured \cup {author} |-> IF e = author THEN N ELSE measured[e]],
              !.exemptions = @ \cup {exempt},
              !.admission = IF judged = "admitted" THEN "admitted_with_exemptions" ELSE judged]}

------------------------------------------------------------------------------
(* Structural exemptions.                                                   *)

SynthesizedEntity(case, h) == <<case, h>>
PathOf(e) == IF e[1] \in DOMAIN tale.path THEN tale.path[e[1]] ELSE "none"
StructuralCovered(case, entities, g, pins) ==
  IF case = "gate_self_update"
  THEN {e \in entities : PathOf(e) \in Managed(g) \cup pins \/ e[1] \in tale.unverifiable}
  ELSE {e \in entities : case = "spent_receipt_archive" /\ e[1] \in tale.unverifiable}

StructuralExemption(g, case, pins, r, at) ==
  {[entity |-> e, code |-> case, owner |-> TRUE, expires |-> at + StructuralTtl,
    binding |-> <<g.base, g.head>>, b7 |-> [authority |-> g.authority, second |-> g.second]] :
     e \in StructuralCovered(case, DOMAIN r.verdicts, g, pins) \cup {SynthesizedEntity(case, g.head)}}

\* an exact artefact of the base's declaration, there at head (and at base), that is no verifier itself
RecordPathOk(g, p, atBase) ==
  LET entries == ReadDeclaration(g.before)
  IN /\ p \in DeclaredArtefacts(entries) /\ g.after[p] # {}
     /\ atBase => g.before[p] # {}
     /\ p \notin UNION {e.command : e \in UsableEntries(entries)}

\* the commit that files the receipt of a refresh, with the artefacts it regenerates
RecordRangeOk(g, l, filed, rhead) ==
  LET moved == Names(l[rhead], g.after)
  IN /\ filed # {} /\ rhead # g.head /\ rhead \in g.commits /\ filed \subseteq moved
     /\ \A p \in moved \ filed : RecordPathOk(g, p, TRUE)

DerivedRunVerdict(g, p, derived) == p \in derived /\ DerivedRun(g.runs[p]) = <<V, V>>

\* the gate's own look at the structural exemptions of a receipt: no problem, and what stays unmeasured
RecheckCase(l, r, struct, g, split, case, covered, record, battery) ==
  LET synths == {SynthesizedEntity(case, k) : k \in {g.head} \cup IF record THEN {r.head} ELSE {}}
      named == {x.entity : x \in struct}
  IN [ok |->
        /\ Cardinality({x.code : x \in struct}) = 1
        /\ \A x \in struct : \/ x.binding = <<Base, g.head>>
                             \/ record /\ x.binding = <<Base, r.head>>
        /\ \A x \in struct : x.code = case
        /\ named \subseteq covered \cup synths
        /\ named \cap synths # {}
        /\ battery.eligible
        /\ record /\ (\E x \in struct : x.binding[2] = r.head) =>
             \A p \in Names(l[r.head], g.after) \ split.receipt : DerivedRunVerdict(g, p, split.derived),
      gap |-> battery.gap # {}]
RecheckAs(l, r, struct, g, split, case) ==
  IF case = "none" THEN [ok |-> FALSE, gap |-> FALSE]
  ELSE RecheckCase(l, r, struct, g, split, case, StructuralCovered(case, DOMAIN r.verdicts, g, split.pins),
         RecordRangeOk(g, l, IF case = "gate_self_update" THEN split.receipt ELSE {}, r.head),
         EvaluateStructural(g, case, split))
RecheckRange(l, r, struct, g, split) == RecheckAs(l, r, struct, g, split, StructuralCaseOf(g, split))
RecheckOf(l, r, struct, g) == RecheckRange(l, r, struct, g, SplitOutside(g))
\* Mutant of RecheckStructural: the exemption is rechecked over the receipt's own range.
RecheckStructuralAtReceipt(l, j, h, r, struct) ==
  IF struct = {} THEN [ok |-> TRUE, gap |-> FALSE]
  ELSE RecheckOf(l, r, struct, RangeOf(l, j, r.head, Only(struct).b7))
RecheckStructural(l, j, h, r, struct) ==
  IF struct = {} THEN [ok |-> TRUE, gap |-> FALSE]
  ELSE RecheckOf(l, r, struct, RangeOf(l, j, h, Only(struct).b7))

------------------------------------------------------------------------------
(* Decisions to proceed.                                                    *)

\* who may sign: the policy at the base in the program's repository, else that of the pinned bundle
DecisionSigners(l, b) == IF tale.program THEN UNION l[b]["policy"] ELSE tale.pinned

DecisionEligible(l, r, e, class) ==
  /\ e \in DOMAIN r.verdicts /\ r.verdicts[e] = N /\ PathOf(e) # Book
  /\ r.reasons[e] = class
  /\ class = "historical_receipt" =>
       PathOf(e) \in (ReceiptPaths \cup ArchivePaths) \cap Added([before |-> l[r.base], after |-> l[r.head]])
  /\ class = "no_live_contour" => ~tale.contour

\* Mutant of DecisionOk: the signers are those of the receipt's base.
DecisionOkAtReceiptBase(l, r, x, at) ==
  /\ x.signer \in DecisionSigners(l, r.base)
  /\ at < x.expires /\ x.expires - x.at <= DecisionTtl /\ x.at <= at
  /\ x.binding = <<r.base, r.head>> /\ x.receipt = r.no
  /\ DecisionEligible(l, r, x.entity, x.class)

DecisionOk(l, r, x, at) ==
  /\ x.signer \in DecisionSigners(l, Base)
  /\ at < x.expires /\ x.expires - x.at <= DecisionTtl /\ x.at <= at
  /\ x.binding = <<r.base, r.head>> /\ x.receipt = r.no
  /\ DecisionEligible(l, r, x.entity, x.class)

------------------------------------------------------------------------------
(* The ledger, and the commits behind the receipt.                          *)

EmptyLedger == [item |-> tale.item, rest |-> 0, rows |-> {}]
LedgerAt(tree) == IF tree[Book] = {} THEN EmptyLedger ELSE Only(tree[Book])

\* the last receipt of this range that has the ledger among its own changes
CoveredLedgerAnchor(l, bound) ==
  LET heads == {r.head : r \in {q \in bound :
                  /\ q.mode = "diff" /\ q.base = Base /\ q.item = {tale.item} /\ Book \in q.files
                  /\ l[q.head][Book] # {} /\ l[q.head][Book] # l[Base][Book]}}
  IN IF heads = {} THEN Base ELSE Max(heads)

\* a record commit adds the evidence of this change and leaves the rest of the ledger alone
LedgerDocumentOk(new, old, bound) ==
  LET mine == {Digest(r) : r \in bound}
  IN /\ new.item = old.item /\ new.rest = old.rest
     /\ \A x \in new.rows : x.digest \in mine \/ x \in old.rows
     /\ {x.digest : x \in old.rows} \subseteq {x.digest : x \in new.rows}

LedgerPathOk(l, h, bound) ==
  /\ tale.program /\ \E r \in bound : r.item = {tale.item}
  /\ l[h][Book] # {} /\ Only(l[h][Book]).item = tale.item
  /\ LedgerDocumentOk(Only(l[h][Book]), LedgerAt(l[CoveredLedgerAnchor(l, bound)]), bound)

\* what a commit changed: a merge brings in the other branch's commits, and its own resolutions
TouchedBy(l, j, k) ==
  IF k \notin j THEN Names(l[k - 1], l[k])
  ELSE UNION {Names(l[Base], t) \cup (Names(l[k - 1], l[k]) \cap Names(t, l[k])) : t \in tale.trunk}

\* Mutant of TrailingCommits: the first commit after the receipt's head is taken for the head.
TrailingCommitsLate(h, bound) == {k \in (Base + 1)..h : \A r \in bound : r.head + 1 < k}
TrailingCommits(h, bound) == {k \in (Base + 1)..h : \A r \in bound : r.head < k}

\* the paths those commits changed: which are records, and which nobody has seen
TrailingPaths(l, j, h, bound) ==
  (UNION {TouchedBy(l, j, k) : k \in TrailingCommits(h, bound)}) \cap Names(l[Base], l[h])
SortRecords(l, d, g, bound, trailing, ledgers) ==
  LET h == g.head
      receipts == {p \in trailing \cap ReceiptPaths : d[p] # {} /\ d[p] \subseteq bound /\ l[h][p] = d[p]}
      ledger == trailing \cap ledgers
      derived == {p \in trailing \ (receipts \cup ledger) : p # Book /\ RecordPathOk(g, p, FALSE)}
      proved == IF derived # {} /\ VerifyDeclaredArtefacts(g, derived) = V THEN derived ELSE {}
      record == receipts \cup ledger \cup proved
      within == UNION {Names(l[Base], l[r.head]) : r \in bound}
  IN [admitted |-> record \ within, after |-> trailing \ record]
TrailingRecords(l, j, d, g, bound) ==
  SortRecords(l, d, g, bound, TrailingPaths(l, j, g.head, bound), IF LedgerPathOk(l, g.head, bound) THEN {Book} ELSE {})

------------------------------------------------------------------------------
(* The gate.                                                                *)

\* a verdict that rests on endpoint probes is worth what they saw
ProbeEffective(r) ==
  [e \in DOMAIN r.verdicts |->
     LET seen == {o.seen : o \in {q \in r.probes : q.entity = e}}
     IN IF r.verdicts[e] # V THEN r.verdicts[e]
        ELSE Worst(UNION {IF s = {} THEN {N} ELSE s : s \in seen})]

\* the canaries a receipt lives on, and what their documents at head list
CashedCanaries(r, claims) ==
  {c \in r.canaries : \/ c.cited
                      \/ c.entities \cap (IF r.admission \in {"admitted", "admitted_with_exemptions"} THEN claims
                                          ELSE {e \in claims : r.verdicts[e] = V}) # {}}
CanaryCovered(r) == UNION {c.listed : c \in {q \in r.canaries : q.opens}}
CanaryProblem(c) == ~c.opens \/ ~(c.entities \subseteq c.listed)

\* C10, C21 and C16 in turn: the exemptions that stand
DatedExemptions(r) ==
  {x \in r.exemptions : x.owner /\ r.captured < x.expires /\ x.entity \in DOMAIN r.verdicts}
UndecidedExemptions(l, r, at) ==
  {x \in r.exemptions : x.code \notin StructuralCodes /\ IF x.code = Decision THEN ~DecisionOk(l, r, x, at) ELSE tale.signed}
StructuralOf(r) == {x \in r.exemptions : x.code \in StructuralCodes}

Codes(rows) == {row[2] : row \in {q \in rows : q[1]}}

\* C04 to C12 of one receipt
GateReceipt(r, undecided, recheck) ==
  LET struct == StructuralOf(r)
      valid == {x.entity : x \in DatedExemptions(r)} \ ({x.entity : x \in undecided} \cup
                 IF recheck.ok THEN {} ELSE {x.entity : x \in struct})
      verdict == ProbeEffective(r)
      open == {verdict[e] : e \in DOMAIN verdict \ valid}
      claims == r.far \ valid
  IN Codes({
       <<~r.conformant, "C04">>, <<~r.fresh, "C07">>, <<~r.covers, "C18">>,
       <<DatedExemptions(r) # r.exemptions, "C10">>, <<undecided # {}, "C21">>,
       <<~recheck.ok, "C16">>, <<recheck.ok /\ recheck.gap, "C17">>, <<verdict # r.verdicts, "C19">>,
       <<F \in open, "C08">>, <<N \in open, "C09">>,
       <<r.admission = "paused_safe", "C11p">>,
       <<r.admission \notin {"admitted", "admitted_with_exemptions", "paused_safe"}, "C11">>,
       <<\E c \in CashedCanaries(r, claims) : CanaryProblem(c), "C12">>,
       <<~(claims \subseteq CanaryCovered(r)), "C12">> })

\* C13: the work item of every receipt holds its evidence
EvidenceMissing(r, book) ==
  LET rows == UNION {{x \in b.rows : x.digest = Digest(r)} : b \in book}
  IN r.item = {} \/ rows = {} \/ (tale.enforcement = "muneral" /\ \E x \in rows : x.delivery # "posted")

EvidenceGap(bound, book) == \E r \in bound : EvidenceMissing(r, book)

RefuseCodes == {"C01", "C02", "C03", "C04", "C05", "C06", "C07", "C08", "C10", "C11", "C12", "C16", "C19", "C21"}
PauseCodes == {"C09", "C11p", "C13", "C18"}

Verdict(codes) ==
  Decide(<< <<codes \cap RefuseCodes # {}, "refuse">>, <<codes \cap PauseCodes # {}, "paused_safe">> >>, "admit")
GateCodes(d, h, book, own, bound, changed, records) ==
  LET uncovered == changed \ ((UNION {r.files : r \in bound}) \cup records.admitted)
  IN Codes({
       <<tale.description = "bypass", "C01">>, <<own # {}, "C14">>,
       <<tale.author # "human" /\ own = {}, "C15">>,
       <<tale.explicit /\ Unbound(d, h) # {}, "C05">>,
       <<bound = {}, "C03">>, <<bound = {} /\ tale.description = "claim", "C02">>,
       <<bound # {} /\ (uncovered \cup records.after) # {}, "C06">>,
       <<tale.enforcement # "off" /\ EvidenceGap(bound, book), "C13">> })
Gate(l, j, d, book, at, own, bound, g) ==
  GateCodes(d, g.head, book, own, bound, DOMAIN Changed(g), TrailingRecords(l, j, d, g, bound))
  \cup UNION {GateReceipt(r, IF r \in own THEN {} ELSE UndecidedExemptions(l, r, at),
                            RecheckStructural(l, j, g.head, r, StructuralOf(r))) : r \in bound}

------------------------------------------------------------------------------
(* The author's steps.                                                      *)

Init ==
  /\ tale \in Tales
  /\ log = <<tale.tree>> /\ joined = {}
  /\ desk = [p \in ReceiptPaths |-> tale.tree[p]] /\ folio = tale.tree[Book]
  /\ wire = {} /\ hour = 0 /\ issued = 0 /\ penned = FALSE /\ ruling = {}

Open == ruling = {}
Room == Len(log) < tale.room
Checkout(patch) ==
  /\ desk' = [p \in ReceiptPaths |-> IF p \in DOMAIN patch THEN patch[p] ELSE desk[p]]
  /\ folio' = IF Book \in DOMAIN patch THEN patch[Book] ELSE folio

Edit ==
  /\ Open /\ Room
  /\ \E patch \in tale.patches :
       /\ Over(patch, Last(log)) # Last(log)
       /\ log' = Append(log, Over(patch, Last(log)))
       /\ Checkout(patch)
  /\ penned' = FALSE /\ UNCHANGED <<tale, joined, wire, hour, issued, ruling>>

\* the other branch is merged; a path both sides changed ends as one of the two
Merge ==
  /\ Open /\ Room /\ joined = {}
  /\ \E t \in tale.trunk : \E ours \in SUBSET (Names(log[Base], t) \cap Names(log[Base], Last(log))) :
       log' = Append(log, [p \in DOMAIN t |-> IF p \in Names(log[Base], t) \ ours THEN t[p] ELSE Last(log)[p]])
  /\ joined' = {Len(log) + 1}
  /\ penned' = FALSE /\ UNCHANGED <<tale, desk, folio, wire, hour, issued, ruling>>

\* verify.py --diff b..head --out p
Issue ==
  /\ Open /\ issued < tale.issues
  /\ \E b \in Base..(Len(log) - 1), p \in ReceiptPaths, a \in tale.answers :
       desk' = [desk EXCEPT ![p] = {NewReceipt(log, b, Len(log), a, issued + 1, hour)}]
  /\ issued' = issued + 1 /\ penned' = FALSE
  /\ UNCHANGED <<tale, log, joined, folio, wire, hour, ruling>>

\* the receipts at head that declare the work item: reissue replaces the only one
PreviousSelfReceipts(tree) == {p \in ReceiptPaths : \E r \in tree[p] : r.item = {tale.item}}
Reissue ==
  /\ Open /\ issued < tale.issues /\ Len(log) > Base
  /\ Cardinality(PreviousSelfReceipts(Last(log))) = 1
  /\ \E a \in tale.answers : a.item = {tale.item} /\
       desk' = [desk EXCEPT ![Only(PreviousSelfReceipts(Last(log)))] =
                  {NewReceipt(log, Base, Len(log), a, issued + 1, hour)}]
  /\ issued' = issued + 1 /\ penned' = FALSE
  /\ UNCHANGED <<tale, log, joined, folio, wire, hour, ruling>>

\* an opinion another authority gave on an earlier or on this head
Opinions == {NoOpinion} \cup
  {[authority |-> "author", second |-> {Opine(RangeOf(log, joined, h, NoOpinion), who)}] :
     h \in (Base + 1)..Len(log), who \in tale.authorities}

Exempted(r, case, g, pins, at) ==
  LET synth == SynthesizedEntity(case, g.head)
      verdicts == [e \in DOMAIN r.verdicts \cup {synth} |-> IF e = synth THEN N ELSE r.verdicts[e]]
      kept == {x \in r.exemptions : x.code \notin StructuralCodes} \cup StructuralExemption(g, case, pins, r, at)
  IN [r EXCEPT !.verdicts = verdicts, !.exemptions = kept, !.rev = @ + 1,
               !.admission = AdmissionVerdict(verdicts, kept)]

\* admit_change.py exempt, over base..head
Exempt ==
  /\ Open /\ Len(log) > Base
  /\ \E p \in ReceiptPaths : \E r \in desk[p] : \E b7 \in Opinions :
       /\ r.rev < tale.revisions
       /\ \E g \in {RangeOf(log, joined, Len(log), b7)} : \E split \in {SplitOutside(g)} :
          \E case \in {StructuralCaseOf(g, split)} \ {"none"} :
            /\ (case = "declaration_amend") = (b7 # NoOpinion)
            /\ EvaluateStructural(g, case, split).eligible
            /\ desk' = [desk EXCEPT ![p] = {Exempted(r, case, g, split.pins, hour)}]
  /\ penned' = FALSE /\ UNCHANGED <<tale, log, joined, folio, wire, hour, issued, ruling>>

\* admit_change.py exempt-decision: signed over the range of the receipt
Decided(r, e, class, who, at) ==
  LET x == [entity |-> e, code |-> Decision, owner |-> TRUE, expires |-> at + DecisionTtl, at |-> at,
            binding |-> <<r.base, r.head>>, receipt |-> r.no, signer |-> who, class |-> class]
      kept == {y \in r.exemptions : y.entity # e} \cup {x}
  IN [r EXCEPT !.exemptions = kept, !.rev = @ + 1, !.admission = AdmissionVerdict(r.verdicts, kept)]

ExemptDecision ==
  /\ Open
  /\ \E p \in ReceiptPaths : \E r \in desk[p] : \E e \in DOMAIN r.verdicts,
         class \in {"historical_receipt", "no_live_contour"}, who \in tale.keys :
       /\ r.rev < tale.revisions /\ r.base \in Base..Len(log) /\ r.head \in Base..Len(log)
       /\ who \in DecisionSigners(log, r.base) /\ DecisionEligible(log, r, e, class)
       /\ desk' = [desk EXCEPT ![p] = {Decided(r, e, class, who, hour)}]
  /\ penned' = FALSE /\ UNCHANGED <<tale, log, joined, folio, wire, hour, issued, ruling>>

\* an older entry of the same receipt file is dead, unless it stood at the anchor
Superseded(ledger, att, anchor) ==
  {x \in ledger.rows : x.path = att.path /\ x.digest # att.digest /\ x \notin anchor.rows}
MergeAttachment(ledger, att, anchor) ==
  [ledger EXCEPT !.rows = {x \in @ \ Superseded(ledger, att, anchor) : x.digest # att.digest} \cup {att}]

\* Mutant of Attachable: the merged document is not judged before it is written.
AttachableUnjudged(ledger, merged, anchor, bound) == ledger.item = tale.item

\* what attach demands of the ledger it found and of the one it is about to write
Attachable(ledger, merged, anchor, bound) ==
  /\ \A x \in LedgerAt(log[Base]).rows : x \in anchor.rows \/ x.digest \in {Digest(r) : r \in bound}
  /\ ledger.item = tale.item
  /\ LedgerDocumentOk(merged, anchor, bound)

\* admit_change.py attach. The ledger is merged before the post; the entry of a receipt that was
\* attached before is a copy, which the answer of the post does not reach. A delivery is the status a
\* post ends in, and whether Muneral now holds the evidence.
Attach ==
  /\ Open /\ tale.program /\ tale.author # "bot"
  /\ \E p \in ReceiptPaths, d \in tale.deliveries :
       LET h == Len(log)
           bound == Bound(desk, h)
           anchor == LedgerAt(log[CoveredLedgerAnchor(log, bound)])
           ledger == IF folio = {} THEN anchor ELSE Only(folio)
           digest == Digest(Only(desk[p]))
           refreshed == digest \in {x.digest : x \in ledger.rows}
           status == IF refreshed THEN "not_measured" ELSE d[1]
           att == [digest |-> digest, path |-> p, delivery |-> status]
           merged == MergeAttachment(ledger, att, anchor)
       IN /\ desk[p] # {} /\ desk[p] \subseteq bound /\ Only(desk[p]).item = {tale.item}
          /\ tale.explicit => Unbound(desk, h) = {}
          /\ Attachable(ledger, merged, anchor, bound)
          /\ folio' = {merged}
          /\ wire' = IF d[2] THEN wire \cup {digest} ELSE wire
  /\ penned' = TRUE /\ UNCHANGED <<tale, log, joined, desk, hour, issued, ruling>>

\* git commit of the records of the working tree
CommitRecords ==
  /\ Open /\ Room
  /\ \E S \in SUBSET (ReceiptPaths \cup {Book}) :
       LET tree == [p \in DOMAIN Last(log) |->
                      IF p \in S THEN (IF p = Book THEN folio ELSE desk[p]) ELSE Last(log)[p]]
       IN tree # Last(log) /\ log' = Append(log, tree)
  /\ penned' = FALSE /\ UNCHANGED <<tale, joined, desk, folio, wire, hour, issued, ruling>>

\* the clock matters only to what is dated
Tick ==
  /\ Open /\ hour < MaxHour /\ \E r \in UNION Range(desk) : r.exemptions # {}
  /\ hour' = hour + 1 /\ UNCHANGED <<tale, log, joined, desk, folio, wire, issued, penned, ruling>>

\* admit_change.py gate: for an automated author it first writes a receipt of its own
OwnReceipts ==
  LET g == RangeOf(log, joined, Len(log), NoOpinion)
  IN IF tale.author # "bot" \/ ~AllowlistOk(g) THEN {{}}
     ELSE {SynthesizeAutomatedReceipt(log, g, a, hour) : a \in tale.answers}
Judge ==
  /\ Open /\ Len(log) > Base
  /\ \E own \in OwnReceipts :
       \E codes \in {Gate(log, joined, desk, folio, hour, own, Bound(desk, Len(log)) \cup own,
                          RangeOf(log, joined, Len(log), NoOpinion))} :
         ruling' = {[codes |-> codes, verdict |-> Verdict(codes), own |-> own]}
  /\ UNCHANGED <<tale, log, joined, desk, folio, wire, hour, issued, penned>>

Next == Edit \/ Merge \/ Issue \/ Reissue \/ Exempt \/ ExemptDecision \/ Attach \/ CommitRecords \/ Tick \/ Judge
Spec == Init /\ [][Next]_vars

------------------------------------------------------------------------------
(* Properties.                                                              *)

Admitted == \E q \in ruling : q.verdict = "admit"
Judged == Bound(desk, Len(log)) \cup UNION {q.own : q \in ruling}

\* the final bytes of p are ones the gate has a reason to know
Known(p) ==
  LET h == Len(log)
      g == RangeOf(log, joined, h, NoOpinion)
      anchor == LedgerAt(log[CoveredLedgerAnchor(log, Judged)])
  IN \/ \E r \in Judged : p \in r.files /\ log[r.head][p] = log[h][p]
     \/ p \in ReceiptPaths /\ log[h][p] \subseteq Judged
     \/ p \in DeclaredArtefacts(ReadDeclaration(log[Base])) /\ DerivedRun(g.runs[p]) = <<V, V>>
     \/ p = Book /\ \A b \in log[h][Book] : /\ b.rest = anchor.rest
                     /\ \A x \in b.rows \ anchor.rows : x.digest \in {Digest(r) : r \in Judged}

(* When every receipt starts at the gate's base, an admitted range has no    *)
(* bytes that nobody saw: each changed path ends as a verified receipt of it *)
(* saw it, or is a record: the judged receipt itself, an artefact that its   *)
(* own verifier proves, the ledger with nothing but this change's evidence   *)
(* added. (trailing_record_commits, C06.)                                    *)
AdmittedSawFinalBytes ==
  (Admitted /\ \A r \in Judged : r.base = Base) =>
    \A p \in Names(log[Base], Last(log)) : Known(p)

(* A structural exemption covers the change it was issued for: the judged    *)
(* range is a change of its case and, when every receipt starts at the       *)
(* gate's base, whatever moved since the head of its binding is a record.    *)
(* (recheck_structural, DEC-AUP-0041.)                                       *)
ExemptionIsForTheseBytes ==
  Admitted => \A r \in Judged : \A x \in StructuralOf(r) :
    /\ \A g \in {RangeOf(log, joined, Len(log), NoOpinion)} : StructuralCaseOf(g, SplitOutside(g)) = x.code
    /\ (\A q \in Judged : q.base = Base) => \A p \in Names(log[x.binding[2]], Last(log)) : Known(p)

(* Nothing is admitted while an entity is open: an entity that is not        *)
(* verified has an exemption that still holds, and a failed one none that a  *)
(* mere decision gave, nor one signed with a key this change enrolled.       *)
OpenIsAccounted ==
  Admitted => \A r \in Judged : \A e \in DOMAIN r.verdicts :
    r.verdicts[e] # V => \E x \in r.exemptions :
      /\ x.entity = e /\ r.captured < x.expires
      /\ x.code = Decision =>
           /\ r.verdicts[e] = N /\ hour < x.expires
           /\ x.signer \in (IF tale.program THEN UNION log[Base]["policy"] ELSE tale.pinned)

(* The ledger attach writes is one the gate admits: committed with the       *)
(* receipts as they stand, it is a record and not an edit nobody saw.        *)
AttachedIsAdmissible ==
  penned =>
    LET tree == [p \in DOMAIN Last(log) |->
                   IF p = Book THEN folio ELSE IF p \in ReceiptPaths THEN desk[p] ELSE Last(log)[p]]
        l == Append(log, tree)
        g == RangeOf(l, joined, Len(l), NoOpinion)
    IN Book \notin TrailingRecords(l, joined, desk, g, Bound(desk, Len(l))).after
=============================================================================
