---------------------------- MODULE StructuralCase ---------------------------
(***************************************************************************)
(* admit_change.py: the changes whose impact the graph cannot compute, and *)
(* the batteries that must pass before such a change is exempted.          *)
(*                                                                         *)
(* A range g has the trees `before` and `after` (a path holds {} or one    *)
(* content, so equal contents are equal blobs), its commits, and what is   *)
(* measured at its head: the graph, the runs of the declared verifiers,    *)
(* the CI job. The content of "bundle" is the manifest of the vendored     *)
(* gate with what its tools are and who signed it; that of "call" the pins *)
(* of the caller's workflow; that of "decl" the declaration of derived     *)
(* artefacts.                                                              *)
(***************************************************************************)
EXTENDS Decisions, SequencesExt

ReceiptPaths == {"rcpt", "rcpt2"}       \* receipts/graph/*.json
ArchivePaths == {"archive"}             \* receipts/archive/*.json
FallbackPaths == {"lock"}               \* lockfiles and global configuration (impact.py)
CallerPath == "call"                    \* .github/workflows/graph-admission-call.yml
Only(S) == CHOOSE x \in S : TRUE
Maybe(c) == IF c THEN V ELSE F

------------------------------------------------------------------------------
(* The range.                                                               *)

\* git diff -M: a path that moves unchanged is one row, at its new place
Moved(g) == {p \in DOMAIN g.before : g.before[p] # g.after[p]}
RenamedTo(g) == {p \in Moved(g) \cap ArchivePaths :
                   g.before[p] = {} /\ \E q \in ReceiptPaths : g.after[q] = {} /\ g.before[q] = g.after[p]}
RenamedFrom(g) == {q \in Moved(g) \cap ReceiptPaths :
                     g.after[q] = {} /\ \E p \in RenamedTo(g) : g.before[q] = g.after[p]}
Changed(g) ==
  [p \in Moved(g) \ RenamedFrom(g) |->
     Decide(<< <<p \in RenamedTo(g), "R">>, <<g.before[p] = {}, "A">>, <<g.after[p] = {}, "D">> >>, "M")]
Added(g) == {p \in DOMAIN Changed(g) : Changed(g)[p] = "A"}

\* what a binding names: the rows of the diff and the blobs they end in
DiffDigest(g) == [p \in DOMAIN Changed(g) |-> <<Changed(g)[p], g.after[p]>>]

\* the manifest, and the paths it manages
BundleManaged(tree) == UNION {m.manages \cup {"bundle"} : m \in tree["bundle"]}
Managed(g) == BundleManaged(g.before) \cup BundleManaged(g.after)

\* the declaration: {} when there is none or it cannot be used
ReadDeclaration(tree) == {d.entries : d \in {x \in tree["decl"] : x.usable}}
Bootstraps(g) == /\ ReadDeclaration(g.before) = {} /\ "decl" \in Added(g)
                 /\ ReadDeclaration(g.after) # {}
DeclarationInForce(g) == ReadDeclaration(IF Bootstraps(g) THEN g.after ELSE g.before)
UsableEntries(decl) == {e \in UNION decl : e.exact /\ e.argv}
BadEntries(decl) == (UNION decl) \ UsableEntries(decl)
DeclaredArtefacts(decl) == {e.path : e \in UsableEntries(decl)}
EntryOf(decl, p) == CHOOSE e \in UsableEntries(decl) : e.path = p

------------------------------------------------------------------------------
(* What may stand beside a refresh of the bundle.                           *)

\* the receipt this refresh files of itself
SelfUpdateReceiptOk(g, p) ==
  /\ p \in Added(g)
  /\ \A r \in g.after[p] : r.item # {} /\ r.mode = "diff" /\ r.base = g.base /\ r.head \in g.commits

SplitSelfUpdateReceipt(g, outside) ==
  LET candidates == outside \cap ReceiptPaths
      own == {p \in candidates : SelfUpdateReceiptOk(g, p)}
      \* its canary documents: one triple of records the range adds
      triples == UNION {r.triples : r \in UNION {g.after[p] : p \in own}}
      records == {t \in triples : t \subseteq outside \cap Added(g)}
  IN IF Cardinality(candidates) # 1 \/ own = {} THEN [own |-> {}, rest |-> outside]
     ELSE [own |-> own, rest |-> outside \ (own \cup IF Cardinality(triples) = 1 THEN UNION records ELSE {})]

\* the base branch merged into the topic: a path is its own when it ends in the base branch's blob
SplitBaseBranchMerge(g, outside) ==
  LET m == g.merge
      anchor == Only(m.anchor)
      identical == {p \in outside : g.after[p] = anchor[p]}
      verdict == Decide(<<
        <<~m.made, "vacuous">>,
        <<~m.known \/ m.anchor = {}, N>>,
        <<m.sideways, F>>,
        <<m.unmoved, "vacuous">>,
        <<~m.descends, F>>,
        <<m.touched \cap Managed(g) # {}, F>> >>, "compare")
  IN IF verdict # "compare" THEN [merged |-> {}, rest |-> outside, verdict |-> verdict]
     ELSE [merged |-> identical, rest |-> outside \ identical, verdict |-> V]

\* the caller's workflow: nothing but its pins, each moved to the reference of the head bundle
BaseLocalWorkflowBound(g) == \A m \in g.before["bundle"] : g.before["flow"] = {m.flow}
PinOnlyEdit(g, p) ==
  LET refs == {m.ref : m \in g.after["bundle"]}
      old == Only(g.before[p])
      new == Only(g.after[p])
      migrates == old.uses = "local" /\ new.uses # "local"
  IN /\ p = CallerPath /\ g.before[p] # {} /\ g.after[p] # {} /\ refs # {}
     /\ new.rest = old.rest
     /\ new.uses = old.uses \/ new.uses \in refs
     /\ new.pin = old.pin \/ new.pin \in refs
     /\ migrates => g.before["bundle"] # {} /\ BaseLocalWorkflowBound(g) /\ new.pin # old.pin

\* the three splits, in their order
SplitRest(g, own, merge, declared) ==
  LET pins == {p \in merge.rest \ declared : PinOnlyEdit(g, p)}
  IN [receipt |-> own, merged |-> merge.merged, verdict |-> merge.verdict, pins |-> pins,
      derived |-> merge.rest \cap declared, real |-> merge.rest \ (declared \cup pins)]
SplitAround(g, receipt) ==
  SplitRest(g, receipt.own,
            IF receipt.rest = {} THEN [merged |-> {}, rest |-> {}, verdict |-> "vacuous"]
            ELSE SplitBaseBranchMerge(g, receipt.rest),
            DeclaredArtefacts(DeclarationInForce(g)))
SplitOutside(g) ==
  SplitAround(g, SplitSelfUpdateReceipt(g,
    DOMAIN Changed(g) \ (Managed(g) \cup IF Bootstraps(g) THEN {"decl"} ELSE {})))

------------------------------------------------------------------------------
(* Which case a range is.                                                   *)

SameReceiptOutsideArchive(g, dest) == \E p \in ReceiptPaths : g.after[p] = g.after[dest]

\* S1, S2 and S3: the shape of the move, the bytes, and that nothing is left behind
ArchiveShape(paths) ==
  /\ Cardinality(paths) <= 2 /\ Cardinality(paths \cap ArchivePaths) = 1
  /\ paths \subseteq ReceiptPaths \cup ArchivePaths
ArchiveBytes(g, paths) ==
  LET dest == Only(paths \cap ArchivePaths)
  IN g.after[dest] # {} /\ \A src \in paths \ {dest} : g.before[src] = g.after[dest]
ArchiveMoved(g, paths) == ~SameReceiptOutsideArchive(g, Only(paths \cap ArchivePaths))
IsSpentReceiptArchive(g, paths) == ArchiveShape(paths) /\ ArchiveBytes(g, paths) /\ ArchiveMoved(g, paths)

StructuralCaseOf(g, split) ==
  LET changed == Changed(g)
      declared == DeclaredArtefacts(DeclarationInForce(g))
      receiptMove == DOMAIN changed \ declared
      bundled == Managed(g) # {}
      edited == {p \in DOMAIN changed : changed[p] # "A"} \ IF bundled THEN split.merged ELSE {}
  IN IF DOMAIN changed = {} THEN "none"
     ELSE IF DOMAIN changed = {"decl"} /\ changed["decl"] = "M" THEN "declaration_amend"
     ELSE Decide(<<
            <<receiptMove # {} /\ IsSpentReceiptArchive(g, receiptMove), "spent_receipt_archive">>,
            <<bundled /\ split.real = {} /\ edited \cap BundleManaged(g.before) # {}, "gate_self_update">>,
            <<edited \ declared = {}, "no_impact_by_construction">> >>, "none")

------------------------------------------------------------------------------
(* The batteries. An arm is verified, failed or not measured.               *)

\* B6.4 and B6.5: the declared verifier accepts the head tree and refuses it with one byte corrupted;
\* the first path that is not accepted ends the run
DerivedRun(run) == Decide(<<
  <<run.setup # "zero", <<N, N>> >>,
  <<run.clean # "zero", <<F, N>> >>,
  <<run.corrupted # "other", <<V, F>> >> >>, <<V, V>>)

FirstUnproved(g, derived) ==
  LET bad == {p \in derived : DerivedRun(g.runs[p]) # <<V, V>>}
  IN IF bad = {} THEN {} ELSE {CHOOSE p \in bad : \A q \in bad : g.rank[p] <= g.rank[q]}

EvaluateDerived(g, derived, case) ==
  LET decl == DeclarationInForce(g)
      changed == Changed(g)
      declTouched == "decl" \in DOMAIN changed
      bootstrap == "decl" \in Added(g) /\ case = "gate_self_update"
      stop == FirstUnproved(g, derived)
      runs == IF stop = {} THEN <<V, V>> ELSE DerivedRun(g.runs[Only(stop)])
      jobs == {EntryOf(decl, p).job : p \in derived}
      b61 == Maybe(/\ decl # {} /\ ~(declTouched /\ ~bootstrap) /\ BadEntries(decl) = {}
                   /\ derived \subseteq DeclaredArtefacts(decl))
      b62 == Maybe(\A p \in derived : changed[p] = "M")
      b63 == Decide(<< <<derived \cap FallbackPaths # {}, F>>, <<~g.graph, N>>,
                       <<derived \cap g.inbound # {}, F>> >>, V)
      b66 == Decide(<< <<g.job = "none" \/ g.conclusion = "none", N>>, <<jobs # {g.job}, F>> >>,
                    Maybe(g.conclusion = "success"))
  IN IF derived = {} THEN V
     ELSE Worst({b61, b62, b63, b66} \cup IF g.worktree THEN Range(runs) ELSE {N})

\* A1, A3, A2 (A4, the paths without a node, is only named)
EvaluateNoImpact(g) ==
  LET declared == DeclaredArtefacts(DeclarationInForce(g))
      others == DOMAIN Changed(g) \ Added(g)
      arms == {Maybe(others \subseteq declared),
               EvaluateDerived(g, others \cap declared, "no_impact_by_construction"),
               Maybe(Added(g) \cap FallbackPaths = {}),
               IF g.graph THEN Maybe(Added(g) \cap g.inbound = {}) ELSE N}
  IN [eligible |-> arms = {V}, gap |-> IF g.graph THEN Added(g) \cap g.nodeless ELSE {}]

\* some signature of the head bundle verifies against a key of the base bundle, with the base's code
KeyContinuity(g) ==
  LET base == g.before["bundle"]
      head == g.after["bundle"]
  IN Decide(<< <<base = {} \/ \E b \in base : ~b.verifies, N>>,
               <<head = {} \/ \E b \in base : b.keys = {}, N>>,
               <<\E h \in head : h.signers = {}, N>> >>,
            Maybe(\E b \in base, h \in head : b.keys \cap h.signers # {}))

\* the head bundle's own test: its exit code, and a summary that agrees with its arms
BundleSelftest(b) ==
  [exit |-> IF b.test = "crash" THEN "none" ELSE IF b.test = "fail" THEN "other" ELSE "zero",
   arms |-> IF b.test \in {"pass", "fail"} THEN {b.arms} ELSE {}]
SelfUpdateSelftest(g) ==
  LET t == BundleSelftest(Only(g.after["bundle"]))
  IN IF g.after["bundle"] = {} THEN N
     ELSE Decide(<< <<t.exit = "other", F>>, <<t.exit = "none" \/ t.arms = {}, N>> >>, V)

\* no check is dropped and the battery does not shrink
SelfUpdateMonotonic(g) ==
  LET b == Only(g.before["bundle"])
      h == Only(g.after["bundle"])
      was == BundleSelftest(b).arms
      now == BundleSelftest(h).arms
      shrank == \E x \in was, y \in now : y < x
  IN IF g.before["bundle"] = {} \/ g.after["bundle"] = {} THEN N
     ELSE Decide(<< <<~(b.ids \subseteq h.ids) \/ shrank, F>>, <<was = {} \/ now = {}, N>> >>, V)

\* the workflow that runs the gate is the one the signed manifest records
WorkflowIntegrity(g) ==
  LET head == g.after["bundle"]
  IN IF head = {} THEN N ELSE Maybe(\A m \in head : m.flow = 0 \/ g.after["flow"] = {m.flow})

EvaluateSelfUpdate(g, split) ==
  LET arms == {Maybe(split.real = {}), IF split.verdict = "vacuous" THEN V ELSE split.verdict,
               EvaluateDerived(g, split.derived, "gate_self_update"), KeyContinuity(g),
               SelfUpdateSelftest(g), SelfUpdateMonotonic(g), WorkflowIntegrity(g)}
  IN [eligible |-> arms = {V}, gap |-> IF g.graph THEN split.derived \cap g.nodeless ELSE {}]

\* all the declared verifiers, without the arms of B6
VerifyDeclaredArtefacts(g, paths) ==
  LET stop == FirstUnproved(g, paths)
      run == DerivedRun(g.runs[Only(stop)])
  IN Decide(<< <<~g.worktree, N>>, <<stop = {}, V>> >>, IF stop = {} THEN V ELSE IF run = <<N, N>> THEN N ELSE F)

EvaluateSpentReceiptArchive(g) ==
  LET declared == DeclaredArtefacts(DeclarationInForce(g))
      paths == DOMAIN Changed(g) \ declared
      aside == DOMAIN Changed(g) \cap declared
  IN [eligible |-> /\ IsSpentReceiptArchive(g, paths)
                   /\ aside = {} \/ VerifyDeclaredArtefacts(g, aside) = V,
      gap |-> {}]

------------------------------------------------------------------------------
(* B7: one edit of the declaration, in a closed grammar.                    *)

\* a pattern is the literal before its wildcard, the wildcard, and the literal after it; an exact
\* path has no wildcard. The new pattern must be the old one with more literal around the wildcard.
GlobNarrows(old, new) ==
  /\ old # new /\ old.wild \in {"*", "**", "?"} /\ new.wild = old.wild
  /\ IsPrefix(old.pre, new.pre) /\ IsSuffix(old.post, new.post)

ClassifyGrammar(old, new) ==
  LET was == {e.path : e \in old}
      now == {e.path : e \in new}
      added == {e \in new : e.path \notin was}
      removed == {e \in old : e.path \notin now}
      rewritten == {e \in old : e.path \in now} # {e \in new : e.path \in was}
      Rest(e) == [k \in DOMAIN e \ {"path", "glob"} |-> e[k]]
  IN CASE rewritten \/ Cardinality(added) > 1 \/ Cardinality(removed) > 1 \/ added \cup removed = {} -> "invalid"
       [] ~rewritten /\ Cardinality(added) = 1 /\ removed = {} ->
            IF Only(added).argv THEN "add" ELSE "invalid"
       [] ~rewritten /\ Cardinality(removed) = 1 /\ added = {} -> "remove"
       [] OTHER ->
            IF Rest(Only(added)) = Rest(Only(removed)) /\ GlobNarrows(Only(removed).glob, Only(added).glob)
            THEN "narrow_glob" ELSE "invalid"

\* the dry run: the entry, as if it were declared, on the range that asked for it
DryRun(entry, candidate) ==
  LET matched == DOMAIN Changed(candidate) \cap entry.matches
      declared == [candidate EXCEPT
        !.before["decl"] = {[usable |-> TRUE, entries |-> {[entry EXCEPT !.path = p, !.exact = TRUE] : p \in matched}]}]
      as == [declared EXCEPT !.after["decl"] = declared.before["decl"]]
  IN IF matched = {} THEN N ELSE EvaluateDerived(as, matched, "")

\* the second authority is another one and says the same of the same change
SecondAuthority(g, op) ==
  IF g.second = {} THEN N
  ELSE Maybe(\A s \in g.second :
         /\ g.authority # "none" /\ s.authority \notin {"none", g.authority} /\ s.verdict = V /\ s.op = op
         /\ s.digest = DiffDigest(g) /\ s.base = g.base /\ s.head = g.head
         /\ g.candidate # {} => s.candidate = g.candidate)

AmendOp(g) ==
  ClassifyGrammar(UNION {d.entries : d \in g.before["decl"]}, UNION {d.entries : d \in g.after["decl"]})

\* B7.2, B7.3 and B7.4; the first two end the evaluation when they fail
AmendArms(g, op) ==
  LET old == UNION {d.entries : d \in g.before["decl"]}
      new == UNION {d.entries : d \in g.after["decl"]}
      entry == CHOOSE e \in new : e \notin old
  IN CASE ReadDeclaration(g.after) = {} \/ op = "invalid" -> F
       [] ReadDeclaration(g.after) # {} /\ op = "remove" -> V
       [] ReadDeclaration(g.after) # {} /\ op \in {"add", "narrow_glob"} ->
            IF entry.coversSource THEN F
            ELSE IF g.candidate = {} THEN N ELSE DryRun(entry, Only(g.candidate))

EvaluateDeclarationAmend(g) ==
  [eligible |-> AmendArms(g, AmendOp(g)) = V /\ SecondAuthority(g, AmendOp(g)) = V, gap |-> {}]

\* the second opinion itself: everything but the arm that asks for one
Opine(g, who) ==
  [authority |-> who, base |-> g.base, head |-> g.head, digest |-> DiffDigest(g), candidate |-> g.candidate,
   op |-> AmendOp(g), verdict |-> IF StructuralCaseOf(g, SplitOutside(g)) = "declaration_amend" THEN AmendArms(g, AmendOp(g)) ELSE F]

EvaluateStructural(g, case, split) ==
  CASE case = "no_impact_by_construction" -> EvaluateNoImpact(g)
    [] case = "spent_receipt_archive" -> EvaluateSpentReceiptArchive(g)
    [] case = "declaration_amend" -> EvaluateDeclarationAmend(g)
    [] case = "gate_self_update" -> EvaluateSelfUpdate(g, split)
=============================================================================
