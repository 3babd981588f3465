--------------------------- MODULE MCAdmissionGate ---------------------------
(* Eight branches: ordinary code, a refresh of the gate, a merge under one,  *)
(* an archived receipt, an amended declaration, decisions to proceed, the    *)
(* evidence ledger, a dependency bot; and receipts with every defect the     *)
(* gate looks for.                                                           *)
EXTENDS AdmissionGate

Entity(x) == <<x, 0>>
Dep == Entity("dep")
Far == Entity("far")
Tool == Entity("tool")
Old == Entity("old")
Unit == Entity("unit")

Answer(verdicts) ==
  [verdicts |-> verdicts, reasons |-> [e \in DOMAIN verdicts |-> "other"], far |-> {}, canaries |-> {},
   probes |-> {}, conformant |-> TRUE, covers |-> TRUE, fresh |-> TRUE, triples |-> {}, exemptions |-> {},
   item |-> {"T1"}]
Clean == Answer(Dep :> V)
Paused == Answer(Dep :> N)
Nothing == Answer([e \in {} |-> N])

OldReceipt == [Clean EXCEPT !.item = {"T0"}] @@
  [no |-> -1, rev |-> 0, mode |-> "diff", base |-> 0, head |-> 0, captured |-> 0, files |-> {}, admission |-> "admitted"]
OldRow == [digest |-> <<-1, 0>>, path |-> "rcpt", delivery |-> "posted"]

Glob(pre) == [pre |-> pre, wild |-> "*", post |-> <<>>]
Entry(p, glob, exact) == [path |-> p, glob |-> glob, exact |-> exact, argv |-> TRUE, job |-> "test",
                          matches |-> {"map"}, coversSource |-> FALSE, command |-> {}]
MapEntry == Entry("map", [pre |-> <<"m">>, wild |-> "none", post |-> <<>>], TRUE)
Declares(S) == [usable |-> TRUE, entries |-> S]

Manifest == [manages |-> {}, keys |-> {"a"}, signers |-> {"a"}, verifies |-> TRUE, ids |-> {"C01"}, arms |-> 3,
             test |-> "pass", ref |-> "r1", flow |-> 1]
Caller(uses, rest) == [uses |-> uses, pin |-> uses, rest |-> rest]

Tree ==
  [p \in {"src", "map", "lock", "flow"} |-> {1}] @@ [p \in {"new", "rcpt", "rcpt2", "archive", Book} |-> {}]
  @@ ("bundle" :> {Manifest} @@ "call" :> {Caller("r1", 1)} @@ "decl" :> {Declares({MapEntry})}
      @@ "policy" :> {{"k1"}})

Plain ==
  [tree |-> Tree, patches |-> {"src" :> {2}}, answers |-> {Clean}, issues |-> 1, revisions |-> 1, room |-> 4,
   trunk |-> {}, sideways |-> FALSE, known |-> TRUE, graph |-> TRUE, inbound |-> {}, nodeless |-> {"new"},
   setup |-> "zero", binds |-> TRUE, job |-> "test", conclusion |-> "success", candidate |-> {},
   authorities |-> {}, keys |-> {}, program |-> FALSE, pinned |-> {"k1"}, signed |-> FALSE, contour |-> FALSE,
   enforcement |-> "off", item |-> "T1", explicit |-> FALSE, description |-> "plain", author |-> "human",
   deliveries |-> {}, allowlist |-> {"lock"}, unverifiable |-> {"doc"},
   path |-> [dep |-> "src", far |-> "src", tool |-> "bundle", old |-> "archive", unit |-> "none"]]

Stale == [Tree EXCEPT !["map"] = {0}]
Newer == [Manifest EXCEPT !.ref = "r2", !.ids = {"C01", "C02"}, !.arms = 4]
Refreshed(m) == "bundle" :> {m} @@ "call" :> {Caller("r2", 1)}

Code == {[Plain EXCEPT !.patches = {"src" :> {2}, "new" :> {1}, "map" :> {2}}, !.answers = {Clean, Paused},
                       !.issues = 2, !.room = 4, !.binds = b] : b \in BOOLEAN}
Refresh ==
  {[Plain EXCEPT !.tree = Stale, !.room = 5, !.answers = {Answer(Tool :> N), Clean},
                 !.patches = {Refreshed(m), "map" :> {1}, x}] :
     m \in {Newer, [Newer EXCEPT !.signers = {"b"}], [Newer EXCEPT !.arms = 2]},
     x \in {"map" :> {7}, "src" :> {2}}}
Merged ==
  {[Plain EXCEPT !.room = 5, !.answers = {Answer(Tool :> N)}, !.patches = {Refreshed(Newer), "src" :> {2}},
                 !.trunk = {t}, !.sideways = s] :
     t \in {[Tree EXCEPT !["src"] = {5}], [Tree EXCEPT !["bundle"] = {[Manifest EXCEPT !.ref = "r9"]}]}, s \in BOOLEAN}
Archive ==
  {[Plain EXCEPT !.tree = [Tree EXCEPT !["rcpt2"] = {OldReceipt}],
                 !.patches = {"rcpt2" :> {} @@ "archive" :> {OldReceipt}, "archive" :> {OldReceipt}, "rcpt2" :> {}, "map" :> {2}},
                 !.answers = {Answer(Old :> N), [Answer(Entity("doc") :> N) EXCEPT !.item = {}]}]}
Amend ==
  {[Plain EXCEPT !.patches = {"decl" :> {Declares({MapEntry, Entry("maps", Glob(<<"m">>), FALSE)})},
                              "decl" :> {Declares({})},
                              "decl" :> {[usable |-> FALSE, entries |-> {}]},
                              "decl" :> {Declares({[MapEntry EXCEPT !.command = {"map"}]})}, "src" :> {2}},
                 !.authorities = {"author", "other"}, !.room = 3, !.answers = {Paused, Nothing},
                 !.candidate = {[before |-> Tree, after |-> [Tree EXCEPT !["map"] = {2}], graph |-> TRUE, inbound |-> {},
                    worktree |-> TRUE, rank |-> [p \in {"map"} |-> 1], job |-> "test", conclusion |-> "success",
                    runs |-> [p \in {"map"} |-> [setup |-> "zero", clean |-> c, corrupted |-> "other"]]]}] :
     c \in {"zero", "other"}}
Decisive ==
  {[Plain EXCEPT !.program = TRUE, !.keys = {"k1", "k2"}, !.contour = c, !.issues = IF c THEN 1 ELSE 2,
                 !.patches = {"src" :> {2}, "policy" :> {{"k1", "k2"}}, "archive" :> {OldReceipt}},
                 !.answers = {[Answer(Dep :> V @@ Old :> N) EXCEPT !.reasons[Old] = "historical_receipt"],
                              [Answer(Far :> N) EXCEPT !.reasons[Far] = "no_live_contour", !.far = {Far}],
                              [Answer(Far :> F) EXCEPT !.reasons[Far] = "no_live_contour", !.far = {Far}]}] : c \in BOOLEAN}
Ledgered ==
  {[Plain EXCEPT !.program = TRUE, !.enforcement = e, !.issues = 2, !.revisions = 0, !.room = 4,
                 !.deliveries = {<<"not_measured", FALSE>>, <<"not_measured", TRUE>>, <<"failed", FALSE>>, <<"posted", TRUE>>},
                 !.tree = [Tree EXCEPT !["rcpt"] = {OldReceipt}, ![Book] = {[item |-> "T1", rest |-> 0, rows |-> {OldRow}]}],
                 !.patches = {"src" :> {2}, Book :> {[item |-> "T1", rest |-> 0, rows |-> {}]}}] : e \in {"ledger", "muneral"}}
Bot ==
  {[Plain EXCEPT !.author = "bot", !.patches = {"lock" :> {2}, "map" :> {1}, "src" :> {2}}, !.tree = Stale,
                 !.answers = {Answer(Unit :> V), Answer(Unit :> N), Answer(Unit :> F)}, !.issues = 0,
                 !.conclusion = c] : c \in {"success", "failure", "none"}}
Canary(opens, listed) == [id |-> "c", entities |-> {Far}, cited |-> TRUE, opens |-> opens, listed |-> listed]
Crossing(S) == [Answer(Far :> V) EXCEPT !.far = {Far}, !.canaries = S]
Waiver(owner, expires) == [entity |-> Dep, code |-> "waiver", owner |-> owner, expires |-> expires]
Defects ==
  {[Plain EXCEPT !.room = 2, !.issues = 2, !.description = d, !.explicit = x, !.signed = s,
      !.tree = [Tree EXCEPT !["rcpt2"] = {OldReceipt}],
      !.answers = {Clean, [Clean EXCEPT !.conformant = FALSE], [Clean EXCEPT !.covers = FALSE], [Clean EXCEPT !.fresh = FALSE],
                   [Clean EXCEPT !.probes = {[entity |-> Dep, seen |-> {}]}],
                   [Clean EXCEPT !.probes = {[entity |-> Dep, seen |-> {V, F}]}],
                   Crossing({}), Crossing({Canary(TRUE, {Far})}), Crossing({Canary(FALSE, {Far})}), Crossing({Canary(TRUE, {})}),
                   [Paused EXCEPT !.exemptions = {Waiver(TRUE, 1)}], [Paused EXCEPT !.exemptions = {Waiver(FALSE, 1)}],
                   [Paused EXCEPT !.exemptions = {Waiver(TRUE, 0)}]}] :
     d \in {"plain", "bypass", "claim"}, x \in BOOLEAN, s \in BOOLEAN}

MCTales == Code \cup Refresh \cup Merged \cup Archive \cup Amend \cup Decisive \cup Ledgered \cup Bot \cup Defects
=============================================================================
