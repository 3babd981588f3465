------------------------------- MODULE MCVerify ------------------------------
(* Ranges with one or two affected entities each, which between them owe     *)
(* every verifier; the entities' kinds are those of the verifier matrix.     *)
EXTENDS Verify, TLC

MCFile(p, kind, node) == [path |-> p, kind |-> kind, node |-> node]
MCRow(e, type, provs, boundary) == [entity |-> e, type |-> type, provs |-> provs, boundary |-> boundary,
                                    under |-> "none", fallbackOnly |-> FALSE]
Det == {"deterministic"}
MCEffect(core, tail, base, head) == [core |-> core, tail |-> tail, base |-> base, head |-> head,
  unmeasured |-> {}, external |-> {}, events |-> {}]
MCProfile == [valid |-> FALSE, arms |-> <<>>]

\* file f changes entity a; entity b depends on it
MCWorld(ta, da, tb, db) ==
  [base |-> "B", head |-> "H", trusted |-> "B", ancestor |-> TRUE, before |-> "gB", after |-> "gH",
   origin |-> "absent", workflow |-> FALSE, globals |-> {}, changed |-> {"a"},
   actual |-> {MCFile("f", "code", "a")},
   effect |-> [p \in {"f"} |-> MCEffect({MCRow("b", tb, Det, FALSE)}, {}, {"a", "b"}, {"a", "b"})],
   duty |-> ("a" :> da @@ "b" :> db), type |-> ("a" :> ta @@ "b" :> tb), path |-> ("a" :> "f" @@ "b" :> "g"),
   blob |-> [p \in {"f", "g"} |-> [base |-> "old", head |-> IF p = "f" THEN "new" ELSE "old"]],
   itemOf |-> ("old" :> "none" @@ "new" :> "none"), notOwed |-> [base |-> {}, head |-> {}],
   typescript |-> [p \in {"f", "g"} |-> TRUE], compiled |-> [p \in {"f", "g"} |-> TRUE],
   spec |-> ("a" :> "runnable" @@ "b" :> "planned"), property |-> ("a" :> TRUE @@ "b" :> FALSE),
   profile |-> [base |-> MCProfile, head |-> MCProfile], tree |-> {}, root |-> "a",
   absence |-> [declared |-> FALSE, why |-> "none", static |-> "argv"]]

Code == {"type_check", "fitness_rules"}
Plain == MCWorld("code_unit", Code, "route", {"route_config_consistency", "contract_diff"})
Alone(type, duty) ==
  [MCWorld(type, duty, "receipt", {}) EXCEPT !.effect["f"] = MCEffect({}, {MCRow("b", "receipt", {"inferred"}, FALSE)}, {"a", "b"}, {"a", "b"})]
Crossing ==
  [MCWorld("code_unit", {"fitness_rules"}, "code_unit", {"config_schema", "canary"}) EXCEPT
     !.effect["f"] = MCEffect({}, {MCRow("b", "code_unit", {"deterministic", "inferred"}, TRUE)}, {"a", "b"}, {"a", "b"})]
Config == MCWorld("data_model", {"schema_diff"}, "document", {"doc_reference"})
Scripts == MCWorld("code_unit", {"shell_syntax", "shell_behavior"}, "systemd_unit", {"systemd_unit_semantics"})
Inputs == MCWorld("source_file", {"source_file_integrity"}, "code_unit", {"source_input_contract"})
\* a lockfile: the whole unit is selected, and its suite is owed
Everything(declared) ==
  [MCWorld("deployable_unit", {"fitness_rules", "full_fallback_test"}, "document", {"doc_reference"}) EXCEPT
     !.globals = {"f"}, !.changed = {}, !.actual = {MCFile("f", "lockfile", "none")},
     !.effect["f"] = MCEffect({[MCRow("a", "deployable_unit", Det, FALSE) EXCEPT !.fallbackOnly = TRUE]}, {}, {"a"}, {"a"}),
     !.absence.declared = declared]
\* the receipt of the same work item, issued again at its path; or of another one
Again(item) ==
  [MCWorld("code_unit", {"fitness_rules"}, "receipt", {}) EXCEPT
     !.changed = {"a", "b"}, !.actual = {MCFile("f", "code", "a"), MCFile("b", "receipt", "b")},
     !.path = ("a" :> "f" @@ "b" :> "b"), !.blob = [p \in {"f", "b"} |-> [base |-> "old", head |-> "new"]],
     !.effect = [p \in {"f", "b"} |-> MCEffect({}, {}, {IF p = "f" THEN "a" ELSE "b"}, {IF p = "f" THEN "a" ELSE "b"})],
     !.itemOf = ("old" :> item @@ "new" :> "T1"),
     !.typescript = [p \in {"f", "b"} |-> p = "f"], !.compiled = [p \in {"f", "b"} |-> p = "f"]]
\* a leaf: nothing depends on it
Leaf == [MCWorld("code_unit", {"fitness_rules"}, "code_unit", {}) EXCEPT
           !.effect["f"] = MCEffect({}, {}, {"a"}, {"a"})]
\* a new file no extractor reads, and a data file declared to be no code
Unread == [Leaf EXCEPT !.effect["f"].unmeasured = {"g"}]
Declared == LET e == [wellFormed |-> TRUE, literalPath |-> TRUE, expires |-> 2, covers |-> {"f"}]
            IN [Leaf EXCEPT !.duty["a"] = Code, !.typescript["f"] = FALSE, !.compiled["f"] = FALSE,
                            !.notOwed = [base |-> {e}, head |-> {e}]]

MCWorlds ==
  "plain" :> Plain @@ "alone" :> Alone("config_key", {"config_schema"}) @@ "crossing" :> Crossing
  @@ "config" :> Config @@ "scripts" :> Scripts @@ "inputs" :> Inputs
  @@ "everything" :> Everything(FALSE) @@ "nosuite" :> Everything(TRUE)
  @@ "again" :> Again("T1") @@ "other" :> Again("T2") @@ "leaf" :> Leaf @@ "unread" :> Unread @@ "declared" :> Declared

MCOption == [select |-> {}, disabled |-> {}, exemptions |-> {}, out |-> "out", item |-> "none", explain |-> FALSE]
Exempt(e, expires, structural) ==
  [entity |-> e, owner |-> TRUE, reason |-> TRUE, expires |-> expires, structural |-> structural]
Selecting(v) == [MCOption EXCEPT !.select = {v}]
Exempting(e, expires, structural) == [MCOption EXCEPT !.exemptions = {Exempt(e, expires, structural)}]

MCRuns ==
  ((DOMAIN MCWorlds) \X {MCOption})
  \cup ({"leaf", "alone", "scripts"} \X {Selecting("targeted_test"), Selecting("property_check")})
  \cup ({"leaf", "again"} \X {[MCOption EXCEPT !.disabled = {"fitness_rules"}]})
  \cup ({"leaf", "unread", "alone"} \X {[MCOption EXCEPT !.explain = TRUE]})
  \cup ({"again", "other"} \X {[MCOption EXCEPT !.out = "b", !.item = "T1"]})
  \cup ({"leaf", "everything", "nosuite", "crossing"} \X
          {Exempting("a", 2, FALSE), Exempting("a", 1, FALSE), Exempting("b", 2, TRUE)})
=============================================================================
