-------------------------- MODULE MeasuredVerifiers --------------------------
(***************************************************************************)
(* The verifiers of tools/graph/verify.py that run something or consume a  *)
(* measurement made elsewhere: selected foreign sources, declared source   *)
(* inputs and their controls, shell scripts, canary documents, the full    *)
(* fallback suite and targeted tests. Facts, Defect and Blind are as in    *)
(* Verifiers.                                                              *)
(***************************************************************************)
EXTENDS Decisions

-----------------------------------------------------------------------------
(* selected_dependency: an import of a file of another repository *)

\* All seven parts of an identity have their exact form.
IdentitySupported(id) == id = "exact"

\* An object of the envelope in its configured store: "same", "differs" or "absent".
Qualify(e) ==
  LET occurrence == IF e.consumer = "same" THEN e.occurrence ELSE "unread"
  IN Decide(<< <<~e.shape, N>>,
               <<~IdentitySupported(e.identity), N>>,
               <<"differs" \in {e.consumer, e.provider, e.input}, F>>,
               <<occurrence = "contradiction", F>>,
               <<"absent" \in {e.consumer, e.provider, e.input} \/ occurrence # "bound", N>>,
               <<e.replay = "contradiction", F>>,
               <<e.replay # "measured", N>>,                \* none configured, raised, or of another type
               <<e.measuredProvider # "provider" \/ e.measuredInputs # {"input"}, F>>,
               <<~e.context \/ ~e.boundary, N>> >>, V)

\* The fact enters the graph, and its edge only when it is verified; a second fact for the same
\* occurrence must be the same fact.
AttachToGraph(e, c) ==
  Decide(<< <<~IdentitySupported(e.identity), Qualify(e)>>,
            <<c.treeCommit # "consumer" \/ ~c.inGraph \/ ~c.sameHash, F>>,
            <<c.known # "none" /\ c.known # e.provider, F>> >>, Qualify(e))

\* CanonicalForeignFitness.measure: the pins of the engine are compared before and after.
FitnessRules == {"fr01", "fr02", "fr03", "fr04", "fr05"}
ForeignFitness(m) ==
  LET silent == CASE m.unresolved -> FitnessRules
                  [] ~m.ts        -> FitnessRules \ (IF m.deployable THEN {"fr05"} ELSE {})
                  [] ~m.deployable -> {"fr02", "fr05"}
                  [] OTHER        -> {}
      outcome(r) == IF r \in m.violated THEN F ELSE IF r \in silent THEN N ELSE V
  IN Decide(<< <<~m.allowed \/ m.pins = 0, N>>,
               <<m.engineBefore # m.pins, F>>,
               <<m.store \in {"none", "error"}, N>>,
               <<m.store = "differs", F>>,
               <<~m.isUnit, N>>,
               <<m.engineAfter # m.pins, F>> >>, Worst({outcome(r) : r \in FitnessRules}))

\* "none" is an entity without selected sources: nothing is recorded for it.
SelectedDependency(f) ==
  LET semantic == IF f.fitness = {} THEN N ELSE Worst({ForeignFitness(m) : m \in f.fitness})
      selection == Worst({Qualify(e) : e \in f.envelopes})
  IN IF f.foreign THEN Worst({semantic} \cup {Qualify(e) : e \in f.envelopes})
     ELSE IF f.envelopes = {} THEN "none" ELSE selection

GoodEnvelope == [shape |-> TRUE, identity |-> "exact", consumer |-> "same", provider |-> "same", input |-> "same",
                 occurrence |-> "bound", replay |-> "measured", measuredProvider |-> "provider",
                 measuredInputs |-> {"input"}, context |-> TRUE, boundary |-> TRUE]
Envelopes == Deviations(GoodEnvelope,
  [shape |-> {FALSE}, identity |-> {"loose"}, consumer |-> {"differs", "absent"}, provider |-> {"differs", "absent"},
   input |-> {"differs", "absent"}, occurrence |-> {"contradiction", "unknown"},
   replay |-> {"none", "error", "contradiction"}, measuredProvider |-> {"other"}, measuredInputs |-> {{}},
   context |-> {FALSE}, boundary |-> {FALSE}])
GoodFitness == [allowed |-> TRUE, pins |-> 1, engineBefore |-> 1, engineAfter |-> 1, store |-> "same", isUnit |-> TRUE,
                ts |-> TRUE, deployable |-> TRUE, unresolved |-> FALSE, violated |-> {}]
Fitnesses == Deviations(GoodFitness,
  [allowed |-> {FALSE}, pins |-> {0}, engineBefore |-> {2}, engineAfter |-> {2}, store |-> {"none", "error", "differs"},
   isUnit |-> {FALSE}, ts |-> {FALSE}, deployable |-> {FALSE}, unresolved |-> {TRUE}, violated |-> {{"fr01"}, {"fr02"}}])
SelectedFacts == {[foreign |-> b, fitness |-> {}, envelopes |-> {e}] : b \in BOOLEAN, e \in Envelopes}
                 \cup {[foreign |-> TRUE, fitness |-> {m}, envelopes |-> s] : m \in Fitnesses, s \in {{}, {GoodEnvelope}}}
SelectedDefect(f) ==
  \/ \E e \in f.envelopes : \/ "differs" \in {e.consumer, e.provider, e.input} \/ e.occurrence = "contradiction"
                            \/ e.replay = "contradiction" \/ e.measuredProvider = "other" \/ e.measuredInputs = {}
  \/ \E m \in f.fitness : m.violated # {} \/ m.store = "differs" \/ m.engineBefore # m.pins \/ m.engineAfter # m.pins
SelectedBlind(f) ==
  \/ f.foreign /\ f.fitness = {}
  \/ \E e \in f.envelopes : \/ ~e.shape \/ ~e.context \/ ~e.boundary \/ e.identity # "exact" \/ e.occurrence = "unknown"
                            \/ "absent" \in {e.consumer, e.provider, e.input} \/ e.replay \in {"none", "error"}
  \/ \E m \in f.fitness : \/ ~m.allowed \/ m.pins = 0 \/ m.store \in {"none", "error"} \/ ~m.isUnit
                          \/ ~m.ts \/ ~m.deployable \/ m.unresolved

-----------------------------------------------------------------------------
(* source_input_contract: a source file, the consumer that reads it, controls that show it *)

\* The file a control really executes, "refused" for a command form that does not say.
ResolveControlTarget(c) ==
  LET target == CASE c.form = "script"   -> IF c.token \in {"escapes", "absolute"} THEN "refused" ELSE c.token
                  [] c.form = "unittest" -> IF c.selectors = "of module" THEN c.executionPath ELSE "refused"
                  [] c.form = "pytest"   -> IF c.selectors = "of module" THEN c.token ELSE "refused"
                  [] OTHER               -> "refused"
  IN IF target # c.executionPath THEN "refused" ELSE target

ValidateControl(c, pins) ==
  /\ c.executionPath \in DOMAIN pins /\ pins[c.executionPath] = c.executionPin
  /\ c.form # "inline" /\ ~c.shellSyntax
  /\ c.argvInterpreter = c.interpreter
  /\ c.environment \subseteq {"LANG", "TZ"}
  /\ c.timeout \in 1..600
  /\ ResolveControlTarget(c) # "refused"

\* literal_source_reads: what the consumer opens for reading by a literal path, and the reads it cannot place.
LiteralSourceReads(ops) ==
  LET placed(o) == o.path # "dynamic" /\ (o.receiver => o.trusted) /\ ~o.writes
  IN [reads |-> {o.path : o \in {x \in ops : placed(x)}}, unresolved |-> {o \in ops : ~placed(o)}]

\* The manifest is accepted against the files of the tree: pins, roles and the consumer's reads.
Parse(m, files) ==
  /\ m.wellFormed
  /\ m.source # m.consumer
  /\ m.consumer \in DOMAIN m.pins
  /\ {c.role : c \in m.controls} = {"positive", "negative"}
  /\ \A c \in m.controls : ValidateControl(c, m.pins) /\ (c.role = "positive" => c.expectedRc = 0)
  /\ \A p \in DOMAIN m.pins \cup {m.source} :
       p \in DOMAIN files /\ files[p] = IF p = m.source THEN m.sourcePin ELSE m.pins[p]
  /\ LiteralSourceReads(m.reads).unresolved = {}
  /\ LiteralSourceReads(m.reads).reads = {m.source}

\* One control, executed: w is the machine it runs on.
RunControl(c, w) ==
  Decide(<< <<ResolveControlTarget(c) = "refused", F>>,
            <<w.interpreter # c.interpreterPin, N>>,          \* absent, unreadable or other bytes
            <<w.target # "pinned", F>>,                       \* gone, a link, outside, or changed since
            <<~w.starts, N>>,
            <<w.timedOut, F>> >>,
         IF w.rc[c.role] = c.expectedRc /\ w.oracle THEN V ELSE F)

SourceInputContract(f) ==
  Decide(<< <<f.disabled, N>>,
            <<~f.present, F>>,
            <<~Parse(f.manifest, f.files), F>>,
            <<~f.covered, N>> >>, Worst({RunControl(c, f.world) : c \in f.manifest.controls}))

Control(role, rc) ==
  [role |-> role, form |-> "script", token |-> "check.py", selectors |-> "of module", executionPath |-> "check.py",
   executionPin |-> 1, shellSyntax |-> FALSE, argvInterpreter |-> "python3", interpreter |-> "python3",
   interpreterPin |-> 1, environment |-> {}, timeout |-> 600, expectedRc |-> rc]
Controls == {Control("positive", 0), Control("negative", 1)}
ReadOf(path) == [path |-> path, receiver |-> TRUE, trusted |-> TRUE, writes |-> FALSE]
GoodManifest == [wellFormed |-> TRUE, source |-> "data", consumer |-> "use.py",
                 pins |-> [p \in {"use.py", "check.py"} |-> 1], sourcePin |-> 1, controls |-> Controls,
                 reads |-> {ReadOf("data")}]
Manifests == Deviations(GoodManifest,
  [wellFormed |-> {FALSE}, source |-> {"use.py"}, sourcePin |-> {2},
   controls |-> {{Control("positive", 0)}, {Control("positive", 1), Control("negative", 1)},
                 {[c EXCEPT !.form = "pytest", !.selectors = "other"] : c \in Controls},
                 {[c EXCEPT !.form = "unittest"] : c \in Controls},
                 {[c EXCEPT !.token = "other.py"] : c \in Controls},
                 {[c EXCEPT !.timeout = 601] : c \in Controls},
                 {[c EXCEPT !.environment = {"PYTHONPATH"}] : c \in Controls}},
   reads |-> {{ReadOf("data"), ReadOf("more")}, {ReadOf("data"), ReadOf("dynamic")},
              {[ReadOf("data") EXCEPT !.trusted = FALSE]}, {[ReadOf("data") EXCEPT !.writes = TRUE]}}])
Files == {[p \in {"data", "use.py", "check.py"} |-> 1], [p \in {"data", "use.py", "check.py"} |-> IF p = "data" THEN 2 ELSE 1],
          [p \in {"use.py", "check.py"} |-> 1]}
GoodWorld == [interpreter |-> 1, target |-> "pinned", starts |-> TRUE, timedOut |-> FALSE,
              rc |-> [r \in {"positive", "negative"} |-> IF r = "positive" THEN 0 ELSE 1], oracle |-> TRUE]
ControlWorlds == Deviations(GoodWorld,
  [interpreter |-> {0, 2}, target |-> {"link", "changed"}, starts |-> {FALSE}, timedOut |-> {TRUE}, oracle |-> {FALSE},
   rc |-> {[r \in {"positive", "negative"} |-> 0], [r \in {"positive", "negative"} |-> 1]}])
InputFact(m, fs, w) == [disabled |-> FALSE, present |-> TRUE, covered |-> TRUE, manifest |-> m, files |-> fs, world |-> w]
GoodFiles == [p \in {"data", "use.py", "check.py"} |-> 1]
SourceInputFacts ==
  {InputFact(m, fs, GoodWorld) : m \in Manifests, fs \in Files} \cup {InputFact(GoodManifest, GoodFiles, w) : w \in ControlWorlds}
  \cup {[InputFact(GoodManifest, fs, w) EXCEPT !.disabled = d, !.present = p, !.covered = c] :
          fs \in Files, w \in {GoodWorld}, d, p, c \in BOOLEAN}
\* the consumer reads something else, the pinned bytes are not the tree's, or a control does not show what it should
SourceInputDefect(f) ==
  \/ ~f.present
  \/ [f.manifest EXCEPT !.controls = Controls, !.sourcePin = 1] # GoodManifest
  \/ {[c EXCEPT !.form = "script"] : c \in f.manifest.controls} # Controls
  \/ \A d \in DOMAIN f.files : d = "data" => f.files[d] # f.manifest.sourcePin
  \/ f.world.target # "pinned" \/ f.world.timedOut \/ ~f.world.oracle \/ f.world.rc # GoodWorld.rc
SourceInputBlind(f) == f.disabled \/ ~f.covered \/ f.world.interpreter # 1 \/ ~f.world.starts

-----------------------------------------------------------------------------
(* shell_syntax and shell_behavior *)

\* A script of the tree: the functions it declares, the files it sources, the commands it calls
\* (with TRUE for a call below the last include) and whether its analysis met something unknown.
\* files maps a path to its script; sources of a path that is not there are missing.
SourceClosure(path, files) ==
  LET step(S) == S \cup UNION {IF p \in DOMAIN files THEN files[p].sources ELSE {} : p \in S}
      reach[n \in Nat] == IF n = 0 THEN {path} ELSE step(reach[n - 1])
  IN reach[Cardinality(DOMAIN files)]

FunctionBindings(path, files, cwd) ==
  LET closure == SourceClosure(path, files)
      known == closure \cap DOMAIN files
      providers(c) == {p \in known : c \in files[p].functions}
      calls == IF path \in DOMAIN files THEN files[path].calls ELSE {}
      unknown == \/ closure # known                                        \* missing source
                 \/ \E p \in known : files[p].unknown
                 \* recursive source closure: a file visited a second time
                 \/ \E p \in known : Cardinality({q \in known : p \in files[q].sources}) > (IF p = path THEN 0 ELSE 1)
                 \/ \E p \in known : files[p].relative /\ cwd = "none"          \* include not bound to a directory
                 \/ \E p \in known : files[p].functions \cap {"source", "load"} # {}
                 \/ \E c \in calls : Cardinality(providers(c.name)) > 1          \* ambiguous declaration
      bound == {c \in calls : /\ Cardinality(providers(c.name)) = 1 /\ providers(c.name) # {path}
                              /\ files[path].sources # {} /\ c.afterIncludes}
  IN [unknown |-> unknown, calls |-> {c.name : c \in calls},
      bindings |-> IF unknown THEN {} ELSE {<<c.name, CHOOSE p \in providers(c.name) : TRUE>> : c \in bound}]

\* The working directory all workflow callers of the script agree on in both revisions.
WorkflowScriptContexts(t) == t.callers \cup (IF t.unboundCaller /\ t.callers # {} THEN {"none"} ELSE {})
PairedContext(b, h) ==
  LET before == WorkflowScriptContexts(b)
  IN IF Cardinality(before) = 1 /\ before = WorkflowScriptContexts(h) THEN CHOOSE c \in before : TRUE ELSE "none"

RemovedFunctionReferences(path, base, head, cwd) ==
  LET before == FunctionBindings(path, base, cwd)
      after == FunctionBindings(path, head, cwd)
      retained == {b[1] : b \in after.bindings}
  IN IF path \notin DOMAIN base \/ path \notin DOMAIN head \/ before.unknown \/ after.unknown THEN {}
     ELSE {b \in before.bindings : b[1] \in after.calls /\ b[1] \notin retained /\ b[1] \notin head[path].functions}

ChangedFunctionUncertainty(path, base, head, cwd) ==
  LET before == FunctionBindings(path, base, cwd)
      after == FunctionBindings(path, head, cwd)
      At(files, p) == IF p \in DOMAIN files THEN {files[p]} ELSE {}
  IN IF path \notin DOMAIN base \/ path \notin DOMAIN head \/ (~before.unknown /\ ~after.unknown) THEN {}
     ELSE {b \in before.bindings : b[1] \in after.calls /\ At(base, b[2]) # At(head, b[2])}

\* bash -n, then the pinned ShellCheck: another release measures nothing.
Syntax(s) ==
  LET lint == IF s.shellcheck # "pinned" THEN N ELSE IF s.lint THEN V ELSE F
  IN Decide(<< <<~s.analysable \/ s.batsUnknown, N>>,
               <<~s.bash \/ lint = F, F>>,
               <<s.unknown \/ lint = N, N>> >>, V)

ShellSyntax(f) ==
  LET cwd == PairedContext(f.base, f.head)
      verdict == Syntax(f.syntax)
      broken == f.base.tree /\ RemovedFunctionReferences("s", f.base.files, f.head.files, cwd) # {}
      unsure == f.base.tree /\ ChangedFunctionUncertainty("s", f.base.files, f.head.files, cwd) # {}
  IN Decide(<< <<f.disabled \/ "s" \notin DOMAIN f.head.files, N>>,
               <<~f.sameBytes, N>>,
               <<broken, F>>,
               <<verdict # F /\ unsure, N>> >>, verdict)

Script(fns, sources, calls) == [functions |-> fns, sources |-> sources, calls |-> calls, unknown |-> FALSE, relative |-> FALSE]
Calls(name, after) == [name |-> name, afterIncludes |-> after]
Caller == Script({}, {"lib"}, {Calls("setup", TRUE)})
Tree(files, callers) == [tree |-> TRUE, files |-> files, callers |-> callers, unboundCaller |-> FALSE]
Pair(s, l) == [p \in {"s", "lib"} |-> IF p = "s" THEN s ELSE l]
Lib == Script({"setup"}, {}, {})
BaseShell == Tree(Pair(Caller, Lib), {"root"})
HeadScripts ==
  {Pair(Caller, Lib), Pair(Caller, Script({}, {}, {})), Pair(Caller, Script({"setup", "more"}, {}, {})),
   Pair(Script({"setup"}, {"lib"}, {Calls("setup", TRUE)}), Lib), Pair(Script({}, {"lib"}, {}), Script({}, {}, {})),
   Pair(Caller, [Script({}, {}, {}) EXCEPT !.unknown = TRUE]), Pair(Caller, Script({"setup"}, {"s"}, {})),
   Pair([Caller EXCEPT !.relative = TRUE], Script({}, {}, {})),
   [p \in {"s"} |-> Caller], [p \in {"lib"} |-> Lib]}
GoodSyntax == [analysable |-> TRUE, batsUnknown |-> FALSE, bash |-> TRUE, shellcheck |-> "pinned", lint |-> TRUE, unknown |-> FALSE]
Syntaxes == Deviations(GoodSyntax, [analysable |-> {FALSE}, batsUnknown |-> {TRUE}, bash |-> {FALSE},
                                    shellcheck |-> {"none", "other"}, lint |-> {FALSE}, unknown |-> {TRUE}])
ShellFact(b, h, s) == [disabled |-> FALSE, sameBytes |-> TRUE, base |-> b, head |-> h, syntax |-> s]
ShellFacts ==
  {ShellFact(b, Tree(fs, c), GoodSyntax) :
     b \in {BaseShell, [BaseShell EXCEPT !.tree = FALSE], [BaseShell EXCEPT !.unboundCaller = TRUE]},
     fs \in HeadScripts, c \in {{"root"}, {"root", "sub"}, {}}}
  \cup {ShellFact(BaseShell, BaseShell, s) : s \in Syntaxes}
  \cup {[ShellFact(BaseShell, BaseShell, GoodSyntax) EXCEPT !.disabled = d, !.sameBytes = b] : d, b \in BOOLEAN}
\* a function the script calls is no longer declared anywhere it can come from
Orphaned(files) == /\ {"s", "lib"} \subseteq DOMAIN files
                   /\ \E c \in files["s"].calls : c.name \notin files["s"].functions \cup files["lib"].functions
ShellDefect(f) == \/ Orphaned(f.head.files) /\ f.base.tree
                  \/ ~f.syntax.bash \/ (f.syntax.shellcheck = "pinned" /\ ~f.syntax.lint)
ShellBlind(f) == \/ f.disabled \/ ~f.sameBytes \/ "s" \notin DOMAIN f.head.files
                 \/ ~f.syntax.analysable \/ f.syntax.batsUnknown \/ f.syntax.unknown \/ f.syntax.shellcheck # "pinned"

\* The TAP output lists exactly the inventory, in order, all ok and none skipped.
TapMembership(tap, inventory) ==
  inventory # <<>> /\ tap.plan = Len(inventory) /\ tap.names = inventory /\ tap.ok /\ ~tap.skips

ShellBehavior(f) ==
  LET usable == {d \in f.documents : /\ ~d.errors /\ d.schema = 2 /\ d.row /\ d.executed /\ d.complete
                                     /\ d.counted /\ d.matched}
      tapped(d) == d.stream = f.tap.digest /\ ~d.truncated /\ TapMembership(f.tap, f.inventory)
  IN IF f.unknown \/ f.disabled \/ Cardinality(usable) # 1 THEN N
     ELSE LET d == CHOOSE x \in usable : TRUE IN IF f.bats /\ ~tapped(d) THEN N ELSE d.verdict

Document(v) == [errors |-> FALSE, schema |-> 2, row |-> TRUE, executed |-> TRUE, complete |-> TRUE, counted |-> TRUE,
                matched |-> TRUE, stream |-> 1, truncated |-> FALSE, verdict |-> v]
Documents(v) == Deviations(Document(v), [errors |-> {TRUE}, schema |-> {1}, row |-> {FALSE}, executed |-> {FALSE},
  complete |-> {FALSE}, counted |-> {FALSE}, matched |-> {FALSE}, stream |-> {2}, truncated |-> {TRUE}])
GoodTap == [digest |-> 1, plan |-> 2, names |-> <<"t1", "t2">>, ok |-> TRUE, skips |-> FALSE]
Taps == Deviations(GoodTap, [plan |-> {1}, names |-> {<<"t1">>, <<"t2", "t1">>}, ok |-> {FALSE}, skips |-> {TRUE}])
Behaviour(docs, bats, tap) == [unknown |-> FALSE, disabled |-> FALSE, documents |-> docs, bats |-> bats, tap |-> tap,
                               inventory |-> <<"t1", "t2">>]
ShellBehaviorFacts ==
  {Behaviour({d}, b, GoodTap) : d \in Documents(V) \cup Documents(F), b \in BOOLEAN}
  \cup {Behaviour({Document(V)}, TRUE, t) : t \in Taps}
  \cup {Behaviour({}, FALSE, GoodTap), Behaviour({Document(V), Document(F)}, FALSE, GoodTap)}
  \cup {[Behaviour({Document(V)}, FALSE, GoodTap) EXCEPT !.unknown = u, !.disabled = d] : u, d \in BOOLEAN}
ShellBehaviorDefect(f) == \E d \in f.documents : d.verdict = F
ShellBehaviorBlind(f) ==
  \/ f.unknown \/ f.disabled \/ Cardinality(f.documents) # 1
  \/ \E d \in f.documents : [d EXCEPT !.verdict = V, !.stream = 1, !.truncated = FALSE] # Document(V)
  \/ f.bats /\ (f.tap # GoodTap \/ \E d \in f.documents : d.stream # 1 \/ d.truncated)

-----------------------------------------------------------------------------
(* canary: several documents may speak of an entity, the worst of them decides *)

\* A document that cannot be verified says not_measured of every entity that needs a canary.
Says(d, e) == IF d.errors THEN {N} ELSE IF e \in DOMAIN d.rows THEN {d.rows[e]} ELSE {}
\* The verdicts v_canary records for e: a row of every committed document, and the rest row.
CanaryRecorded(docs, e) ==
  LET all == UNION {Says(d, e) : d \in docs}
      verdict == IF all = {} THEN N ELSE Worst(all)
      ownRow == UNION {Says(d, e) : d \in {x \in docs : x.committed /\ ~x.errors}}
      \* the rest row is left out when a committed row already carries the deciding verdict
      rest == IF verdict \in ownRow THEN {} ELSE {verdict}
  IN ownRow \cup rest
CanaryCleared(docs, e) == LET all == UNION {Says(d, e) : d \in docs} IN all # {} /\ Worst(all) = V
CanaryDoc(committed, errors, rows) == [committed |-> committed, errors |-> errors, rows |-> rows]
CanaryDocs == {CanaryDoc(c, x, r) : c, x \in BOOLEAN, r \in {[e \in {} |-> V]} \cup [{"e"} -> Verdicts]}
CanaryFacts == {{}} \cup {{d, e} : d, e \in CanaryDocs}
CanaryDefect(docs) == \E d \in docs : ~d.errors /\ "e" \in DOMAIN d.rows /\ d.rows["e"] = F
CanaryBlind(docs) == \/ \A d \in docs : d.errors \/ "e" \notin DOMAIN d.rows
                     \/ \E d \in docs : d.errors \/ ("e" \in DOMAIN d.rows /\ d.rows["e"] = N)

-----------------------------------------------------------------------------
(* tests: the complete fallback suite, targeted tests, property checks *)

\* A deployable without a suite says so, says why, and its tree has none.
AbsentSuiteDeclaration(p) ==
  /\ p.fullTest = "null" /\ p.reason /\ p.static # <<>>
  /\ p.testFiles = 0 /\ ~p.scriptsTest /\ ~p.unknown

\* Static validation stands in for an absent suite: it can fail, it verifies nothing.
StaticVerdict(rcs) ==
  LET bad == {i \in 1..Len(rcs) : rcs[i] # 0}
      rc == IF bad = {} THEN 0 ELSE rcs[Min(bad)]
  IN IF rc \notin {0, 124, 127} THEN F ELSE N

\* The budget full_fallback_test_timeout accepts.
FallbackTimeout(p) == IF p.budget \in 1..7200 THEN p.budget ELSE 0

GlobalFallbackTest(f) ==
  LET p == f.profile
      runner == IF p.fullTest = "argv" THEN "argv" ELSE "none"
      passed == f.run.passed > 0 /\ ~(f.run.ran > 0 /\ f.run.skipped >= f.run.ran)
      ci == IF Cardinality(f.ci) # 1 \/ ~f.diffMode THEN N
            ELSE LET c == CHOOSE x \in f.ci : TRUE
                 IN IF c.duration > FallbackTimeout(p) THEN N ELSE c.verdict
  IN Decide(<< <<FallbackTimeout(p) = 0, N>>,
               <<f.disabled, N>>,
               <<runner = "none", IF AbsentSuiteDeclaration(p) THEN StaticVerdict(p.static) ELSE N>>,
               <<f.supplied, ci>>,
               <<f.run.rc \in {124, 127}, N>>,
               <<f.run.rc # 0, F>>,
               <<~passed, N>> >>, V)

GoodProfile == [fullTest |-> "argv", budget |-> 900, reason |-> TRUE, static |-> <<0, 0>>, testFiles |-> 0,
                scriptsTest |-> FALSE, unknown |-> FALSE]
GoodRun == [rc |-> 0, passed |-> 3, ran |-> 0, skipped |-> 0]
FallbackRuns == Deviations(GoodRun, [rc |-> {1, 124, 127}, passed |-> {0}, ran |-> {3}, skipped |-> {2, 3}])
Profiles == Deviations(GoodProfile, [fullTest |-> {"null", "invalid"}, budget |-> {0, 7200, 7201}])
            \cup Deviations([GoodProfile EXCEPT !.fullTest = "null"],
                  [reason |-> {FALSE}, static |-> {<<>>, <<1, 0>>, <<124>>, <<0, 2>>}, testFiles |-> {1}, scriptsTest |-> {TRUE}, unknown |-> {TRUE}])
CiProof(v, secs) == [verdict |-> v, duration |-> secs]
FallbackFact(p, r) == [profile |-> p, run |-> r, disabled |-> FALSE, supplied |-> FALSE, ci |-> {}, diffMode |-> TRUE]
FallbackFacts ==
  {FallbackFact(p, GoodRun) : p \in Profiles} \cup {FallbackFact(GoodProfile, r) : r \in FallbackRuns}
  \cup {[FallbackFact(GoodProfile, GoodRun) EXCEPT !.supplied = TRUE, !.ci = c, !.diffMode = d, !.disabled = x] :
          c \in {{}} \cup {{CiProof(v, s), CiProof(w, s)} : v, w \in Verdicts, s \in {900, 901}}, d, x \in BOOLEAN}
FallbackDefect(f) ==
  IF f.supplied THEN \E c \in f.ci : c.verdict = F
  ELSE IF f.profile.fullTest = "argv" THEN f.run.rc \notin {0, 124, 127}
  ELSE \E i \in 1..Len(f.profile.static) : f.profile.static[i] \notin {0, 124, 127}
FallbackBlind(f) ==
  \/ f.disabled \/ f.profile.budget \notin 1..7200 \/ f.profile.fullTest # "argv"
  \/ f.supplied /\ (Cardinality(f.ci) # 1 \/ ~f.diffMode \/ \E c \in f.ci : c.verdict = N \/ c.duration > 900)
  \/ ~f.supplied /\ (f.run.rc \in {124, 127} \/ f.run.passed = 0 \/ (f.run.ran > 0 /\ f.run.skipped >= f.run.ran))

\* What pytest printed for one file.
PytestFileStatus(outcomes) ==
  Decide(<< <<outcomes \cap {"FAILED", "ERROR"} # {}, "FAIL">>,
            <<outcomes \cap {"PASSED", "XPASS", "XFAIL"} # {}, "PASS">>,
            <<outcomes = {"SKIPPED"}, "SKIP">> >>, "none")
\* The status of every spec whose output names it; jest and vitest print it, the last line wins.
ParseTestOutput(g) ==
  LET status(sp) == CASE g.lang = "py" -> PytestFileStatus(g.printed[sp])
                      [] OTHER -> IF g.printed[sp] = {} THEN "none"
                                  ELSE IF "FAILED" \in g.printed[sp] THEN "FAIL" ELSE "PASS"
  IN [sp \in DOMAIN g.printed |-> status(sp)]

\* A deployable's runner: its profile's command, else pytest or what its package script names, if it is installed.
TargetedTestRunner(g) == g.profileTest \/ IF g.lang = "py" THEN g.pytest # "none" ELSE g.script # "none" /\ g.installed

\* targeted_test_plan: the specs of an entity are the entity itself when it is one, and the specs that verify it.
SpecsOf(e, g) == {sp \in DOMAIN g.printed : sp = e \/ sp \in g.verifies}

\* The verdict of a group for the entity, "none" when it has no runner or no spec.
TargetedTest(e, g) ==
  LET st(sp) == LET s == ParseTestOutput(g)[sp] IN IF s # "none" THEN s ELSE IF g.rc = 0 THEN "PASS" ELSE "FAIL"
      verdict(sp) == CASE st(sp) = "PASS" -> V [] st(sp) = "SKIP" -> N [] OTHER -> F
  IN Decide(<< <<~g.selected \/ g.disabled, "none">>,
               <<SpecsOf(e, g) = {} \/ ~TargetedTestRunner(g), "none">> >>, Worst({verdict(sp) : sp \in SpecsOf(e, g)}))

Group == [selected |-> TRUE, disabled |-> FALSE, lang |-> "py", profileTest |-> FALSE, pytest |-> "venv",
          script |-> "jest", installed |-> TRUE, rc |-> 0, printed |-> [sp \in {"e", "other"} |-> {"PASSED"}],
          verifies |-> {"other"}]
Groups == Deviations(Group,
  [selected |-> {FALSE}, disabled |-> {TRUE}, lang |-> {"ts"}, profileTest |-> {TRUE}, pytest |-> {"none"},
   script |-> {"none"}, rc |-> {1, 124}, verifies |-> {{}},
   printed |-> {[sp \in {"e", "other"} |-> IF sp = "e" THEN {"PASSED"} ELSE o] :
                  o \in {{}, {"SKIPPED"}, {"FAILED", "PASSED"}, {"PASSED", "SKIPPED"}}}])
TargetedDefect(g) == \/ \E sp \in SpecsOf("e", g) : "FAILED" \in g.printed[sp]
                     \/ g.rc # 0 /\ \E sp \in SpecsOf("e", g) : g.printed[sp] = {}
TargetedBlind(g) == /\ ~\E sp \in SpecsOf("e", g) : g.printed[sp] # {} \/ g.rc = 0

\* Nothing else is known of a property check than its exit code: a timeout is a failure too.
PropertyCheck(f) == IF ~f.selected \/ f.disabled \/ ~f.declared THEN "none" ELSE IF f.rc = 0 THEN V ELSE F
PropertyFacts == [selected : BOOLEAN, disabled : BOOLEAN, declared : BOOLEAN, rc : {0, 1, 124}]

=============================================================================
