------------------------------ MODULE Verifiers ------------------------------
(***************************************************************************)
(* The verifiers of tools/graph/verify.py as decisions. A verifier looks   *)
(* at the facts of one entity and answers verified, not_measured or        *)
(* failed. Every verifier comes with three more things: the facts it may   *)
(* meet (a clean measurement with up to two things off), the facts that    *)
(* are a Defect of the change, and the facts that leave it Blind, so that  *)
(* a verdict can be compared with what was really there.                   *)
(***************************************************************************)
EXTENDS Decisions

CONSTANT Entities

-----------------------------------------------------------------------------
(* systemd units and the files they name *)

\* Directives of the two units of the tree: the relation, its source and what the token names.
\* target "none" is a token that resolves to no single clean path.
Directives == {[key |-> "After", unit |-> "svc", target |-> "tmr"],
               [key |-> "Requires", unit |-> "svc", target |-> "tmr"],
               [key |-> "ExecStart", unit |-> "svc", target |-> "run.sh"],
               [key |-> "Unit", unit |-> "tmr", target |-> "svc"]}
Units == {"svc", "tmr"}

SystemdExpected(ds) ==
  LET edge(d) == CASE d.target = "none" -> {}
                   [] d.key = "After"   -> {<<"orders_after", d.unit, d.target>>}
                   [] d.key = "Before"  -> {<<"orders_after", d.target, d.unit>>}
                   [] d.key = "Unit"    -> {<<"activates", d.unit, d.target>>}
                   [] d.key = "ExecStart" -> {<<"references", d.unit, d.target>>, <<"calls", d.unit, d.target>>}
                   [] OTHER             -> {}
  IN UNION {edge(d) : d \in ds}
SystemdUnmodeled(ds) == {d \in ds : d.key = "Requires" /\ d.target # "none"}

\* The errors of a graph whose unit nodes (with multiplicity), origins, edges and unresolved rows are g,
\* over a tree holding the units and directives.
SystemdGraphParity(g, ds) ==
  (IF DOMAIN g.nodes # Units THEN {"inventory"} ELSE {})
  \cup {"duplicate" : u \in {x \in DOMAIN g.nodes \cap Units : g.nodes[x].count > 1}}
  \cup {"id" : u \in {x \in DOMAIN g.nodes \cap Units : g.nodes[x].count = 1 /\ ~g.nodes[x].canonical}}
  \cup {"origin" : u \in {x \in DOMAIN g.nodes \cap Units :
                            g.nodes[x].count = 1 /\ g.nodes[x].canonical /\ ~g.nodes[x].origin}}
  \cup (IF g.edges # SystemdExpected(ds) THEN {"edges"} ELSE {})
  \cup (IF g.rows # SystemdUnmodeled(ds) THEN {"relations"} ELSE {})

GoodNode == [count |-> 1, canonical |-> TRUE, origin |-> TRUE]
GoodGraph == [nodes |-> [u \in Units |-> GoodNode],
              edges |-> SystemdExpected(Directives), rows |-> SystemdUnmodeled(Directives)]
Graphs == {[GoodGraph EXCEPT !.nodes = n] :
             n \in {[u \in {"svc"} |-> GoodNode],
                    [GoodGraph.nodes EXCEPT !["tmr"].count = 2],
                    [GoodGraph.nodes EXCEPT !["tmr"].canonical = FALSE],
                    [GoodGraph.nodes EXCEPT !["svc"].origin = FALSE]}}
          \cup {[GoodGraph EXCEPT !.edges = @ \ {e}] : e \in GoodGraph.edges}
          \cup {GoodGraph, [GoodGraph EXCEPT !.rows = {}]}

\* What the rows of the pinned policy find in the parsed unit.
SystemdObservations(f) == IF f.value \in {"missing", "moved", "argv"} THEN "errors" ELSE f.value
SystemdPolicyCompare(observed) == IF observed = "expected" THEN V ELSE F
SystemdIdentityMatches(f) == f.identity

SystemdEvaluateUnit(f) ==
  Decide(<< <<f.pinned /\ ~SystemdIdentityMatches(f), F>>,
            <<~f.parses, F>>,
            <<~f.pinned, N>>,
            <<SystemdObservations(f) = "errors", F>> >>,
         SystemdPolicyCompare(SystemdObservations(f)))

SystemdUnitSemantics(f) ==
  LET result == IF ~f.bound THEN N ELSE SystemdEvaluateUnit(f)
  IN Decide(<< <<result # V, result>>,
               <<f.unresolved = "failed", F>>,
               <<f.unresolved = "some", N>>,
               <<SystemdGraphParity(f.graph, Directives) # {}, F>> >>, V)

SystemdFacts ==
  Deviations([bound |-> TRUE, pinned |-> TRUE, identity |-> TRUE, parses |-> TRUE, value |-> "expected",
              unresolved |-> "none", graph |-> GoodGraph],
             [bound |-> {FALSE}, pinned |-> {FALSE}, identity |-> {FALSE}, parses |-> {FALSE},
              value |-> {"missing", "moved", "argv", "other"}, unresolved |-> {"some", "failed"}, graph |-> Graphs])
SystemdDefect(f) == \/ ~f.parses \/ f.unresolved = "failed" \/ f.graph # GoodGraph
                    \/ f.pinned /\ (~f.identity \/ f.value # "expected")
SystemdBlind(f) == ~f.bound \/ ~f.pinned \/ f.unresolved = "some"

SourceFileIntegrity(f) ==
  Decide(<< <<~f.bound \/ ~f.present, N>>, <<~f.same, F>> >>, V)
SourceFileFacts ==
  Deviations([bound |-> TRUE, present |-> TRUE, same |-> TRUE],
             [bound |-> {FALSE}, present |-> {FALSE}, same |-> {FALSE}])
SourceFileDefect(f) == ~f.same
SourceFileBlind(f) == ~f.bound \/ ~f.present

-----------------------------------------------------------------------------
(* type_check: a compiler project is run once and judges every entity attributed to it *)

\* Why a post-build check was not performed, as postbuild() finds it out.
Postbuild(b) ==
  Decide(<< <<~b.declared, "no build command">>,
            <<~b.diffMode /\ b.dirty, "dirty worktree">>,
            <<b.rc # 0, "build failed">>,
            <<b.output = "none", "no output">>,
            <<b.output \in {"symlink", "outside", "older"}, "not of this build">> >>, "built")
Builds == Deviations([declared |-> TRUE, diffMode |-> TRUE, dirty |-> FALSE, rc |-> 0, output |-> "fresh"],
                     [declared |-> {FALSE}, diffMode |-> {FALSE}, dirty |-> {TRUE}, rc |-> {1},
                      output |-> {"none", "symlink", "outside", "older"}])

\* An unresolved module is the change's fault only where the dependencies were installed.
DependencyInstallMissing(c) == c.declares /\ ~c.nodeModules

\* Does the run of project c reach its verdicts? Otherwise all its entities are not measured.
Ran(c) == /\ c.post => Postbuild(c.build) = "built"
          /\ c.tsc
          /\ ~(c.unresolved /\ DependencyInstallMissing(c))

ErrorCount(c) == Cardinality(c.errors) + (IF c.global THEN 1 ELSE 0)

\* The verdict of project c for entity e, "none" when another project of the run lists the file.
TypeVerdict(e, unit, c, anywhere) ==
  Decide(<< <<c.rc \notin {0, 1, 2}, N>>,
            <<c.global, F>>,
            <<c.rc # 0 /\ ErrorCount(c) = 0, N>>,
            <<unit, IF ErrorCount(c) = 0 THEN V ELSE F>>,
            <<e \in c.errors, F>>,
            <<e \notin c.listed /\ e \in anywhere, "none">>,
            <<e \notin c.listed, N>>,
            <<ErrorCount(c) = 0, V>> >>, N)

\* The verdicts recorded for e: cs the projects of the run, attr those attributed to e.
TypeCheck(e, unit, attr, cs) ==
  LET anywhere == UNION {cs[i].listed : i \in {j \in DOMAIN cs : Ran(cs[j])}}
      verdict(i) == IF Ran(cs[i]) THEN TypeVerdict(e, unit, cs[i], anywhere) ELSE N
  IN IF attr = {} THEN {N} ELSE {verdict(i) : i \in attr} \ {"none"}

GoodBuild == [declared |-> TRUE, diffMode |-> TRUE, dirty |-> FALSE, rc |-> 0, output |-> "fresh"]
GoodProject == [post |-> FALSE, build |-> GoodBuild, tsc |-> TRUE, unresolved |-> FALSE, declares |-> TRUE,
                nodeModules |-> TRUE, rc |-> 0, global |-> FALSE, errors |-> {}, listed |-> Entities]
\* tsc exits 0 without diagnostics, 1 or 2 with some; an unresolved module is a diagnostic of its file
Coherent(c) == /\ c.rc = 0 => ErrorCount(c) = 0
               /\ c.unresolved => c.errors # {}
               /\ c.build # GoodBuild => c.post
Projects ==
  {c \in Deviations(GoodProject,
      [tsc |-> {FALSE}, rc |-> {1, 137}, listed |-> {{}}, errors |-> {{e} : e \in Entities}]) : Coherent(c)}
  \cup {[GoodProject EXCEPT !.rc = 2, !.errors = {e}, !.unresolved = TRUE, !.nodeModules = b] :
          e \in Entities, b \in BOOLEAN}
  \cup {[GoodProject EXCEPT !.rc = 1, !.global = TRUE]}
  \cup {[GoodProject EXCEPT !.post = TRUE, !.build = b] : b \in Builds}

TypeDefect(e, unit, attr, cs) ==
  \E i \in attr : Ran(cs[i]) /\ cs[i].rc \in {1, 2}
                  /\ (cs[i].global \/ e \in cs[i].errors \/ (unit /\ cs[i].errors # {}))
TypeSeen(e, unit, attr, cs) ==
  \E i \in attr : Ran(cs[i]) /\ cs[i].rc = 0 /\ (unit \/ e \in cs[i].listed)

-----------------------------------------------------------------------------
(* route_config_consistency *)

\* Files registered in the module graph: those of the controllers and providers of every module
\* reachable from the root; nothing when the root module is not found.
RegisteredFiles(s) ==
  LET reach[n \in Nat] == IF n = 0 THEN {s.root} ELSE reach[n - 1] \cup UNION {s.modules[m] : m \in reach[n - 1]}
  IN IF s.root = "none" THEN {} ELSE UNION {s.registers[m] : m \in reach[Cardinality(DOMAIN s.modules)]}

\* The value-import closure of the root file and whether every import in it was resolved.
ProductionImports(s) ==
  LET reach[n \in Nat] == IF n = 0 THEN {"main"} ELSE reach[n - 1] \cup UNION {s.imports[m] : m \in reach[n - 1]}
      seen == reach[Cardinality(DOMAIN s.imports)]
  IN [seen |-> seen, complete |-> seen \cap s.unresolved = {}]

\* RC-02 for the controller file "ctl" of the route.
Registration(s) ==
  Decide(<< <<"ctl" \in RegisteredFiles(s), "registered">>,
            <<~s.testPath, "unregistered">>,
            <<"ctl" \in ProductionImports(s).seen, "unregistered">>,
            <<~ProductionImports(s).complete, "unknown">> >>, "test_only")

RouteConfig(f) ==
  LET nest == f.framework = "nest"
      ws == nest /\ f.transport = "ws"
      problem == \/ ws /\ f.namespace = "changed"
                 \/ nest /\ ~ws /\ f.prefix = "mismatch"
                 \/ nest /\ Registration(f.scan) = "unregistered"
  IN Decide(<< <<~f.served, IF f.consumers THEN F ELSE V>>,
               <<f.inline # "no", IF f.inline = "bound" THEN V ELSE N>>,
               <<~f.deployable, N>>,
               <<f.framework = "unknown", N>>,
               <<nest /\ f.owners > 1, N>>,
               <<nest /\ ~f.bootstrap, N>>,
               <<f.prefix = "unresolvable" \/ (ws /\ f.namespace = "ambiguous"), N>>,
               <<nest /\ f.scan.root = "none", N>>,
               <<problem, F>>,
               <<nest /\ Registration(f.scan) = "unknown", N>> >>, V)

\* The scanned sources: app module, a feature module it may import, a file main may import values from.
GoodScan == [root |-> "app", modules |-> [m \in {"app", "feat"} |-> IF m = "app" THEN {"feat"} ELSE {}],
             registers |-> [m \in {"app", "feat"} |-> IF m = "feat" THEN {"ctl"} ELSE {}], testPath |-> FALSE,
             imports |-> [m \in {"main", "lib", "ctl"} |-> IF m = "main" THEN {"lib"} ELSE {}], unresolved |-> {}]
Scans == LET changes == [root : {"app", "none"}, link : BOOLEAN, test : BOOLEAN, value : BOOLEAN, hole : BOOLEAN]
         IN {[GoodScan EXCEPT !.root = c.root, !.testPath = c.test,
                              !.modules["app"] = IF c.link THEN {"feat"} ELSE {},
                              !.imports["lib"] = IF c.value THEN {"ctl"} ELSE {},
                              !.unresolved = IF c.hole THEN {"lib"} ELSE {}] : c \in changes}
Linked(s) == s.root # "none" /\ s.modules["app"] # {}

RouteFacts ==
  Deviations([served |-> TRUE, consumers |-> FALSE, inline |-> "no", deployable |-> TRUE, framework |-> "nest",
              owners |-> 1, bootstrap |-> TRUE, transport |-> "http", namespace |-> "same", prefix |-> "match",
              scan |-> GoodScan],
             [served |-> {FALSE}, consumers |-> {TRUE}, inline |-> {"bound", "unbound"}, deployable |-> {FALSE},
              framework |-> {"other", "unknown"}, owners |-> {2}, bootstrap |-> {FALSE}, transport |-> {"ws"},
              namespace |-> {"changed", "ambiguous"}, prefix |-> {"mismatch", "unresolvable"}, scan |-> Scans])
RouteDefect(f) ==
  \/ ~f.served /\ f.consumers
  \/ /\ f.served /\ f.inline = "no" /\ f.framework = "nest"
     /\ \/ f.transport = "ws" /\ f.namespace = "changed"
        \/ f.transport = "http" /\ f.prefix = "mismatch"
        \/ ~Linked(f.scan) /\ (f.scan.testPath => f.scan.imports["lib"] # {})
RouteBlind(f) ==
  /\ f.served
  /\ \/ f.inline = "unbound"
     \/ f.inline = "no" /\ (~f.deployable \/ f.framework = "unknown" \/ f.prefix = "unresolvable")
     \/ /\ f.inline = "no" /\ f.framework = "nest"
        /\ \/ ~f.bootstrap \/ f.owners > 1 \/ f.scan.root = "none"
           \/ f.transport = "ws" /\ f.namespace = "ambiguous"
           \/ ~Linked(f.scan) /\ f.scan.testPath /\ f.scan.unresolved # {}

-----------------------------------------------------------------------------
(* schema_diff: the Prisma models of base and head *)

Change(model, code, breaking, field) == [model |-> model, code |-> code, breaking |-> breaking, field |-> field]

FieldDiff(m, f, b, h) ==
  (IF b.type # h.type \/ b.list # h.list THEN {Change(m, "FIELD_TYPE_CHANGED", TRUE, f)} ELSE {})
  \cup (IF b.optional /\ ~h.optional THEN {Change(m, "FIELD_MADE_REQUIRED", TRUE, f)} ELSE {})
  \cup (IF ~b.optional /\ h.optional THEN {Change(m, "FIELD_MADE_OPTIONAL", FALSE, f)} ELSE {})
  \cup (IF b.relation # h.relation THEN {Change(m, "RELATION_CHANGED", TRUE, f)} ELSE {})

ModelDiff(m, b, h) ==
  {Change(m, "FIELD_REMOVED", TRUE, f) : f \in DOMAIN b \ DOMAIN h}
  \cup {IF h[f].optional \/ h[f].default \/ h[f].list
        THEN Change(m, "FIELD_ADDED_OPTIONAL", FALSE, f)
        ELSE Change(m, "NEW_REQUIRED_FIELD_WITHOUT_DEFAULT", TRUE, f) : f \in DOMAIN h \ DOMAIN b}
  \cup UNION {FieldDiff(m, f, b[f], h[f]) : f \in DOMAIN b \cap DOMAIN h}

EnumDiff(m, b, h) ==
  (IF b \subseteq h THEN {} ELSE {Change(m, "ENUM_VALUE_REMOVED", TRUE, "none")})
  \cup (IF h \subseteq b THEN {} ELSE {Change(m, "ENUM_VALUE_ADDED", FALSE, "none")})

PrismaDiff(b, h) ==
  {Change(m, "MODEL_REMOVED", TRUE, "none") : m \in DOMAIN b.models \ DOMAIN h.models}
  \cup {Change(m, "MODEL_ADDED", FALSE, "none") : m \in DOMAIN h.models \ DOMAIN b.models}
  \cup UNION {ModelDiff(m, b.models[m], h.models[m]) : m \in DOMAIN b.models \cap DOMAIN h.models}
  \cup {Change(m, "ENUM_REMOVED", TRUE, "none") : m \in DOMAIN b.enums \ DOMAIN h.enums}
  \cup UNION {EnumDiff(m, b.enums[m], h.enums[m]) : m \in DOMAIN b.enums \cap DOMAIN h.enums}

\* Only the last schema of the tree that was validated is remembered.
Validated(f) == IF f.cli THEN f.validate[Len(f.validate)] ELSE "not run"

SchemaDiff(f) ==
  LET changes == {c \in PrismaDiff(f.base, f.head) : c.model = f.model}
      breaking == {c \in changes : c.breaking}
      \* a consumer names the model for a removal, the field for everything else
      referenced == \E c \in breaking :
        IF c.code \in {"MODEL_REMOVED", "ENUM_REMOVED", "ENUM_VALUE_REMOVED"} THEN "model" \in f.consumer
        ELSE c.field \in f.consumer
  IN Decide(<< <<Validated(f) = "invalid", F>>,
               <<~f.parses, F>>,
               <<breaking # {}, IF referenced THEN F ELSE V>>,
               <<Validated(f) = "not run", N>> >>, V)

Field(t, opt, default) == [type |-> t, list |-> FALSE, optional |-> opt, default |-> default, relation |-> FALSE]
Schema(fields, values) == [models |-> [m \in {"User"} |-> fields], enums |-> [m \in {"Role"} |-> values]]
BaseSchema == Schema([x \in {"id", "name"} |-> IF x = "id" THEN Field("Int", FALSE, TRUE) ELSE Field("String", TRUE, FALSE)],
                     {"ADMIN", "USER"})
WithUser(fields) == Schema(fields, {"ADMIN", "USER"})
BaseUser == BaseSchema.models["User"]
Schemas == {BaseSchema, [BaseSchema EXCEPT !.models = [m \in {} |-> 0]], [BaseSchema EXCEPT !.enums = [m \in {} |-> 0]],
            Schema(BaseUser, {"ADMIN"}), Schema(BaseUser, {"ADMIN", "USER", "GUEST"}),
            WithUser([x \in {"id"} |-> BaseUser["id"]]),
            WithUser([BaseUser EXCEPT !["name"].optional = FALSE]),
            WithUser([BaseUser EXCEPT !["id"].optional = TRUE]),
            WithUser([BaseUser EXCEPT !["name"].type = "Int"]),
            WithUser([BaseUser EXCEPT !["name"].relation = TRUE]),
            WithUser([x \in {"id", "name", "mail"} |-> IF x = "mail" THEN Field("String", FALSE, FALSE) ELSE BaseUser[x]]),
            WithUser([x \in {"id", "name", "mail"} |-> IF x = "mail" THEN Field("String", FALSE, TRUE) ELSE BaseUser[x]])}
SchemaFacts ==
  {f \in [base : {BaseSchema}, head : Schemas, model : {"User", "Role"}, cli : BOOLEAN, parses : BOOLEAN,
          validate : {<<"valid">>, <<"invalid">>, <<"invalid", "valid">>}, consumer : {{}, {"model"}, {"model", "id"}, {"model", "name", "mail"}}] :
     f.parses \/ (f.cli => f.validate[1] = "invalid")}
\* Code that names what is gone or means something else now, or a schema Prisma refuses, is a defect.
Unserved(f) ==
  LET old == f.base.models["User"]
      kept(x) == /\ x \in DOMAIN f.head.models["User"]
                 /\ [f.head.models["User"][x] EXCEPT !.optional = old[x].optional] = old[x]
                 /\ old[x].optional => f.head.models["User"][x].optional
      imposed == {x \in DOMAIN f.head.models["User"] \ DOMAIN old :
                    LET n == f.head.models["User"][x] IN ~n.optional /\ ~n.default}
  IN \/ /\ f.model = "User" /\ "model" \in f.consumer
        /\ "User" \in DOMAIN f.head.models => \E x \in f.consumer : x \in imposed \/ (x \in DOMAIN old /\ ~kept(x))
     \/ /\ f.model = "Role" /\ "model" \in f.consumer
        /\ "Role" \in DOMAIN f.head.enums => ~(f.base.enums["Role"] \subseteq f.head.enums["Role"])
SchemaDefect(f) == ~f.parses \/ Validated(f) = "invalid" \/ Unserved(f)

-----------------------------------------------------------------------------
(* config_schema *)

\* Keys the declaration files of the tree declare; a JSON file that does not parse is a source of none.
DeclaredConfigKeys(sources) == UNION {IF x.parses THEN x.keys ELSE {} : x \in sources}

\* Reads of undeclared keys: vendored files are not this repository's.
ConfigViolations(reads, declared, framework, vendored) ==
  {<<file, key>> \in reads : key \notin declared \cup framework /\ file \notin vendored}

\* A baseline is in force until it expires; without one the findings of the base are frozen for the run.
LoadBaseline(b, atBase) ==
  CASE b.kind = "none" -> atBase
    [] b.kind = "valid" -> b.entries
    [] OTHER -> {}                       \* expired, or an expiry that does not parse
SplitBaseline(found, frozen, exempted) == [new |-> (found \ frozen) \ exempted, kept |-> found \cap (frozen \cup exempted)]

ConfigSchema(f) ==
  LET declared == DeclaredConfigKeys(f.sources)
      frozen == LoadBaseline(f.baseline, ConfigViolations(f.baseReads, declared, {"NODE_ENV"}, {"vendor"}))
      new == IF f.sources = {} THEN {}
             ELSE SplitBaseline(ConfigViolations(f.reads, declared, {"NODE_ENV"}, {"vendor"}), frozen, {}).new
  IN Decide(<< <<f.sources = {}, N>>,
               <<f.isKey, IF "K" \notin declared /\ \E v \in new : v[2] = "K" THEN F ELSE V>> >>,
            IF \E v \in new : v[1] = "a" THEN F ELSE V)

EnvFile(keys) == [parses |-> TRUE, keys |-> keys]
ConfigFacts ==
  [isKey : BOOLEAN, sources : {{}, {EnvFile({"P"})}, {EnvFile({"P"}), EnvFile({"K"})}, {[parses |-> FALSE, keys |-> {"K"}]}},
   reads : {{}, {<<"a", "K">>}, {<<"b", "K">>}, {<<"vendor", "K">>, <<"a", "NODE_ENV">>}},
   baseReads : {{}, {<<"a", "K">>}},
   baseline : {[kind |-> k, entries |-> {<<"a", "K">>}] : k \in {"none", "valid", "expired"}}]
ConfigDefect(f) ==
  LET frozen == CASE f.baseline.kind = "valid" -> {<<"a", "K">>} [] f.baseline.kind = "none" -> f.baseReads [] OTHER -> {}
      fresh == {r \in f.reads \ frozen : r[1] # "vendor" /\ r[2] = "K"}
  IN /\ ~\E x \in f.sources : x.parses /\ "K" \in x.keys
     /\ f.sources # {}
     /\ IF f.isKey THEN fresh # {} ELSE \E r \in fresh : r[1] = "a"

\* A workflow file: the exact head bytes through the schema, unless its shell calls are not closed.
WorkflowConfig(f) ==
  LET verdict == Decide(<< <<~f.present, N>>, <<~f.sameBytes, N>> >>, f.validate)
  IN IF verdict = V /\ f.shellUnknown THEN N ELSE verdict
WorkflowFacts == [present : BOOLEAN, sameBytes : BOOLEAN, validate : Verdicts, shellUnknown : BOOLEAN]
WorkflowDefect(f) == f.validate = F
WorkflowBlind(f) == ~f.present \/ ~f.sameBytes \/ f.validate = N \/ f.shellUnknown

\* native_projection.compiler_binding: the recorded compilation is of the applied kernel, by the recorded
\* tool, and none of it changed while it was replayed.
CompilerBinding(c) == /\ c.scope /\ c.inputs /\ c.output /\ c.commands /\ c.exits /\ c.logs /\ c.tool
                      /\ c.replay \in {"none", "same"}
\* rederive_patch: the patch applied to the pinned upstream gives exactly the manifest's paths and digests,
\* and the physical tree holds those blobs and nothing else.
RederivePatch(t) == t.immutable /\ t.onlyAddsOrModifies /\ t.paths = "manifest" /\ t.physical = "exact"
\* source_binding: the producer's inputs at HEAD, on disk and in Git; "none" when they disagree.
SourceBinding(x) == IF x.atHead /\ ~x.dirty /\ x.regular THEN x.version ELSE 0
\* consume(): every reading is taken again at the end, so nothing may have moved in between.
NativeConsume(f) ==
  /\ f.evidence = 1                                        \* exactly one authenticated row
  /\ f.claims                                              \* schema, authority, stage and scratch claims
  /\ SourceBinding(f.before) # 0 /\ f.declared = SourceBinding(f.before)
  /\ f.manifest
  /\ RederivePatch(f.tree)
  /\ f.applied
  /\ CompilerBinding(f.compiler)
  /\ SourceBinding(f.after) = SourceBinding(f.before) /\ f.treeAfter = f.tree /\ f.artifactSame

NativePatchBinding(f) ==
  Decide(<< <<~f.recognized, F>>, <<~f.declaration \/ ~f.key, N>>, <<~f.exactFields \/ ~NativeConsume(f) \/ ~f.headTree, F>> >>, V)

GoodSource == [atHead |-> TRUE, dirty |-> FALSE, regular |-> TRUE, version |-> 1]
GoodTree == [immutable |-> TRUE, onlyAddsOrModifies |-> TRUE, paths |-> "manifest", physical |-> "exact"]
GoodCompile == [scope |-> TRUE, inputs |-> TRUE, output |-> TRUE, commands |-> TRUE, exits |-> TRUE, logs |-> TRUE,
                tool |-> TRUE, replay |-> "same"]
Sources == {[GoodSource EXCEPT !.atHead = FALSE], [GoodSource EXCEPT !.dirty = TRUE], [GoodSource EXCEPT !.version = 2]}
NativeFacts ==
  Deviations([recognized |-> TRUE, declaration |-> TRUE, key |-> TRUE, exactFields |-> TRUE, evidence |-> 1, claims |-> TRUE,
              before |-> GoodSource, after |-> GoodSource, declared |-> 1, manifest |-> TRUE, tree |-> GoodTree,
              treeAfter |-> GoodTree, applied |-> TRUE, compiler |-> GoodCompile, artifactSame |-> TRUE, headTree |-> TRUE],
             [recognized |-> {FALSE}, declaration |-> {FALSE}, key |-> {FALSE}, exactFields |-> {FALSE}, evidence |-> {0, 2},
              claims |-> {FALSE}, before |-> Sources, after |-> Sources, declared |-> {2}, manifest |-> {FALSE},
              tree |-> {[GoodTree EXCEPT !.paths = "other"], [GoodTree EXCEPT !.physical = "extra"]},
              treeAfter |-> {[GoodTree EXCEPT !.physical = "extra"]}, applied |-> {FALSE},
              compiler |-> {[GoodCompile EXCEPT !.replay = "changed"], [GoodCompile EXCEPT !.exits = FALSE]},
              artifactSame |-> {FALSE}, headTree |-> {FALSE}])
\* what was bound is not what was there all along
NativeDefect(f) ==
  \/ f.before # GoodSource \/ f.after # GoodSource \/ f.tree # GoodTree \/ f.treeAfter # GoodTree
  \/ f.compiler # GoodCompile \/ f.declared # 1 \/ f.evidence # 1
  \/ ~(f.recognized /\ f.exactFields /\ f.claims /\ f.manifest /\ f.applied /\ f.artifactSame /\ f.headTree)
NativeBlind(f) == ~f.declaration \/ ~f.key

-----------------------------------------------------------------------------
(* fitness_rules FR-01..FR-05 over the import graph, entity "a" of three files *)

SourceFiles == {"a", "b", "x"}
Reach(adj, from) ==
  LET r[n \in Nat] == IF n = 0 THEN adj[from] ELSE r[n - 1] \cup UNION {adj[m] : m \in r[n - 1]}
  IN r[Cardinality(SourceFiles)]
Component(adj, m) == {m} \cup {o \in Reach(adj, m) : m \in Reach(adj, o)}

\* A finding is its rule, the unit it is charged to and the key of its fingerprint.
FitnessViolations(g) ==
  UNION {LET found(rule, on) == IF on THEN {<<rule, e.from, e.to>>} ELSE {}
         IN IF e.marker THEN found("FR-04", ~e.declared)
            ELSE found("FR-01", e.transport /\ e.persistence)
                 \cup found("FR-03", e.sameUnit /\ e.otherModule /\ e.controller /\ ~e.expandedOnly)
                 \cup found("FR-05", ~e.sameUnit /\ ~e.shared) : e \in g.edges}
  \cup {<<"FR-01", file, "package">> : file \in g.persistencePackages}
  \cup {<<"FR-02", m, Component(g.values, m)>> : m \in {c \in SourceFiles : c \in Reach(g.values, c)}}

Fitness(f) ==
  LET frozen == LoadBaseline(f.baseline, FitnessViolations(f.base))
      new == SplitBaseline(FitnessViolations(f.head), frozen, f.exempted).new
      own == IF \E v \in new : f.isUnit \/ v[2] = "a" THEN F ELSE V
  IN IF f.workflow = "no" THEN own ELSE Worst({own, f.workflow})

Import(to) == [from |-> "a", to |-> to, marker |-> FALSE, declared |-> TRUE, transport |-> FALSE, persistence |-> FALSE,
               sameUnit |-> TRUE, otherModule |-> FALSE, controller |-> FALSE, expandedOnly |-> FALSE, shared |-> FALSE]
Adj(pairs) == [m \in SourceFiles |-> {p[2] : p \in {q \in pairs : q[1] = m}}]
ImportGraph(edges, pairs, pk) == [edges |-> edges, values |-> Adj(pairs), persistencePackages |-> pk]
CleanGraph == ImportGraph({Import("b")}, {<<"a", "b">>}, {})
ImportGraphs ==
  {CleanGraph, ImportGraph({Import("b")}, {<<"a", "b">>, <<"b", "a">>}, {}),
   ImportGraph({Import("b")}, {<<"a", "b">>, <<"b", "x">>, <<"x", "a">>}, {}),
   ImportGraph({}, {<<"b", "x">>, <<"x", "b">>}, {}), ImportGraph({}, {}, {"a"})}
  \cup {ImportGraph({e}, {}, {}) : e \in {[Import("b") EXCEPT !.transport = TRUE, !.persistence = TRUE],
                                        [Import("b") EXCEPT !.otherModule = TRUE, !.controller = TRUE],
                                        [Import("b") EXCEPT !.otherModule = TRUE, !.controller = TRUE, !.expandedOnly = TRUE],
                                        [Import("b") EXCEPT !.sameUnit = FALSE], [Import("b") EXCEPT !.marker = TRUE, !.declared = FALSE]}}
FitnessFacts ==
  [isUnit : BOOLEAN, base : ImportGraphs, head : ImportGraphs, workflow : {"no", V, N, F}, exempted : {{}},
   baseline : {[kind |-> k, entries |-> {<<"FR-01", "a", "package">>}] : k \in {"none", "valid", "expired"}}]
\* a rule broken at head that was neither broken in the same way at base nor frozen
FitnessDefect(f) ==
  LET known == CASE f.baseline.kind = "none" -> f.base [] f.baseline.kind = "valid" -> ImportGraph({}, {}, {"a"}) [] OTHER -> CleanGraph
      mine(m) == f.isUnit \/ m = "a"
      cycleOf(g, m) == IF m \in Reach(g.values, m) THEN Component(g.values, m) ELSE {}
      bad(g) == {e \in g.edges : (e.transport /\ e.persistence) \/ (e.otherModule /\ e.controller /\ ~e.expandedOnly)
                                  \/ ~e.sameUnit \/ ~e.declared}
  IN \/ f.workflow = F
     \/ mine("a") /\ ~(bad(f.head) \subseteq bad(known))
     \/ mine("a") /\ ~(f.head.persistencePackages \subseteq known.persistencePackages)
     \/ \E m \in SourceFiles : mine(m) /\ cycleOf(f.head, m) \notin {{}, cycleOf(known, m)}
FitnessBlind(f) == f.workflow = N

-----------------------------------------------------------------------------
(* doc_reference *)

\* References of a document that resolved at one of the revisions must resolve at head.
DocReference(f) == IF f.present /\ (f.refs \cap (f.atBase \cup f.atHead)) \ f.atHead # {} THEN F ELSE V
DocFacts == [present : BOOLEAN, refs : SUBSET {"path", "route", "model"}, atBase : SUBSET {"path", "route"},
             atHead : SUBSET {"path", "route"}]
DocDefect(f) == f.present /\ \E r \in f.refs : r \in f.atBase /\ r \notin f.atHead

=============================================================================
