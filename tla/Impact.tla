------------------------------- MODULE Impact -------------------------------
(***************************************************************************)
(* The impact query of the graph admission tools: impact.py (one graph)    *)
(* and impact_pair.py (the base and the head graph of a range), with the   *)
(* two computations of what each affected entity owes: the verifier's      *)
(* (verify.py, collect_entities) and the gate's own (mandatory_by_entity). *)
(*                                                                         *)
(* A behaviour is one run of `verify.py --diff base..head`: the graph of   *)
(* the base revision is checked and traversed, then that of the head, one  *)
(* heap pop a step; the two impact sets are merged and the obligations of  *)
(* every selected entity are derived.                                      *)
(*                                                                         *)
(* Abstraction: a graph is a set of edges over a fixed universe of nodes,  *)
(* a revision has the nodes whose file it has; what classify_file reads    *)
(* off a path's name is the constant Class; the edges of the pool are      *)
(* numbered in the code's sort order (type, from, to, provenance).         *)
(***************************************************************************)
EXTENDS Naturals, FiniteSets, Sequences, FiniteSetsExt, SequencesExt, TLC

CONSTANTS
  Nodes,        \* the entities, as a sequence in the order of their ids
  NodeType,     \* node -> type
  NodeFile,     \* node -> file that declares it, or "none"
  Pool,         \* the possible edges [from, to, type, prov, boundary], in sort order
  Class,        \* file -> what its name alone says it is
  Under,        \* file -> the deployable node it lies under, or "none"
  Cases,        \* the changes studied: sets of [path, status]
  Depths,       \* values of --max-depth
  Unlimited,    \* --max-depth -1
  Toggles       \* how many edges a change may add or remove

Unit == Range(Nodes)
Files == DOMAIN Class
Edges == 1..Len(Pool)
NodeTypes == {"code_unit", "deployable_unit", "route", "config_key", "contract"}
Boundaries == {"intra_unit", "service", "repo"}

ASSUME GraphAssumption ==
  /\ Nodes \in Seq(Unit) /\ NodeType \in [Unit -> NodeTypes]
  /\ \A e \in Edges : {Pool[e].from, Pool[e].to} \subseteq Unit /\ Pool[e].boundary \in Boundaries
  /\ Len(Pool) \in Nat /\ Depths \subseteq Nat
Roles == {"base", "head"}

\* FALLBACK_KINDS, FORWARD_TYPES, BOUNDARY_RANK of impact.py
FallbackKinds == {"lockfile", "global_config"}
ForwardTypes == {"provides_route", "implements_contract", "maps_model", "deploys_to"}
BoundaryRank == [intra_unit |-> 0, service |-> 1, repo |-> 2]

\* verifier-matrix.v1.json, the rows of the types this model uses
MatrixNode(type) ==
  CASE type = "code_unit" -> {"fitness_rules", "type_check"}
    [] type = "deployable_unit" -> {"fitness_rules", "type_check"}
    [] type = "route" -> {"route_config_consistency", "contract_diff", "type_check"}
    [] type = "config_key" -> {"config_schema"}
    [] OTHER -> {}

MatrixEdge(type) ==
  CASE type \in {"imports", "calls"} -> {"type_check"}
    [] type = "deploys_to" -> {"type_check", "fitness_rules"}
    [] type = "provides_route" ->
         {"type_check", "contract_diff", "route_config_consistency", "canary"}
    [] type = "reads_config" -> {"config_schema", "canary"}
    [] OTHER -> {}

\* applies_to of the verifiers that do not apply to every type of node
NarrowTypes ==
  [fitness_rules |-> {"code_unit", "deployable_unit"}, full_fallback_test |-> {"code_unit", "deployable_unit"},
   type_check |-> {"code_unit", "deployable_unit", "route"}, route_config_consistency |-> {"route"},
   contract_diff |-> {"contract", "route", "code_unit"}, config_schema |-> {"config_key", "code_unit"}]
AppliesTo(verifier) == IF verifier \in DOMAIN NarrowTypes THEN NarrowTypes[verifier] ELSE NodeTypes

VARIABLES
  git,      \* the repository: edges and files of each revision, the change
  opts,     \* how the tool was called: depth, supplied graph, dirty tree, full_test, env edit
  phase,    \* "base", "head", "merge", "owed", "done" or "refused"
  heap,     \* traverse(): the frontier
  best,     \* traverse(): node -> [nd, dep, hops, boundary]
  rows,     \* role -> impact rows of that revision's query
  impact,   \* the merged impact set
  owed      \* [verify, gate]: node -> verifiers, once derived

vars == <<git, opts, phase, heap, best, rows, impact, owed>>

-----------------------------------------------------------------------------
(* One revision's graph *)

NodesIn(files) == {n \in Unit : NodeFile[n] \in files \cup {"none"}}
EdgesIn(files, edges) ==
  {e \in edges : {Pool[e].from, Pool[e].to} \subseteq NodesIn(files)}
NodesAt(role) == NodesIn(git.files[role])
NodesOf(path, role) == {n \in NodesAt(role) : NodeFile[n] = path}

\* Path classification: the name decides first, then the node types the graph declares in the file.
ClassifyFile(path, role) ==
  LET types == {NodeType[n] : n \in NodesOf(path, role)}
  IN IF Class[path] \in FallbackKinds \cup {"receipt", "data_model", "test"} THEN Class[path]
     ELSE IF "contract" \in types THEN "contract"
     ELSE IF "route" \in types THEN "route"
     ELSE Class[path]

\* .env.example: a change that only adds or removes bare KEY= lines is narrowed to the keys,
\* provided every key is a node of one of the graphs; any other edit stays a global change.
EnvKeyDelta ==
  IF opts.env # "none" /\ opts.env \in NodesAt("base") \cup NodesAt("head")
  THEN {opts.env} ELSE {}

KindOf(f, role) ==
  IF Class[f.path] = "global_config" /\ EnvKeyDelta # {} THEN "config"
  ELSE ClassifyFile(f.path, role)

\* A deployable asset (php, css, locale json) counts as covered only under one declared root
\* with a supported full_test in the committed profile.
AssetBound(f) == Under[f.path] # "none" /\ opts.fullTest

DepNode(f) == Under[f.path]

\* Seeds of one changed file: the nodes it declares, the narrowed keys, and for a deployable's
\* own manifest the deployable itself (whose containment is then opened).
SeedsOf(f, role) ==
  NodesOf(f.path, role)
    \cup (IF Class[f.path] = "global_config" THEN EnvKeyDelta \cap NodesAt(role) ELSE {})
    \cup (IF Class[f.path] = "manifest" /\ DepNode(f) \in NodesAt(role) THEN {DepNode(f)} ELSE {})

FilesOf(role) == {f \in git.change : role = "base" \/ f.status \notin {"D", "R"}}
Seeds(role) == UNION {SeedsOf(f, role) : f \in FilesOf(role)}
OpenContainment(role) ==
  {DepNode(f) : f \in {g \in FilesOf(role) : Class[g.path] = "manifest"}} \cap NodesAt(role)

\* Which changed files trigger the repository-wide fallback.
FallbackFiles(role) ==
  {f \in FilesOf(role) :
     \/ KindOf(f, role) \in FallbackKinds
     \/ SeedsOf(f, role) = {} /\ Class[f.path] = "asset" /\ AssetBound(f)}

\* A modified or deleted code file without a node, or an asset nothing covers, refuses the query.
UnknownNode(role) ==
  \E f \in FilesOf(role) :
    /\ SeedsOf(f, role) = {}
    /\ \/ Class[f.path] = "asset" /\ ~AssetBound(f)
       \/ Class[f.path] \in {"code", "test"} /\ f.status # "A"

\* Freshness: the supplied base graph was built at base, the tree is clean.
Stale(role) == opts.dirty \/ (role = "base" /\ opts.graphAt # "base")

-----------------------------------------------------------------------------
(* traverse(): a label-correcting search over (non-deterministic hops, depth) *)

\* The hops out of a node: reverse edges first (dependents), then the forward "declared by" ones.
Neighbours(node, role) ==
  {[e |-> e, next |-> Pool[e].from, ord |-> e] :
      e \in {x \in git.edges[role] :
               /\ Pool[x].to = node
               /\ Pool[x].type = "deploys_to" => node \in OpenContainment(role)}}
  \cup
  {[e |-> e, next |-> Pool[e].to, ord |-> Len(Pool) + e] :
      e \in {x \in git.edges[role] :
               /\ Pool[x].from = node
               /\ Pool[x].type \in ForwardTypes
               /\ \/ Pool[x].type \in {"provides_route", "deploys_to"}
                  \/ /\ NodeType[node] = "code_unit"
                     /\ NodeFile[Pool[x].to] = NodeFile[node]}}

\* Mutant of Less: the shorter path wins, whatever its hops are.
LessByDepth(a, b) == a.dep < b.dep

Less(a, b) == a.nd < b.nd \/ (a.nd = b.nd /\ a.dep < b.dep)
MaxBoundary(a, b) == IF BoundaryRank[a] >= BoundaryRank[b] THEN a ELSE b
Index(n) == CHOOSE i \in 1..Len(Nodes) : Nodes[i] = n

Label(from, hop) ==
  LET edge == Pool[hop.e]
  IN [nd |-> from.nd + (IF edge.prov = "deterministic" THEN 0 ELSE 1),
      dep |-> from.dep + 1,
      hops |-> from.hops \cup {hop.e},
      boundary |-> MaxBoundary(from.boundary, edge.boundary)]

\* heapq order: (nd, depth, node id)
Smallest(h) ==
  CHOOSE m \in h : \A o \in h : Less(m, o) \/ (~Less(o, m) /\ Index(m.node) <= Index(o.node))

\* The hop by which one expansion reaches a node: of the cheapest ones the first in edge order.
BestHop(from, hops) ==
  CHOOSE x \in hops : \A y \in hops :
     \/ Less(Label(from, x), Label(from, y))
     \/ ~Less(Label(from, y), Label(from, x)) /\ x.ord <= y.ord

Expand(m, role) ==
  LET from == best[m.node]
      hopsTo(n) == {x \in Neighbours(m.node, role) : x.next = n}
      found == [n \in {x.next : x \in Neighbours(m.node, role)} \ (Seeds(role) \cup {m.node}) |->
                  Label(from, BestHop(from, hopsTo(n)))]
      better == {n \in DOMAIN found : n \in DOMAIN best => Less(found[n], best[n])}
  IN /\ best' = [n \in better \cup DOMAIN best |-> IF n \in better THEN found[n] ELSE best[n]]
     /\ heap' = (heap \ {m})
                  \cup {[nd |-> found[n].nd, dep |-> found[n].dep, node |-> n] : n \in better}

Outdated(m) == best[m.node].nd # m.nd \/ best[m.node].dep # m.dep
\* Mutant of TooDeep: nothing is followed behind an inferred hop.
TooDeepBehindInferred(m) == (opts.depth # Unlimited /\ m.dep >= opts.depth) \/ m.nd > 0

TooDeep(m) == opts.depth # Unlimited /\ m.dep >= opts.depth

Pop(role) ==
  /\ phase = role /\ heap # {}
  /\ LET m == Smallest(heap)
     IN IF Outdated(m) \/ TooDeep(m)
        THEN heap' = heap \ {m} /\ UNCHANGED best
        ELSE Expand(m, role)
  /\ UNCHANGED <<git, opts, phase, rows, impact, owed>>

Start(role) ==
  /\ best' = [n \in Seeds(role) |-> [nd |-> 0, dep |-> 0, hops |-> {}, boundary |-> "intra_unit"]]
  /\ heap' = {[nd |-> 0, dep |-> 0, node |-> n] : n \in Seeds(role)}

\* The rows of a finished query: what the traversal reached and, under a global fallback,
\* every other node of the graph by a synthetic containment hop.
RowsOf(role) ==
  LET reached == DOMAIN best \ Seeds(role)
      swept == IF FallbackFiles(role) = {} THEN {} ELSE NodesAt(role) \ (Seeds(role) \cup reached)
  IN [n \in reached \cup swept |->
        IF n \in reached THEN [hops |-> best[n].hops, boundary |-> best[n].boundary,
                              tail |-> best[n].nd > 0, swept |-> FALSE]
        ELSE [hops |-> {}, boundary |-> "intra_unit", tail |-> FALSE, swept |-> TRUE]]

Refuse == phase' = "refused" /\ UNCHANGED <<git, opts, heap, best, rows, impact, owed>>

QueryBase ==
  /\ phase = "start"
  /\ IF git.change = {} \/ Stale("base") \/ UnknownNode("base") THEN Refuse
     ELSE Start("base") /\ phase' = "base" /\ UNCHANGED <<git, opts, rows, impact, owed>>

QueryHead ==
  /\ phase = "base" /\ heap = {}
  /\ IF Stale("head") \/ UnknownNode("head") THEN Refuse
     ELSE /\ Start("head") /\ phase' = "head"
          /\ rows' = [rows EXCEPT !["base"] = RowsOf("base")]
          /\ UNCHANGED <<git, opts, impact, owed>>

-----------------------------------------------------------------------------
(* merge_revisions(), selected() and the obligations *)

RowsFor(n) == {rows[role][n] : role \in {r \in Roles : n \in DOMAIN rows[r]}}
Crosses(row) == row.boundary \in {"service", "repo"}

\* Mutant of Chosen: the row of the deterministic core is kept.
ChosenCore(n) ==
  LET weight(row) == (IF row.tail THEN 0 ELSE 2) + (IF Crosses(row) THEN 1 ELSE 0)
  IN CHOOSE row \in RowsFor(n) : \A other \in RowsFor(n) : weight(row) >= weight(other)

\* The row kept for display and for the boundary: a tail row before a core one, then one that
\* crosses a boundary; the paths of both revisions stay obligations.
Chosen(n) ==
  LET weight(row) == (IF row.tail THEN 2 ELSE 0) + (IF Crosses(row) THEN 1 ELSE 0)
  IN CHOOSE row \in RowsFor(n) : \A other \in RowsFor(n) : weight(row) >= weight(other)

MergedRow(n) ==
  [hops |-> UNION {row.hops : row \in RowsFor(n)}, boundary |-> Chosen(n).boundary,
   tail |-> Chosen(n).tail, swept |-> \A row \in RowsFor(n) : row.swept]

\* A code file the head graph has no node for is an event that blocks admission.
UnmeasuredHeadFiles ==
  {f.path : f \in {g \in FilesOf("head") : Class[g.path] \in {"code", "test"}
                                            /\ NodesOf(g.path, "head") = {}}}

Merge ==
  /\ phase = "head" /\ heap = {}
  /\ rows' = [rows EXCEPT !["head"] = IF FilesOf("head") = {} THEN <<>> ELSE RowsOf("head")]
  /\ phase' = "merge"
  /\ UNCHANGED <<git, opts, heap, best, impact, owed>>

Fallback == FallbackFiles("base") \cup FallbackFiles("head") # {}
AllSeeds == Seeds("base") \cup Seeds("head")

Union ==
  /\ phase = "merge"
  /\ impact' = [n \in DOMAIN rows["base"] \cup DOMAIN rows["head"] |-> MergedRow(n)]
  /\ phase' = "owed"
  /\ UNCHANGED <<git, opts, heap, best, rows, owed>>

\* A fallback makes the repository one entity: its deployables and the units none of them contains.
FallbackUnits ==
  IF ~Fallback THEN {}
  ELSE LET deployables == {n \in DOMAIN impact : NodeType[n] = "deployable_unit"}
       IN deployables \cup {n \in DOMAIN impact : /\ NodeType[n] = "code_unit"
                                                  /\ Under[NodeFile[n]] \notin deployables}

Selected ==
  AllSeeds \cup (IF Fallback
                 THEN FallbackUnits \cup {n \in DOMAIN impact : ~impact[n].swept}
                 ELSE DOMAIN impact)

InferredBoundary(n) ==
  /\ n \in DOMAIN impact /\ Crosses(impact[n])
  /\ \E e \in impact[n].hops : Pool[e].prov # "deterministic"

CanaryUnreachableTest(n) ==
  /\ NodeType[n] = "code_unit" /\ Class[NodeFile[n]] = "test" /\ ~InferredBoundary(n)

\* The edge types that bind an entity: the hops of its paths, every edge to or from another
\* affected entity in either graph and, for a changed one, every edge out of it.
BindingTypes(n) ==
  LET hops == IF n \in DOMAIN impact THEN impact[n].hops ELSE {}
      bound == UNION {{e \in git.edges[role] :
                         \/ Pool[e].from = n /\ (Pool[e].to \in Selected \/ n \in AllSeeds)
                         \/ Pool[e].to = n /\ Pool[e].from \in Selected} : role \in Roles}
  IN {Pool[e].type : e \in hops \cup bound}

TsUnder(n, role) == \E f \in git.files[role] : Under[f] = n /\ Class[f] \in {"code", "test"}

Minimum(n, hasTs) ==
  LET listed == MatrixNode(NodeType[n]) \cup UNION {MatrixEdge(t) : t \in BindingTypes(n)}
      applicable == {v \in listed : NodeType[n] \in AppliesTo(v)}
      discharged == {v \in applicable :
                       \/ v = "type_check" /\ NodeType[n] = "deployable_unit" /\ ~hasTs
                       \/ v = "canary" /\ CanaryUnreachableTest(n)}
  IN (applicable \ discharged)
     \cup (IF n \in FallbackUnits THEN {"full_fallback_test"} ELSE {})

\* verify.py reads the head tree to decide whether a deployable holds TypeScript ...
CollectEntities == [n \in Selected |-> Minimum(n, TsUnder(n, "head"))]
\* ... and the gate the nodes of both graphs.
MandatoryByEntity == [n \in Selected |-> Minimum(n, TsUnder(n, "base") \/ TsUnder(n, "head"))]

Oblige ==
  /\ phase = "owed"
  /\ owed' = [verify |-> CollectEntities, gate |-> MandatoryByEntity]
  /\ phase' = "done"
  /\ UNCHANGED <<git, opts, heap, best, rows, impact>>

-----------------------------------------------------------------------------
FilesAt(role, case) ==
  {f \in Files : ~\E c \in case : c.path = f /\ c.status = (IF role = "base" THEN "A" ELSE "D")}

Init ==
  /\ \E case \in Cases, before \in SUBSET Edges, turned \in kSubset(Toggles, Edges) \cup {{}} :
       LET after == (before \ turned) \cup (turned \ before)
       IN git = [edges |-> [base |-> EdgesIn(FilesAt("base", case), before),
                            head |-> EdgesIn(FilesAt("head", case), after)],
                 files |-> [base |-> FilesAt("base", case), head |-> FilesAt("head", case)],
                 change |-> case]
  /\ opts \in {o \in [depth : Depths, graphAt : {"base", "earlier"}, dirty : BOOLEAN,
                      fullTest : BOOLEAN, env : {"none"} \cup {n \in Unit : NodeType[n] = "config_key"}] :
                 /\ o.graphAt = "earlier" => ~o.dirty
                 /\ (o.env # "none") => \E f \in git.change : Class[f.path] = "global_config"
                 /\ ~o.fullTest => \E f \in git.change : Class[f.path] = "asset"
                 /\ (o.dirty \/ o.graphAt # "base") => o.depth = Unlimited /\ git.edges["base"] = {}}
  /\ phase = "start" /\ heap = {} /\ best = <<>>
  /\ rows = [role \in Roles |-> <<>>] /\ impact = <<>>
  /\ owed = [verify |-> <<>>, gate |-> <<>>]

Finished == phase \in {"done", "refused"} /\ UNCHANGED vars

Next ==
  \/ QueryBase \/ QueryHead \/ Merge \/ Union \/ Oblige
  \/ \E role \in Roles : Pop(role)
  \/ Finished

Spec == Init /\ [][Next]_vars

-----------------------------------------------------------------------------
(* Properties *)

TypeOK ==
  /\ phase \in {"start", "base", "head", "merge", "owed", "done", "refused"}
  /\ DOMAIN best \subseteq Unit /\ DOMAIN impact \subseteq Unit
  /\ \A m \in heap : m.node \in DOMAIN best /\ m.nd <= m.dep

\* Reference: the nodes within k hops of the seeds, over all edges or the deterministic ones.
HopsFrom(set, role, detOnly) ==
  set \cup UNION {{x.next : x \in {y \in Neighbours(n, role) :
                                     detOnly => Pool[y.e].prov = "deterministic"}} : n \in set}

Ball(role, detOnly, bound) ==
  LET ball[k \in 0..bound] == IF k = 0 THEN Seeds(role) ELSE HopsFrom(ball[k - 1], role, detOnly)
  IN ball[bound]

Bound == IF opts.depth = Unlimited THEN Cardinality(Unit) ELSE opts.depth
Within(role, detOnly) == Ball(role, detOnly, Bound) \ Seeds(role)

Searched(role) == phase = role /\ heap = {}
Reached(role) == DOMAIN best \ Seeds(role)

\* The deterministic core is exact: an entity's best path has no inferred or observed hop if and
\* only if a fully deterministic chain of at most max_depth hops leads to it, whatever order the
\* heap of traverse() popped the competing paths in.
CoreIsExact ==
  \A role \in Roles : Searched(role) =>
     {n \in Reached(role) : best[n].nd = 0} = Within(role, TRUE)

\* Without a depth limit the traversal finds every dependent and nothing else, in both graphs.
UnlimitedIsComplete ==
  \A role \in Roles : Searched(role) /\ opts.depth = Unlimited =>
     Reached(role) = Within(role, FALSE)

\* What impact.py's header says of the traversal: an entity derived from an affected unit is
\* affected too, here within the depth asked for.
DependentsAreAffected ==
  \A role \in Roles : Searched(role) => Within(role, FALSE) \subseteq Reached(role)

\* "A boundary inferred in either revision must retain its canary requirement" (merge_revisions):
\* if one revision reaches an entity over an inferred service or repository boundary, the merged
\* row says so and a provided route or a read key of it keeps its canary.
BoundaryKept ==
  phase = "done" =>
    \A n \in DOMAIN impact, role \in Roles :
      n \in DOMAIN rows[role] /\ rows[role][n].tail /\ Crosses(rows[role][n]) =>
         /\ InferredBoundary(n)
         /\ (\E t \in BindingTypes(n) : "canary" \in MatrixEdge(t))
               => "canary" \in owed.verify[n]

=============================================================================
