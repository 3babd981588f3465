------------------------------- MODULE MCImpact ------------------------------
(* Six entities, one deployable: enough for a deterministic detour round an  *)
(* inferred service call, a test behind it, a route, and a configuration key. *)
EXTENDS Impact

MCNodes == <<"code:a", "code:s", "code:t", "code:x", "key:k", "route:r", "unit:d">>

MCNodeType == ("code:a" :> "code_unit" @@ "code:s" :> "code_unit" @@ "code:t" :> "code_unit"
  @@ "code:x" :> "code_unit" @@ "key:k" :> "config_key" @@ "route:r" :> "route"
  @@ "unit:d" :> "deployable_unit")

MCNodeFile == ("code:a" :> "fa" @@ "code:s" :> "fs" @@ "code:t" :> "ft" @@ "code:x" :> "fx"
  @@ "key:k" :> "none" @@ "route:r" :> "fx" @@ "unit:d" :> "none")

MCEdge(f, t, k, p, b) == [from |-> f, to |-> t, type |-> k, prov |-> p, boundary |-> b]

MCPool == <<MCEdge("code:x", "code:s", "calls", "inferred", "service"),
            MCEdge("code:x", "unit:d", "deploys_to", "deterministic", "intra_unit"),
            MCEdge("code:a", "code:s", "imports", "deterministic", "intra_unit"),
            MCEdge("code:t", "code:x", "imports", "deterministic", "intra_unit"),
            MCEdge("code:x", "code:a", "imports", "deterministic", "intra_unit"),
            MCEdge("code:x", "route:r", "provides_route", "deterministic", "intra_unit"),
            MCEdge("code:t", "key:k", "reads_config", "deterministic", "intra_unit")>>

MCClass == ("fa" :> "code" @@ "fs" :> "code" @@ "ft" :> "test" @@ "fx" :> "code"
  @@ "fu" :> "code" @@ "env" :> "global_config" @@ "lock" :> "lockfile"
  @@ "pkg" :> "manifest" @@ "css" :> "asset" @@ "md" :> "doc")

MCUnder == ("fa" :> "none" @@ "fs" :> "none" @@ "ft" :> "none" @@ "fx" :> "unit:d"
  @@ "fu" :> "none" @@ "env" :> "none" @@ "lock" :> "none" @@ "pkg" :> "unit:d"
  @@ "css" :> "unit:d" @@ "md" :> "none")

MCFile(p, s) == [path |-> p, status |-> s]

MCCases == {{MCFile("fs", "M")}, {MCFile("fs", "D")}, {MCFile("fx", "D")}, {MCFile("fx", "A")},
  {MCFile("env", "M")}, {MCFile("lock", "M"), MCFile("fs", "M")}, {MCFile("pkg", "M")},
  {MCFile("css", "M")}, {MCFile("fu", "M")}, {MCFile("fu", "A"), MCFile("fa", "M")},
  {MCFile("md", "M")}, {}}
=============================================================================
