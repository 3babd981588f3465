---------------------------- MODULE ContractUsage ----------------------------
(***************************************************************************)
(* tools/graph/contract_diff.py: what a consumer is seen to use of a       *)
(* contract, the verdict on every consumer, and verify.py's contract_diff  *)
(* over it. A use is how the consumer's code reaches a field: the scanner  *)
(* either attributes it to a key or says that it could not.                *)
(***************************************************************************)
EXTENDS ContractDiff

Use(via, how, key) == [via |-> via, how |-> how, key |-> key]

\* Uses the scanner attributes to a key that is read, and to a key that is sent.
ReadForms == {<<"typed", "member">>, <<"typed", "destructure">>, <<"param", "destructure">>, <<"array", "index">>,
              <<"safeParse", "data">>, <<"payload", "member">>, <<"payload", "destructure">>}
SentForms == {<<"literal", "key">>, <<"array", "push">>}
\* Uses it gives up on, and the ones of them that leave the whole projection unresolved.
OpaqueTyped == {"spread", "computed", "forward", "iterate", "rest"}
OpaqueArray == {"method", "forward", "iterate", "computed"}
OpaqueParse == {"whole", "reassigned", "unbound", "shadowed"}
OpaquePayload == {"spread", "computed", "mutated", "escape", "initializer"}

\* projection, object schemas: typed bindings, literals, containers and safeParse results.
ProjectObject(uses) ==
  LET Form(u) == <<u.via, u.how>>
      opaque == {u \in uses : \/ u.via \in {"typed", "param"} /\ u.how \in OpaqueTyped
                              \/ u.via = "literal" /\ u.how = "spread"
                              \/ u.via = "array" /\ u.how \in OpaqueArray
                              \/ u.via = "safeParse" /\ u.how \in OpaqueParse
                              \/ u.via = "payload" /\ u.how \in OpaquePayload}
  IN [read |-> {u.key : u \in {x \in uses : Form(x) \in ReadForms}},
      sent |-> {u.key : u \in {x \in uses : Form(x) \in SentForms}},
      literals |-> \E u \in uses : u.via = "literal" \/ Form(u) \in SentForms,
      used |-> {}, unionReads |-> {},
      complete |-> opaque = {} /\ uses # {},
      lexical |-> \E u \in opaque : u.via = "array",
      unresolved |-> \E u \in opaque : u.via \in {"safeParse", "payload"},
      enumUnresolved |-> FALSE]

\* projection, enum schemas: literals compared, cased or keyed are attributed; parsing the enum at run
\* time is not, and a consumer that names no literal is of unknown exhaustiveness.
ProjectEnum(uses) ==
  LET seen == {u \in uses : u.how \in {"member", "compare", "case", "recordKey", "initializer"}}
  IN [read |-> {}, sent |-> {}, literals |-> FALSE, unionReads |-> {}, used |-> {u.key : u \in seen},
      complete |-> uses = seen /\ seen # {}, lexical |-> FALSE, unresolved |-> FALSE,
      enumUnresolved |-> \E u \in uses : u.how \in {"parse", "options", "forwardSchema", "shadowed"}]

\* The variants a read of a union's payload can meet: a positive comparison of a required, plain
\* discriminator selects among them.
UnionGuardVariants(alts, guard) ==
  LET plain == \A a \in alts : /\ guard.field \in Required(a) /\ a.props[guard.field].kind = "enum"
                               /\ ~a.props[guard.field].nullable
      selected == {a \in alts : guard.value \in a.props[guard.field].vals}
  IN Decide(<< <<~guard.present \/ ~plain, alts>> >>, IF plain /\ selected # {} THEN selected ELSE alts)

ProjectUnion(uses, s, guard) ==
  LET objects == \A a \in s.alts : a.kind = "object"
      wrapped == \A u \in uses : u.via = "safeParse"
      reads == {[key |-> u.key, alts |-> UnionGuardVariants(s.alts, guard)] : u \in {x \in uses : x.how = "data"}}
      ambiguous == \E r \in reads : /\ \E a \in r.alts : r.key \in DOMAIN a.props
                                    /\ \E a \in r.alts : r.key \notin DOMAIN a.props
      whole == \E u \in uses : u.how # "data"
      bad == uses = {} \/ ~objects \/ ~wrapped \/ ambiguous \/ whole
  IN [read |-> {r.key : r \in reads}, sent |-> {}, literals |-> FALSE, used |-> {},
      unionReads |-> IF objects /\ uses # {} THEN reads ELSE {},
      complete |-> ~bad, lexical |-> FALSE, unresolved |-> bad, enumUnresolved |-> FALSE]

NoProjection == [read |-> {}, sent |-> {}, literals |-> FALSE, used |-> {}, unionReads |-> {}, complete |-> FALSE,
                 lexical |-> FALSE, unresolved |-> FALSE, enumUnresolved |-> FALSE]
Projection(uses, s, guard) ==
  CASE s.kind = "object" -> ProjectObject(uses)
    [] s.kind = "enum"   -> ProjectEnum(uses)
    [] s.kind = "union"  -> ProjectUnion(uses, s, guard)
    [] OTHER             -> NoProjection

\* edge_verdict: head is {} or {schema}.
EdgeVerdict(proj, head, breaking, provenance) ==
  LET s == IF head = {} THEN Plain("any") ELSE CHOOSE x \in head : TRUE
      Tops == {c.path[1] : c \in {x \in breaking : x.path # <<>>}}
      objectFails == /\ s.kind = "object"
                     /\ \/ proj.read \ DOMAIN s.props # {}
                        \/ ~s.open /\ proj.sent \ DOMAIN s.props # {}
                        \/ proj.literals /\ proj.complete /\ Required(s) \ proj.sent # {}
                        \/ Tops \cap (proj.read \cup proj.sent) # {}
      unionFails == s.kind = "union" /\ \E r \in proj.unionReads : \A a \in r.alts : r.key \notin DOMAIN a.props
      enumFails == s.kind = "enum" /\ proj.used \ s.vals # {}
      removed == \E c \in breaking : c.code = "CONTRACT_REMOVED"
      unattributable == {c \in breaking : /\ c.code \in {"ENUM_VALUE_ADDED", "ERROR_CODE_CHANGED", "TYPE_WIDENED", "REQUIRED_TO_OPTIONAL"}
                                          /\ s.kind = "enum" \/ c.path = <<>>}
  IN Decide(<< <<head = {} \/ objectFails \/ unionFails \/ enumFails \/ removed, F>>,
               <<proj.lexical \/ proj.unresolved \/ proj.enumUnresolved, N>>,
               <<s.kind = "union" /\ breaking # {}, N>>,
               <<breaking = {}, IF provenance # "deterministic" /\ ~proj.complete THEN N ELSE V>>,
               <<~proj.complete, N>>,
               <<unattributable # {}, N>> >>, V)

\* discover_edges: a file that imports a contract of another file at head, or imported it at base and
\* still exists, consumes it.
DiscoverEdges(c) == c.importsAtHead \/ (c.importsAtBase /\ c.fileAtHead)

-----------------------------------------------------------------------------
(* The native proof that an added metadata value is handled by every consumer (metadata_contract_proof.py) *)

CompilerProjectBinding(m) == m.targets /\ m.config = 1          \* exactly one closest tsconfig.json covers both targets
MetadataSourceBinding(bytes) == bytes = "same"
ObservationProblems(m) ==
  \/ ~m.schema \/ m.subject # "this" \/ ~m.project \/ m.inventory # "same" \/ ~m.closed
  \/ m.cases # m.union \/ m.union = {} \/ m.pins # "expected" \/ m.compiler # "measured"
Observe(m) ==
  Decide(<< <<~m.scope \/ m.git # "same" \/ m.pinsBefore # "expected" \/ ~CompilerProjectBinding(m), FALSE>>,
            <<~MetadataSourceBinding(m.before) \/ m.runtime # "expected", FALSE>>,
            <<m.ran = "none" \/ ObservationProblems(m) \/ m.ran # "ok", FALSE>> >>,
         MetadataSourceBinding(m.after) /\ m.runtimeAfter = "same" /\ m.pinsAfter = "same")

-----------------------------------------------------------------------------
(* run_diff and v_contract_diff *)

\* schema_of, for the two kinds of declaration enumerated here; a class has the one property k.
SchemaOf(e) == IF e.base = "dto" THEN FinishObject([k |-> ApplyDecorators(e.args[1], e.chain)]) ELSE Zod(e)

\* f: declarations old and new ({} or {expression}), direction, whether it is an error code, a consumer's
\* uses at head with its edge's provenance, and the metadata proof ({} when the contract is not its target).
Covered(f, new, changes) ==
  /\ changes # {} /\ \A c \in changes : c.code = "ENUM_VALUE_ADDED"
  /\ \E m \in f.metadata : Observe(m) /\ \A s \in new : s.vals = m.union

RunDiff(f, old, new, breaking, covered) ==
  LET s == CHOOSE x \in (IF new = {} THEN old ELSE new) : TRUE
      proj == IF f.fileAtHead THEN Projection(f.uses, s, f.guard) ELSE NoProjection
      plain == EdgeVerdict(proj, new, breaking, f.provenance)
      consumer == IF covered /\ plain # F THEN (IF f.inClosure THEN V ELSE N) ELSE plain
  IN [provider |-> IF breaking = {} THEN V ELSE F, consumer |-> consumer]

\* The contract itself, the file that declares it, and a file that consumes it.
RoleVerdict(role, f, old, new, breaking, covered) ==
  CASE f.old = {} /\ f.new = {} -> N                              \* NO_CONTRACTS, or a kind that is not extracted
    [] role = "contract" -> IF f.new = {} \/ breaking # {} THEN F ELSE V
    [] role = "declares" -> RunDiff(f, old, new, breaking, covered).provider
    [] OTHER             -> IF f.edge THEN RunDiff(f, old, new, breaking, covered).consumer ELSE V

\* a change the proof covers breaks nobody
ChangesVerdict(role, f, old, new, changes) ==
  IF Covered(f, new, changes) THEN RoleVerdict(role, f, old, new, {}, TRUE)
  ELSE RoleVerdict(role, f, old, new, Breaking(changes, f.direction), FALSE)
SchemasVerdict(role, f, old, new) == ChangesVerdict(role, f, old, new, Contract(old, new, f.errorCode))
SchemasOf(declarations) == {SchemaOf(e) : e \in declarations}
ContractDiffVerdict(role, f) == SchemasVerdict(role, f, SchemasOf(f.old), SchemasOf(f.new))

-----------------------------------------------------------------------------
(* What a declaration means, independently of the schemas *)

Value(t) == [t |-> t, s |-> "", n |-> 0, f |-> <<>>, q |-> <<>>]
Null == Value("null")
Str(s) == [Value("string") EXCEPT !.s = s]
Num(n) == [Value("number") EXCEPT !.n = n]
Size(v) == CASE v.t = "string" -> IF v.s = "long" THEN 4 ELSE 1 [] v.t = "array" -> Len(v.q) [] OTHER -> v.n

\* class-validator: an optional property is not validated when it is absent or null.
Lenient(e) == \E d \in Range(e.chain) : d.m = "IsOptional"
Validates(d, e, v) ==
  (v = Null /\ Lenient(e)) \/ CASE d.m = "IsString" -> v.t = "string" [] d.m = "IsNumber" -> v.t = "number"
                                 [] d.m = "IsIn" -> v.t = "string" /\ v.s \in d.keys
                                 [] d.m = "MaxLength" -> v.t = "string" /\ Size(v) <= d.n
                                 [] d.m = "IsNotEmpty" -> v # Null /\ v.s # "" [] OTHER -> TRUE

RECURSIVE Accepts(_, _), MayBeAbsent(_)
MayBeAbsent(e) == e.base = "optional" \/ \E i \in DOMAIN e.chain : e.chain[i].m \in {"optional", "default", "nullish"}
FieldOk(fields, k, f) == k \in DOMAIN fields => IF k \in DOMAIN f THEN Accepts(fields[k], f[k]) ELSE MayBeAbsent(fields[k])

RECURSIVE KeyOk(_, _, _)
KeyOk(e, k, f) ==
  IF e.chain = <<>> THEN FieldOk(e.fields, k, f)
  ELSE LET c == Last(e.chain)
           before == [e EXCEPT !.chain = Front(@)]
       IN CASE c.m = "partial" -> k \notin DOMAIN f \/ KeyOk(before, k, f)
            [] c.m = "extend"  -> IF k \in DOMAIN c.fields THEN FieldOk(c.fields, k, f) ELSE KeyOk(before, k, f)
            [] c.m = "pick"    -> k \notin c.keys \/ KeyOk(before, k, f)
            [] c.m = "omit"    -> k \in c.keys \/ KeyOk(before, k, f)
            [] OTHER           -> KeyOk(before, k, f)

Accepts(e, v) ==
  IF e.chain = <<>> \/ (e.base = "object" /\ v.t = "object")
  THEN CASE e.base = "any"      -> TRUE
         [] e.base = "string"   -> v.t = "string"
         [] e.base = "number"   -> v.t = "number"
         [] e.base = "enum"     -> v.t = "string" /\ v.s \in e.lits
         [] e.base = "array"    -> v.t = "array" /\ \A i \in DOMAIN v.q : Accepts(e.args[1], v.q[i])
         [] e.base = "union"    -> \E i \in DOMAIN e.args : Accepts(e.args[i], v)
         [] e.base = "object"   -> v.t = "object" /\ \A i \in DOMAIN Keys : KeyOk(e, Keys[i], v.f)
  ELSE IF e.base = "dto" THEN v.t = "object" /\ IF "k" \in DOMAIN v.f THEN \A d \in Range(e.chain) : Validates(d, e, v.f["k"]) ELSE Lenient(e)
  ELSE LET c == Last(e.chain)
           inner == Accepts([e EXCEPT !.chain = Front(@)], v)
       IN CASE c.m \in {"nullable", "nullish"} -> v = Null \/ inner
            [] c.m = "min"  -> inner /\ Size(v) >= c.n
            [] c.m = "max"  -> inner /\ Size(v) <= c.n
            [] c.m = "or"   -> inner \/ Accepts(c.args[1], v)
            [] c.m = "array" -> v.t = "array" /\ \A i \in DOMAIN v.q : Accepts([e EXCEPT !.chain = Front(@)], v.q[i])
            [] OTHER        -> inner

Leaves == {Null, Str("a"), Str("b"), Str("long"), Num(0), Num(3)}
Values == Leaves \cup {[Value("array") EXCEPT !.q = q] : q \in {<<>>, <<Str("a")>>, <<Str("long"), Str("a")>>}}
          \cup UNION {{[Value("object") EXCEPT !.f = f] : f \in [d -> {Null, Str("a"), Str("long"), Num(0)}]} : d \in SUBSET {"k", "m"}}

With(e, c) == [e EXCEPT !.chain = Append(@, c)]
Text == Expr("string")
Letters(S) == [Expr("enum") EXCEPT !.lits = S]
Object(fields) == [Expr("object") EXCEPT !.fields = fields]
Scalars == {Text, With(Text, Method("min", 2)), With(Text, Method("max", 2)), With(Text, Method("max", 5)),
            With(Text, Method("nullable", 0)), Expr("any"), Expr("number"), With(Expr("number"), Method("min", 1)),
            Letters({"a"}), Letters({"a", "b"}), [Expr("union") EXCEPT !.args = <<Text, Expr("number")>>],
            With(Text, [Method("or", 0) EXCEPT !.args = <<Expr("number")>>])}
Wide == Object([k |-> Text, m |-> Text])
Shapes == {Object([k |-> e]) : e \in {Text, With(Text, Method("optional", 0)), With(Text, Method("nullish", 0)), With(Text, Method("max", 2))}}
          \cup {Object([m |-> Text]), Wide, Object([k |-> Text, m |-> With(Text, Method("default", 0))]), With(Wide, Method("partial", 0)),
                With(Wide, [Method("pick", 0) EXCEPT !.keys = {"k"}]), With(Wide, [Method("omit", 0) EXCEPT !.keys = {"k"}]),
                With(Object([k |-> Text]), [Method("extend", 0) EXCEPT !.fields = [m |-> Text]]), With(Object([k |-> Text]), Method("strip", 0))}
Arrays == {With(Text, Method("array", 0)), [Expr("array") EXCEPT !.args = <<With(Text, Method("max", 2))>>],
           With([Expr("array") EXCEPT !.args = <<Text>>], Method("min", 1))}

\* A value the one side makes and the other side does not take. An answer carries declared keys only.
Made(e, v) == Accepts(e, v) /\ (v.t = "object" => DOMAIN v.f \subseteq DOMAIN SchemaOf(e).props)
Misfit(old, new, direction) ==
  \/ direction # "output" /\ \E v \in Values : Made(old, v) /\ ~Accepts(new, v)
  \/ direction # "input" /\ \E v \in Values : Made(new, v) /\ ~Accepts(old, v)

-----------------------------------------------------------------------------
(* Inputs, and what is wrong or unseen in them *)

Dto(type, decos) == [Expr("dto") EXCEPT !.args = <<Expr(type)>>, !.chain = decos]
Deco(m) == Method(m, 0)
Dtos == {Dto("string", <<Deco("IsString")>>), Dto("string", <<Deco("IsOptional"), Deco("IsString")>>),
         Dto("string", <<Deco("IsString"), Method("MaxLength", 2)>>), Dto("number", <<Deco("IsNumber")>>),
         Dto("string", <<[Deco("IsIn") EXCEPT !.keys = {"a"}]>>), Dto("string", <<Deco("IsNotEmpty"), Deco("IsString")>>)}
Directions == {"input", "output", "bidirectional"}
NoGuard == [present |-> FALSE, field |-> "k", value |-> "a"]
GoodProof == [targets |-> TRUE, config |-> 1, schema |-> TRUE, subject |-> "this", project |-> TRUE, inventory |-> "same",
              closed |-> TRUE, cases |-> {"a", "b"}, union |-> {"a", "b"}, pins |-> "expected", compiler |-> "measured", scope |-> TRUE,
              git |-> "same", pinsBefore |-> "expected", before |-> "same", runtime |-> "expected", ran |-> "ok", after |-> "same",
              runtimeAfter |-> "same", pinsAfter |-> "same"]
Proofs == Deviations(GoodProof,
  [targets |-> {FALSE}, config |-> {0, 2}, subject |-> {"other"}, closed |-> {FALSE}, cases |-> {{"a"}}, pins |-> {"other"},
   scope |-> {FALSE}, git |-> {"differs"}, before |-> {"differs"}, runtime |-> {"other"}, ran |-> {"none", "refused"},
   after |-> {"differs"}, runtimeAfter |-> {"differs"}, pinsAfter |-> {"differs"}])

Fact(old, new, direction) == [old |-> old, new |-> new, direction |-> direction, errorCode |-> FALSE, uses |-> {}, guard |-> NoGuard,
                              provenance |-> "deterministic", fileAtHead |-> TRUE, edge |-> TRUE, metadata |-> {}, inClosure |-> FALSE]

\* kind_change calls a change of kind compatible without comparing bounds or values; those pairs are left out.
KindOnly(p) ==
  LET old == SchemaOf(p[1]) new == SchemaOf(p[2])
  IN <<old.kind, new.kind>> \in Widening \/ (p[1].base = "dto" /\ <<old.props.k.kind, new.props.k.kind>> \in Widening)
Without(S, P(_)) == {x \in S : ~P(x)}
Pairs == UNION {Without(S \X S, KindOnly) : S \in {Scalars, Shapes, Arrays}}
ContractFacts == {Fact({p[1]}, {p[2]}, d) : p \in Pairs, d \in Directions}
                 \cup {Fact({p[1]}, {p[2]}, "input") : p \in Without(Dtos \X Dtos, KindOnly)}
                 \cup {Fact({}, {Text}, "input"), Fact({Text}, {}, "output"), Fact({}, {}, "input")}
                 \cup {[Fact({Letters({"a"})}, {Letters({"a", "b"})}, d) EXCEPT !.errorCode = TRUE] : d \in Directions}
                 \cup {[Fact({Letters({"a"})}, {Letters({"a", "b"})}, "bidirectional") EXCEPT !.metadata = {m}] : m \in Proofs}

\* The metadata proof stands for the consumers: an added value each of them handles is no misfit.
Proven(f) == \E m \in f.metadata : m = GoodProof
ContractDefect(f) == \/ f.old # {} /\ f.new = {}
                     \/ ~Proven(f) /\ \E a \in f.old, b \in f.new : Misfit(a, b, f.direction)
ContractBlind(f) == f.old = {} /\ f.new = {}

\* A consumer of {k, m} reads and sends through every form there is, one or two at a time.
Forms == {<<"typed", h>> : h \in {"member", "destructure"} \cup OpaqueTyped}
         \cup {<<"param", "destructure">>, <<"literal", "key">>, <<"literal", "spread">>, <<"array", "index">>, <<"array", "push">>}
         \cup {<<"array", h>> : h \in OpaqueArray} \cup {<<"safeParse", h>> : h \in {"data"} \cup OpaqueParse}
         \cup {<<"payload", h>> : h \in {"member"} \cup OpaquePayload}
UseSets == {{}} \cup {{Use(f[1], f[2], k), Use(g[1], g[2], l)} : f, g \in Forms, k, l \in {"k", "m"}}
Kind2(v) == Object([k |-> Letters({v}), m |-> Text])
Split == [Expr("union") EXCEPT !.args = <<Object([k |-> Letters({"a"}), m |-> Text]), Object([k |-> Letters({"b"})])>>]
EnumForms == {"member", "compare", "case", "recordKey", "parse", "options", "whole"}
ConsumerFacts ==
  {[Fact({a}, {b}, d) EXCEPT !.uses = u] : a \in {Wide, Object([k |-> Text])},
     b \in {Wide, Object([k |-> Text]), Object([k |-> Text, m |-> With(Text, Method("optional", 0))])}, d \in {"input", "bidirectional"}, u \in UseSets}
  \cup {[Fact({Wide}, h, "input") EXCEPT !.uses = {Use("typed", "spread", "m")}, !.provenance = p, !.fileAtHead = b, !.edge = e]
           : h \in {{}, {Wide}, {Object([k |-> Text])}}, p \in {"deterministic", "inferred"}, b \in BOOLEAN, e \in BOOLEAN}
  \cup {[Fact({Letters(s)}, {Letters(t)}, "bidirectional") EXCEPT !.uses = {Use("enum", h, x), Use("enum", g, y)}, !.metadata = m, !.inClosure = b]
           : s \in {{"a"}, {"a", "b"}}, t \in {{"a"}, {"a", "b"}}, h, g \in EnumForms, x, y \in {"a", "b"},
             m \in {{}, {GoodProof}}, b \in BOOLEAN}
  \cup {[Fact({Split}, {b}, "output") EXCEPT !.uses = {Use("safeParse", h, "m")}, !.guard = [present |-> q, field |-> "k", value |-> w]]
           : b \in {Split, [Split EXCEPT !.args = <<Object([k |-> Letters({"a"})]), Object([k |-> Letters({"b"})])>>]},
             h \in {"data", "whole"}, q \in BOOLEAN, w \in {"a", "b"}}

\* A use that reads or sends. Opaque uses are taken to have worked at the base.
Declared(e) == UNION {DOMAIN s.props : s \in {SchemaOf(e)} \cup SchemaOf(e).alts}
Sends(u) == u.via = "literal" \/ u.how = "push"
Seen(u) == <<u.via, u.how>> \in ReadForms \cup SentForms
WorkedAtBase(f) == \A u \in f.uses : Seen(u) \/ u.via = "enum" \/ \A a \in f.old : u.key \in Declared(a)
ConsumerDefect(f) ==
  /\ f.edge /\ f.fileAtHead
  /\ \/ f.new = {}
     \/ \E b \in f.new : LET s == SchemaOf(b) IN
          CASE s.kind = "object" -> \/ \E u \in f.uses : u.key \notin Declared(b)
                                    \/ LET sent == {u.key : u \in {x \in f.uses : Sends(x)}}
                                       IN sent # {} /\ Required(s) \ sent # {} /\ \A u \in f.uses : Seen(u)
            [] s.kind = "enum"  -> \E u \in f.uses : u.how \in EnumForms \ {"parse", "options", "whole"} /\ u.key \notin s.vals
            [] s.kind = "union" -> \E u \in f.uses : \A a \in UnionGuardVariants(s.alts, f.guard) : u.key \notin DOMAIN a.props
            [] OTHER -> FALSE
=============================================================================
