----------------------------- MODULE ContractDiff -----------------------------
(***************************************************************************)
(* tools/graph/contract_diff.py: how a declaration becomes a schema, how   *)
(* two schemas are compared, what of a contract a consumer is seen to use  *)
(* and the verdict on each consumer. A declaration is an expression tree;  *)
(* Accepts says which values the declared validator really accepts and is  *)
(* what the verdicts are checked against.                                  *)
(***************************************************************************)
EXTENDS Decisions, SequencesExt

Keys == <<"k", "m", "n">>                       \* property names, in their sorted order

-----------------------------------------------------------------------------
(* Schemas *)

Plain(kind) == [kind |-> kind, nullable |-> FALSE, optional |-> FALSE, open |-> FALSE,
                cons |-> <<>>, vals |-> {}, alts |-> {}, props |-> <<>>, items |-> <<>>]
Enum(vals) == [Plain("enum") EXCEPT !.vals = vals]
ArrayOf(item) == [Plain("array") EXCEPT !.items = <<item>>]

\* finish_object: `required` is derived from the properties that are not optional.
FinishObject(props) == [Plain("object") EXCEPT !.props = props]
Required(s) == {k \in DOMAIN s.props : ~s.props[k].optional}

MergeObjects(a, b) ==
  Decide(<< <<a.kind # "object", b>>, <<b.kind # "object", a>> >>,
         [FinishObject(b.props @@ a.props) EXCEPT !.open = a.open \/ b.open])

Optional(s) == [s EXCEPT !.optional = TRUE]
RECURSIVE DeepPartial(_, _)
DeepPartial(s, shallow) ==
  IF s.kind # "object" THEN s
  ELSE FinishObject([k \in DOMAIN s.props |-> LET v == Optional(s.props[k])
                                              IN IF shallow THEN v ELSE DeepPartial(v, FALSE)])

\* Nested unions are flattened, enums joined, equal variants kept once.
MakeUnion(variants) ==
  LET flat == UNION {IF v.kind = "union" THEN v.alts ELSE {v} : v \in variants}
  IN IF Cardinality(flat) = 1 THEN CHOOSE v \in flat : TRUE
     ELSE IF flat # {} /\ \A v \in flat : v.kind = "enum" THEN Enum(UNION {v.vals : v \in flat})
     ELSE [Plain("union") EXCEPT !.alts = flat, !.nullable = \E v \in flat : v.nullable]

Only(props, keys) == [k \in DOMAIN props \cap keys |-> props[k]]

-----------------------------------------------------------------------------
(* Declarations to schemas. A zod expression is a base with literals, fields and arguments, followed *)
(* by a chain of methods; a class-validator property is a TypeScript type with decorators.           *)

Expr(base) == [base |-> base, lits |-> {}, fields |-> <<>>, args |-> <<>>, chain |-> <<>>]
Method(m, n) == [m |-> m, n |-> n, keys |-> {}, fields |-> <<>>, args |-> <<>>]

\* apply_constraint: a bound is kept under the name that belongs to the kind it bounds.
ApplyConstraint(s, m, n) ==
  LET unit == IF s.kind = "string" THEN "Length" ELSE IF s.kind = "array" THEN "Items" ELSE ""
      lower == CASE unit = "Length" -> "minLength" [] unit = "Items" -> "minItems" [] OTHER -> "min"
      upper == CASE unit = "Length" -> "maxLength" [] unit = "Items" -> "maxItems" [] OTHER -> "max"
      With(c) == [s EXCEPT !.cons = c @@ s.cons]
  IN CASE m \in {"min", "gte"}   -> With(lower :> n)
       [] m \in {"max", "lte"}   -> With(upper :> n)
       [] m = "gt"               -> With("exclusiveMin" :> n)
       [] m = "lt"               -> With("exclusiveMax" :> n)
       [] m = "length"           -> With(("minLength" :> n) @@ ("maxLength" :> n))
       [] m = "nonempty"         -> With((IF s.kind = "string" THEN "minLength" ELSE "minItems") :> 1)
       [] m = "positive"         -> With("exclusiveMin" :> 0)
       [] m = "nonnegative"      -> With("min" :> 0)
       [] m = "int"              -> [s EXCEPT !.kind = "integer"]
       [] m = "regex"            -> With("pattern" :> n)
       [] m \in {"trim", "safe"} -> s
       [] OTHER                  -> With("format" :> m)

RECURSIVE Zod(_)
ZodObject(fields) == FinishObject([k \in DOMAIN fields |-> Zod(fields[k])])

ZodBase(e) ==
  CASE e.base \in {"string", "number", "boolean", "any", "never"} -> Plain(e.base)
    [] e.base = "int"                  -> Plain("integer")
    [] e.base \in {"uuid", "email"}    -> [Plain("string") EXCEPT !.cons = "format" :> e.base]
    [] e.base \in {"literal", "enum"}  -> Enum(e.lits)
    [] e.base \in {"array", "set"}     -> ArrayOf(Zod(e.args[1]))
    [] e.base = "object"               -> ZodObject(e.fields)
    [] e.base = "union"                -> MakeUnion({Zod(e.args[i]) : i \in DOMAIN e.args})
    [] e.base = "intersection"         -> MergeObjects(Zod(e.args[1]), Zod(e.args[2]))
    [] e.base = "tuple"                -> [Plain("tuple") EXCEPT !.items = [i \in DOMAIN e.args |-> Zod(e.args[i])]]
    [] e.base = "record"               -> [Plain("record") EXCEPT !.items = <<Zod(Last(e.args))>>]
    [] e.base = "optional"             -> Optional(Zod(e.args[1]))
    [] e.base = "nullable"             -> [Zod(e.args[1]) EXCEPT !.nullable = TRUE]
    [] e.base \in {"lazy", "preprocess"} -> Zod(Last(e.args))
    [] OTHER                           -> Plain("any")

\* strict, passthrough, refine, transform and their like leave the schema as it is.
ZodMethod(s, c) ==
  LET keys == IF c.keys = {} THEN DOMAIN s.props ELSE c.keys
      object == s.kind = "object"
  IN CASE c.m \in {"optional", "default", "catch"} -> Optional(s)
       [] c.m = "nullable"   -> [s EXCEPT !.nullable = TRUE]
       [] c.m = "nullish"    -> [Optional(s) EXCEPT !.nullable = TRUE]
       [] c.m = "array"      -> ArrayOf(s)
       [] c.m = "partial" /\ object  -> FinishObject([k \in DOMAIN s.props |-> [s.props[k] EXCEPT !.optional = @ \/ k \in keys]])
       [] c.m = "required" /\ object -> FinishObject([k \in DOMAIN s.props |-> [s.props[k] EXCEPT !.optional = @ /\ k \notin keys]])
       [] c.m = "deepPartial" -> DeepPartial(s, FALSE)
       [] c.m = "extend"     -> MergeObjects(s, ZodObject(c.fields))
       [] c.m = "merge"      -> LET other == Zod(c.args[1]) IN IF object /\ other.kind = "object" THEN MergeObjects(s, other) ELSE s
       [] c.m = "pick" /\ object -> FinishObject(Only(s.props, c.keys))
       [] c.m = "omit" /\ object -> FinishObject(Only(s.props, DOMAIN s.props \ c.keys))
       [] c.m = "or"         -> MakeUnion({s, Zod(c.args[1])})
       [] c.m = "keyof"      -> Enum(DOMAIN s.props)
       [] c.m = "extract" /\ s.kind = "enum" -> Enum(s.vals \cap c.keys)
       [] c.m = "exclude" /\ s.kind = "enum" -> Enum(s.vals \ c.keys)
       [] c.m \in {"strict", "passthrough", "describe", "refine", "partial", "required", "pick", "omit"} -> s
       [] OTHER              -> ApplyConstraint(s, c.m, c.n)

Zod(e) == FoldLeft(ZodMethod, ZodBase(e), e.chain)

\* ts_type: null and undefined in a union become flags; Partial is shallow.
RECURSIVE TsType(_)
TsType(t) ==
  CASE t.base = "union"   -> LET parts == {t.args[i] : i \in DOMAIN t.args}
                                 named == {p \in parts : p.base \notin {"null", "undefined"}}
                                 s == IF named = {} THEN Plain("null") ELSE MakeUnion({TsType(p) : p \in named})
                             IN [s EXCEPT !.nullable = @ \/ \E p \in parts : p.base = "null",
                                          !.optional = @ \/ \E p \in parts : p.base = "undefined"]
    [] t.base = "array"   -> ArrayOf(TsType(t.args[1]))
    [] t.base = "Partial" -> DeepPartial(TsType(t.args[1]), TRUE)
    [] t.base \in {"Pick", "Omit"} ->
         LET s == TsType(t.args[1])
         IN IF s.kind # "object" THEN s
            ELSE FinishObject(Only(s.props, IF t.base = "Pick" THEN t.lits ELSE DOMAIN s.props \ t.lits))
    [] t.base = "members" -> FinishObject([k \in DOMAIN t.fields |-> TsType(t.fields[k])])
    [] t.base = "object"  -> [Plain("object") EXCEPT !.open = TRUE]
    [] t.base = "literal" -> Enum(t.lits)
    [] OTHER              -> Plain(t.base)

\* apply_decorators: the decorators, in order, replace the annotated type, bound it and set optionality;
\* bounds on the number of items move to the array.
DefaultType(s, k) == [s EXCEPT !.typed = IF @ = {} THEN {Plain(k)} ELSE @]
Decorate(s, d) ==
  CASE d.m = "IsOptional" -> [s EXCEPT !.optional = TRUE]
    [] d.m = "IsDefined"  -> [s EXCEPT !.optional = FALSE]
    [] d.m = "IsString"   -> DefaultType(s, "string")
    [] d.m = "IsNumber"   -> DefaultType(s, "number")
    [] d.m = "IsInt"      -> [s EXCEPT !.typed = {Plain("integer")}]
    [] d.m = "IsUUID"     -> [s EXCEPT !.typed = {Plain("string")}, !.cons = ("format" :> "uuid") @@ @]
    [] d.m \in {"IsIn", "IsEnum", "Equals"} -> [s EXCEPT !.typed = {Enum(d.keys)}]
    [] d.m = "IsArray"    -> [s EXCEPT !.array = TRUE]
    [] d.m = "ArrayNotEmpty" -> [s EXCEPT !.cons = ("minItems" :> 1) @@ @]
    [] d.m = "ArrayMaxSize"  -> [s EXCEPT !.cons = ("maxItems" :> d.n) @@ @]
    [] d.m = "IsNotEmpty" -> [s EXCEPT !.cons = @ @@ ("minLength" :> 1)]
    [] d.m = "MaxLength"  -> [s EXCEPT !.cons = ("maxLength" :> d.n) @@ @]
    [] d.m = "MinLength"  -> [s EXCEPT !.cons = ("minLength" :> d.n) @@ @]
    [] d.m = "Min"        -> [s EXCEPT !.cons = ("min" :> d.n) @@ @]
    [] d.m = "IsPositive" -> [s EXCEPT !.cons = ("exclusiveMin" :> 0) @@ @]
    [] d.m = "Allow"      -> [s EXCEPT !.typed = {Plain("any")}]
    [] OTHER              -> s

DecoratedProperty(item, end) ==
  LET inner == [(IF end.typed = {} THEN item ELSE CHOOSE s \in end.typed : TRUE)
                  EXCEPT !.nullable = item.nullable, !.optional = FALSE]
      sized == DOMAIN end.cons \cap {"minItems", "maxItems"}
      bounded == [inner EXCEPT !.cons = Only(end.cons, DOMAIN end.cons \ sized) @@ @]
      property == IF end.array THEN [ArrayOf(bounded) EXCEPT !.cons = Only(end.cons, sized)]
                  ELSE [inner EXCEPT !.cons = end.cons @@ @]
  IN [property EXCEPT !.optional = end.optional]

DecorateType(schema, decos) ==
  LET array == schema.kind = "array"
  IN DecoratedProperty(IF array THEN schema.items[1] ELSE schema,
       FoldLeft(Decorate, [typed |-> {}, cons |-> <<>>, optional |-> schema.optional, array |-> array], decos))
ApplyDecorators(t, decos) == DecorateType(TsType(t), decos)

-----------------------------------------------------------------------------
(* Differ: the changes from schema a to schema b, each a code and the path it is at *)

BreakingAlways == {"CONTRACT_REMOVED", "FIELD_REMOVED", "FIELD_RENAMED", "NEW_REQUIRED_FIELD", "FIELD_MADE_REQUIRED",
                   "TYPE_CHANGED", "TYPE_NARROWED", "ENUM_VALUE_REMOVED", "ERROR_CODE_CHANGED"}
BreakingUnlessInput == {"REQUIRED_TO_OPTIONAL", "TYPE_WIDENED", "ENUM_VALUE_ADDED"}
Severity(code, direction) ==
  Decide(<< <<code \in BreakingAlways, "breaking">>,
            <<code \in BreakingUnlessInput /\ direction # "input", "breaking">>,
            <<code = "NON_SEMANTIC_TEXT", "info">> >>, "compatible")

Ch(code, path) == [code |-> code, path |-> path]
When(cond, code, path) == IF cond THEN {Ch(code, path)} ELSE {}
StripFlags(s) == [s EXCEPT !.optional = FALSE]

\* The bounds kept by both are compared by their sense; a bound only one side has narrows or widens.
Constraints(a, b, path) ==
  LET names == DOMAIN a.cons \cup DOMAIN b.cons
      Sense(k) == CASE k \in {"maxLength", "max", "maxItems", "exclusiveMax"} -> "upper"
                    [] k \in {"minLength", "min", "minItems", "exclusiveMin"} -> "lower"
                    [] OTHER -> "form"
      Same(k) == k \in DOMAIN a.cons /\ k \in DOMAIN b.cons /\ a.cons[k] = b.cons[k]
      Widens(k) == \/ k \notin DOMAIN b.cons
                   \/ k \in DOMAIN a.cons /\ CASE Sense(k) = "upper" -> b.cons[k] > a.cons[k]
                                               [] Sense(k) = "lower" -> b.cons[k] < a.cons[k]
                                               [] OTHER -> TRUE
      Narrows(k) == \/ k \notin DOMAIN a.cons
                    \/ k \in DOMAIN b.cons /\ (Sense(k) = "form" \/ ~Widens(k))
      changed == {k \in names : ~Same(k)}
  IN When(\E k \in changed : Narrows(k), "TYPE_NARROWED", path)
     \cup When(\E k \in changed : Widens(k), "TYPE_WIDENED", path)

\* kind_change looks at the two kinds alone: bounds and values of the two sides are not compared.
Widening == {<<"integer", "number">>, <<"enum", "string">>, <<"enum", "number">>, <<"enum", "integer">>,
             <<"enum", "boolean">>, <<"literal", "string">>, <<"date", "string">>, <<"null", "any">>, <<"undefined", "any">>}
Holds(union, s) == union.kind = "union" /\ \E v \in union.alts : StripFlags(v) = StripFlags(s)
KindChange(a, b, path) ==
  Decide(<< <<b.kind = "any" \/ Holds(b, a), {Ch("TYPE_WIDENED", path)}>>,
            <<a.kind = "any" \/ Holds(a, b), {Ch("TYPE_NARROWED", path)}>>,
            <<<<a.kind, b.kind>> \in Widening, {Ch("TYPE_WIDENED", path)}>>,
            <<<<b.kind, a.kind>> \in Widening, {Ch("TYPE_NARROWED", path)}>> >>, {Ch("TYPE_CHANGED", path)})

\* A removed field whose schema is that of exactly one added field, not yet claimed, was renamed to it.
Renamed(a, b) ==
  LET removed == SelectSeq(Keys, LAMBDA k : k \in DOMAIN a.props \ DOMAIN b.props)
      Candidates(r, taken) == {x \in DOMAIN b.props \ (DOMAIN a.props \cup taken) : a.props[r] = b.props[x]}
      Claim(acc, r) == IF Cardinality(Candidates(r, Range(acc))) = 1
                       THEN acc @@ (r :> CHOOSE x \in Candidates(r, Range(acc)) : TRUE) ELSE acc
  IN FoldLeft(Claim, <<>>, removed)

RECURSIVE Schema(_, _, _)
Objects(a, b, path) ==
  LET renamed == Renamed(a, b)
      both == DOMAIN a.props \cap DOMAIN b.props
      Field(k) == LET p == Append(path, k) IN
        When(a.props[k].optional /\ ~b.props[k].optional, "FIELD_MADE_REQUIRED", p)
        \cup When(~a.props[k].optional /\ b.props[k].optional, "REQUIRED_TO_OPTIONAL", p)
        \cup Schema(a.props[k], b.props[k], p)
  IN {Ch(IF r \in DOMAIN renamed THEN "FIELD_RENAMED" ELSE "FIELD_REMOVED", Append(path, r)) : r \in DOMAIN a.props \ DOMAIN b.props}
     \cup {Ch(IF b.props[x].optional THEN "FIELD_ADDED_OPTIONAL" ELSE "NEW_REQUIRED_FIELD", Append(path, x))
             : x \in DOMAIN b.props \ (DOMAIN a.props \cup Range(renamed))}
     \cup UNION {Field(k) : k \in both}

Schema(a, b, path) ==
  When(a.nullable /\ ~b.nullable, "TYPE_NARROWED", path) \cup When(~a.nullable /\ b.nullable, "TYPE_WIDENED", path)
  \cup CASE a.kind # b.kind   -> KindChange(a, b, path)
         [] a.kind = "object" -> Objects(a, b, path)
         [] a.kind = "enum"   -> When(a.vals \ b.vals # {}, "ENUM_VALUE_REMOVED", path)
                                 \cup When(b.vals \ a.vals # {}, "ENUM_VALUE_ADDED", path)
         [] a.kind = "array"  -> Schema(a.items[1], b.items[1], Append(path, "[]")) \cup Constraints(a, b, path)
         [] a.kind = "record" -> Schema(a.items[1], b.items[1], Append(path, "[]"))
         [] a.kind = "tuple"  -> IF Len(a.items) # Len(b.items) THEN {Ch("TYPE_CHANGED", path)}
                                 ELSE UNION {Schema(a.items[i], b.items[i], Append(path, "[]")) : i \in DOMAIN a.items}
         [] a.kind = "union"  -> When(a.alts \ b.alts # {}, "TYPE_NARROWED", path)
                                 \cup When(b.alts \ a.alts # {}, "TYPE_WIDENED", path)
         [] OTHER             -> Constraints(a, b, path)

\* Differ.contract: old and new are {} or {schema}.
Contract(old, new, errorCode) ==
  LET changes == UNION {Schema(a, b, <<>>) : a \in old, b \in new}
      Coded(c) == IF errorCode /\ c.code \in {"ENUM_VALUE_REMOVED", "ENUM_VALUE_ADDED"}
                  THEN [c EXCEPT !.code = "ERROR_CODE_CHANGED"] ELSE c
  IN Decide(<< <<old = {}, {Ch("CONTRACT_ADDED", <<>>)}>>, <<new = {}, {Ch("CONTRACT_REMOVED", <<>>)}>> >>,
            {Coded(c) : c \in changes})
Breaking(changes, direction) == {c \in changes : Severity(c.code, direction) = "breaking"}
=============================================================================
