-------------------------------- MODULE Verify -------------------------------
(***************************************************************************)
(* One run of verify.py: the verifiers the affected entities owe are run   *)
(* one after the other, each may crash, and their verdicts are aggregated  *)
(* into a receipt. What a verifier can say of an entity is computed by     *)
(* module VerifierAnswers from the models of the verifiers.                *)
(*                                                                         *)
(* The receipt is then handed over, possibly altered on the way, to the    *)
(* two judges of module Receipt.                                           *)
(***************************************************************************)
EXTENDS Receipt, VerifierAnswers, SequencesExt

CONSTANTS
  Worlds,       \* the ranges studied (see Receipt), by name, with what the verifier reads of them
  Runs,         \* pairs of a range and a command line [select, disabled, exemptions, out, item, explain]
  Captured      \* the instant of the run

VARIABLES
  range, opts,      \* the range and the command line
  query, required,  \* the impact of the range, and the verifiers each affected entity owes
  turn, recorded,   \* the next verifier, and the rows recorded so far
  cleared,          \* the entities whose canary was verified
  crashed,          \* the verifiers that crashed
  unsound, caused,  \* history: a success that hides something; a failure the change has caused
  receipt, exit,    \* what is written at the end
  altered           \* the receipt was changed on its way
vars == <<range, opts, query, required, turn, recorded, cleared, crashed, unsound, caused, receipt, exit, altered>>

Ranges == Worlds
w == Ranges[range]

\* run(): the verifiers in the order they run, each with the matrix id it answers for
Order == <<"type_check", "contract_diff", "route_config_consistency", "schema_diff", "config_schema",
  "fitness_rules", "selected_dependency", "doc_reference", "canary", "shell_syntax", "shell_behavior",
  "systemd_unit_semantics", "source_file_integrity", "source_input_contract", "full_fallback_test",
  "targeted_test", "property_check">>
Mid(step) == IF step = "selected_dependency" THEN "fitness_rules" ELSE step

\* verifiers that record as they go; the others record once, at their end
Incremental == {"type_check", "config_schema", "shell_syntax", "shell_behavior", "full_fallback_test",
                "targeted_test", "property_check"}

------------------------------------------------------------------------------
(* What the run owes, and its rows.                                         *)

Entities == query.base \cup query.head

\* --select: the entities a selectable verifier reaches, and why it does not reach the others
Applies(e) == w.type[e] \in {"code_unit", "route"}
SelApplied(v) ==
  {e \in Entities : Applies(e) /\ IF v = "targeted_test" THEN w.spec[e] = "runnable" ELSE w.property[e]}
WhyNot(v, e) == CASE v = "property_check" -> "NO_PROPERTY_DECLARED"
                  [] v = "targeted_test" /\ w.spec[e] = "planned" -> "NO_RUNNER_ON_HOST"
                  [] OTHER -> "NO_SPEC_REACHES_ENTITY"
SelNotApplied(v) ==
  LET missed == {e \in Entities \ SelApplied(v) : Applies(e)}
      reasons == {WhyNot(v, e) : e \in missed}
  IN {[verifier |-> v, reason |-> x, entities |-> {e \in missed : WhyNot(v, e) = x}] : x \in reasons}

VerifierSelection ==
  LET applied == {v \in opts.select : SelApplied(v) # {}}
      idle == {v \in opts.select : SelApplied(v) = {} /\ SelNotApplied(v) = {}}
  IN [requested |-> opts.select, noted |-> opts.select,
      applied |-> [v \in applied |-> SelApplied(v)],
      notApplied |-> UNION {SelNotApplied(v) : v \in opts.select}
        \cup {[verifier |-> v, reason |-> "NO_ENTITY_OF_APPLICABLE_TYPE", entities |-> {}] : v \in idle}]

\* collect_entities (its graph part is module Impact): duties, less what is declared not owed, plus --select
RequiredBy(duties) ==
  [e \in Entities |-> duties[e] \cup {v \in opts.select : e \in SelApplied(v)}]

Needing(mid) == {e \in Entities : mid \in required[e] /\ mid \notin opts.disabled}

\* the next verifier with something to do; the others return at once
NextStep(i) == Min({j \in i..Len(Order) : Needing(Mid(Order[j])) # {}} \cup {Len(Order) + 1})

\* record(): one row, with the verdict it gives each entity it lists
Record(id, kind, scope, ents, answers) ==
  LET said == {e \in ents : answers[e].verdict # "none"}
  IN [id |-> id, kind |-> kind, scope |-> scope, entities |-> ents, command |-> "argv", arms |-> {},
      exit |-> IF \E e \in said : answers[e].verdict = F THEN 1 ELSE 0,
      per |-> [e \in said |-> answers[e].verdict],
      ref |-> IF \E e \in said : answers[e].ref = "scratch" THEN "scratch" ELSE "committed"]

ScopeOf(step) == IF step = "full_fallback_test" THEN FullSuite ELSE Absent

RowsFor(step, ents, answers) ==
  LET group(g) == Record(<<"v", Mid(step), step, g>>, MatrixKind(Mid(step)), ScopeOf(step), g, answers)
  IN IF step \in Incremental \cup {"canary"} THEN {group({e}) : e \in ents} ELSE {group(ents)}

\* Mutant of CrashRow: a crash counts as a failure of the entities.
CrashRowFails(step, ents) ==
  Record(<<"v-crash", Mid(step)>>, Mid(step), Absent, ents, [e \in ents |-> Outcome(F, FALSE, FALSE, "scratch")])

CrashRow(step, ents) ==
  Record(<<"v-crash", Mid(step)>>, Mid(step), Absent, ents, [e \in ents |-> Outcome(N, FALSE, FALSE, "scratch")])

MatrixIdOf(v) == IF v.scope = FullSuite THEN "full_fallback_test" ELSE v.id[2]

------------------------------------------------------------------------------
(* The verdict of an entity.                                                *)

RowsOn(e, mid) == {i \in DOMAIN recorded : e \in DOMAIN recorded[i].per /\ MatrixIdOf(recorded[i]) = mid}

\* Mutant of Deciding: the last row wins.
DecidingLast(e, mid) == Max(RowsOn(e, mid))

\* the row that decides for matrix id mid: a failure always takes over, a gap only over a success
Deciding(e, mid) ==
  LET with(v) == {i \in RowsOn(e, mid) : recorded[i].per[e] = v}
  IN IF with(F) # {} THEN Max(with(F)) ELSE IF with(N) # {} THEN Min(with(N)) ELSE Min(with(V))

AggregateEntity(e) ==
  LET mids == {MatrixIdOf(recorded[i]) : i \in {j \in DOMAIN recorded : e \in DOMAIN recorded[j].per}}
      got == [m \in mids |-> recorded[Deciding(e, m)]]
      verdicts == {got[m].per[e] : m \in mids}
      base == Decide(<< <<F \in verdicts, F>>, <<required[e] \ mids # {} \/ N \in verdicts, N>>,
                        <<required[e] = {} \/ mids = {}, N>> >>, V)
      boundary == \E x \in query.core \cup query.tail :
                     x.entity = e /\ x.boundary /\ x.provs \cap {"inferred", "observed"} # {}
  IN [entity |-> e, ids |-> {got[m].id : m \in mids}, reason |-> TRUE,
      verdict |-> IF base = V /\ boundary /\ e \notin cleared THEN N ELSE base]

\* DEC-AUP-0034
StructuralExclusions ==
  {[entity |-> e, rule |-> "DEC-AUP-0034", path |-> w.path[e], base |-> w.blob[w.path[e]].base,
    head |-> w.blob[w.path[e]].head, item |-> Absent, own |-> Absent] :
     e \in {x \in Entities : /\ x \notin w.changed /\ required[x] = {} /\ w.type[x] \in NoVerifierTypes
                             /\ w.blob[w.path[x]].base # Absent
                             /\ w.blob[w.path[x]].base = w.blob[w.path[x]].head}}

\* DEC-AUP-0035
SupersededSelfExclusions ==
  {[entity |-> e, rule |-> "DEC-AUP-0035", path |-> opts.out, base |-> w.blob[opts.out].base,
    head |-> w.blob[opts.out].head, item |-> opts.item, own |-> opts.out] :
     e \in {x \in Entities : /\ opts.item # Absent /\ w.path[x] = opts.out /\ w.type[x] \in NoVerifierTypes
                             /\ LET present == {w.blob[opts.out].base, w.blob[opts.out].head} \ {Absent}
                                IN present # {} /\ \A c \in present : w.itemOf[c] = opts.item}}

ExclusionsMade ==
  SupersededSelfExclusions
  \cup {x \in StructuralExclusions : x.entity \notin {y.entity : y \in SupersededSelfExclusions}}

\* Mutant of LoadExemptions: the expiry is not looked at.
LoadExemptionsUndated(verdicts) ==
  {x \in opts.exemptions :
     ~x.structural /\ x.owner /\ \E v \in verdicts : v.entity = x.entity /\ v.verdict # V}

\* --exemptions: what of the file is attached
LoadExemptions(verdicts) ==
  {x \in opts.exemptions :
     /\ ~x.structural /\ x.owner /\ x.expires > Captured
     /\ \E v \in verdicts : v.entity = x.entity /\ v.verdict # V}

AdmissionVerdict(verdicts, exemptions) ==
  LET unresolved == {v.verdict : v \in {y \in verdicts : y.entity \notin {x.entity : x \in exemptions}}}
  IN Decide(<< <<F \in unresolved, "refused">>, <<N \in unresolved \/ verdicts = {}, "paused_safe">>,
               <<exemptions # {}, "admitted_with_exemptions">> >>, "admitted")

\* a question left open holds the change, but never softens a refusal
Held(verdict) ==
  LET unanswered == \E v \in opts.select : SelApplied(v) = {}
  IN IF verdict # "refused" /\ (unanswered \/ query.unmeasured # {}) THEN "paused_safe" ELSE verdict

\* the claim given on the command line, and what the receipt carries: the claim bound to the two
\* graphs, or the draft the query generates itself
Claim == [bound |-> opts.explain, base |-> w.base, head |-> w.head, baseGraph |-> w.before,
          headGraph |-> w.after, substantive |-> opts.explain, metadata |-> TRUE]
Explanation == IF query.empty THEN {Claim} ELSE {}

\* impact_query refuses a claim that explains nothing; the run then ends without a receipt
Refused == opts.explain /\ BindEmptyExplanation(w, query, Claim) # "bound"

TestSuite ==
  LET tree == AbsentSuiteTree(w.tree)
      ran == {v \in Range(recorded) : v.scope = FullSuite}
  IN IF ~w.absence.declared \/ ran = {} THEN {}
     ELSE {[declaredAbsent |-> TRUE, behaviourOpen |-> TRUE, entities |-> UNION {v.entities : v \in ran},
            reasoned |-> TRUE, why |-> w.absence.why, root |-> TRUE, tests |-> tree.tests,
            scripts |-> tree.scripts, unknown |-> tree.unknown,
            static |-> {[command |-> v.command, exit |-> v.exit, ref |-> TRUE, verifier |-> v.id] : v \in ran}]}

Aggregated ==
  LET exclusions == ExclusionsMade
      verdicts == {AggregateEntity(e) : e \in Entities \ {x.entity : x \in exclusions}}
      exemptions == LoadExemptions(verdicts)
  IN [modern |-> TRUE, mode |-> "diff", base |-> w.base, head |-> w.head, tree |-> w.head,
      graph |-> [at |-> w.base, digest |-> w.before],
      headGraph |-> {[at |-> w.head, digest |-> w.after, fresh |-> TRUE]},
      staleness |-> "fresh", mismatched |-> FALSE, dirty |-> FALSE, files |-> w.actual,
      core |-> query.core, tail |-> query.tail, triggered |-> query.triggered, reason |-> TRUE,
      seeds |-> w.changed, explanation |-> Explanation, selection |-> {Selection(query)},
      required |-> {required}, choice |-> {VerifierSelection},
      rows |-> Range(recorded), verdicts |-> verdicts, exemptions |-> exemptions, exclusions |-> exclusions,
      observed |-> {}, suite |-> TestSuite, captured |-> Captured, item |-> opts.item, path |-> opts.out,
      caller |-> {}, admission |-> Held(AdmissionVerdict(verdicts, exemptions))]

------------------------------------------------------------------------------
(* The run.                                                                 *)

Init ==
  /\ \E x \in Runs : range = x[1] /\ opts = x[2]
  /\ query = Query(w, w.actual)
  /\ required = RequiredBy(MandatoryByEntity(w, query, Captured))
  /\ turn = NextStep(1)
  /\ recorded = <<>> /\ cleared = {} /\ unsound = {} /\ caused = {} /\ crashed = {}
  /\ receipt = {} /\ exit = 9 /\ altered = FALSE

\* where the unit declares that it has no suite, only its static commands run: never a success
AnswersOf(step) ==
  IF step = "full_fallback_test" /\ w.absence.declared THEN {o \in Outcomes[step] : o.verdict # V}
  ELSE Outcomes[step]

Running == receipt = {} /\ exit = 9 /\ ~Refused

RunVerifier ==
  /\ Running /\ turn <= Len(Order)
  /\ LET step == Order[turn]
         ents == Needing(Mid(step))
     IN \E answers \in [ents -> AnswersOf(step)] :
          /\ recorded' = recorded \o SetToSeq(RowsFor(step, ents, answers))
          /\ cleared' = IF step = "canary" THEN {e \in ents : answers[e].verdict = V} ELSE cleared
          /\ unsound' = unsound \cup {<<e, Mid(step)>> : e \in {x \in ents : answers[x].hides}}
          /\ caused' = caused \cup {e \in ents : answers[e].justified}
  /\ turn' = NextStep(turn + 1)
  /\ UNCHANGED <<range, opts, query, required, crashed, receipt, exit, altered>>

\* run_verifier's except: what was recorded stays, everyone who needed the verifier is not measured
CrashVerifier ==
  /\ Running /\ turn <= Len(Order)
  /\ LET step == Order[turn]
         ents == Needing(Mid(step))
     IN \E done \in IF step \in Incremental THEN SUBSET ents ELSE {{}} :
        \E answers \in [done -> AnswersOf(step)] :
          /\ recorded' = recorded \o SetToSeq(IF done = {} THEN {} ELSE RowsFor(step, done, answers)) \o <<CrashRow(step, ents)>>
          /\ unsound' = unsound \cup {<<e, Mid(step)>> : e \in {x \in done : answers[x].hides}}
          /\ caused' = caused \cup {e \in done : answers[e].justified}
          /\ crashed' = crashed \cup {Mid(step)}
  /\ turn' = NextStep(turn + 1)
  /\ UNCHANGED <<range, opts, query, required, cleared, receipt, exit, altered>>

Refuse ==
  /\ Refused /\ exit = 9
  /\ exit' = 2
  /\ UNCHANGED <<range, opts, query, required, turn, recorded, cleared, crashed, unsound, caused, receipt, altered>>

Aggregate ==
  /\ Running /\ turn > Len(Order)
  /\ LET draft == Aggregated
     IN /\ receipt' = {draft}
        /\ exit' = IF BlockingQueryEvents(query, opts.explain) # {} THEN 3
                   ELSE IF draft.admission = "admitted" THEN 0 ELSE 1
  /\ UNCHANGED <<range, opts, query, required, turn, recorded, cleared, crashed, unsound, caused, altered>>

\* The receipt is a file: it may reach the judges with one part changed, and another conclusion.
Alterations(r) ==
  {[r EXCEPT !.verdicts = @ \ {v}] : v \in r.verdicts}
  \cup {[r EXCEPT !.verdicts = (@ \ {v}) \cup {[v EXCEPT !.verdict = V]}] : v \in r.verdicts}
  \cup {[r EXCEPT !.rows = @ \ {v}] : v \in r.rows}
  \cup {[r EXCEPT !.core = @ \ {x}, !.tail = @ \ {x}] : x \in r.core \cup r.tail}
  \cup {[r EXCEPT !.selection = {}], [r EXCEPT !.headGraph = {}], [r EXCEPT !.required = {}],
        [r EXCEPT !.selection = {}, !.headGraph = {}], [r EXCEPT !.explanation = {}],
        [r EXCEPT !.graph.digest = "other"], [r EXCEPT !.exclusions = {}], [r EXCEPT !.suite = {}]}
  \cup {[r EXCEPT !.required = {[m EXCEPT ![e] = {}]}] : <<m, e>> \in
          UNION {{<<m, e>> : e \in DOMAIN m} : m \in r.required}}
  \cup {[r EXCEPT !.exclusions = @ \cup {[entity |-> v.entity, rule |-> "DEC-AUP-0034", path |-> w.path[v.entity],
             base |-> "same", head |-> "same", item |-> Absent, own |-> Absent]},
                  !.verdicts = @ \ {v}] : v \in r.verdicts}
  \cup {[r EXCEPT !.exemptions = @ \cup {[entity |-> v.entity, owner |-> TRUE, reason |-> TRUE,
             expires |-> Captured, structural |-> FALSE]}] : v \in r.verdicts}

Alter ==
  /\ receipt # {} /\ ~altered
  /\ \E r \in receipt : \E a \in Alterations(r) :
       \E admission \in IF a.exemptions = {} THEN {"admitted"} ELSE Admitting :
         receipt' = {[a EXCEPT !.admission = admission]}
  /\ altered' = TRUE
  /\ UNCHANGED <<range, opts, query, required, turn, recorded, cleared, crashed, unsound, caused, exit>>

Next == RunVerifier \/ CrashVerifier \/ Refuse \/ Aggregate \/ Alter

Spec == Init /\ [][Next]_vars
------------------------------------------------------------------------------
(* Properties.                                                              *)

Draft == IF altered THEN {} ELSE receipt

\* Every verifier the entity owes finished with a success, and the success was true: nothing wrong
\* with the entity, and nothing the verifier did not look at.
Discharged(e) ==
  \A mid \in required[e] :
    /\ <<e, mid>> \notin unsound /\ mid \notin crashed
    /\ RowsOn(e, mid) # {} /\ \A i \in RowsOn(e, mid) : recorded[i].per[e] = V

\* A draft that admits the change leaves no affected entity behind: each is really in order by every
\* verifier it owes (aggregate, admission_verdict, and every verifier's own attribution), stands
\* under a live exemption, or is a record no verifier could say anything of.
AdmittedIsDischarged ==
  \A r \in Draft : r.admission \in Admitting =>
    \A e \in Entities :
      \/ Discharged(e) /\ required[e] # {}
      \/ \E x \in r.exemptions : x.entity = e /\ x.owner /\ x.expires > Captured
      \/ w.type[e] \in NoVerifierTypes /\ e \notin {v.entity : v \in r.verdicts}

\* A draft refuses a change only for a fault of the change: no crash, missing tool, missing
\* dependency or foreign error makes run() answer `refused` (run_verifier, aggregate).
RefusedHasCause == \A r \in Draft : r.admission = "refused" => caused # {}

\* What the verifier writes passes the judges it will meet, but for three things: a verifier whose
\* crash row carries a kind the receipt schema does not know, a canary whose evidence is not yet
\* committed, and a full-suite run that was exempted instead of measured.
DraftIsConsistent ==
  \A r \in Draft :
    LET found == CheckReceipt(r, ArmDefinitionForRange(w.profile.base, w.profile.head))
    IN /\ found \subseteq {"VERIFIER_KIND_UNKNOWN", "CANARY_CLAIM_WITHOUT_COMMITTED_EVIDENCE",
                           "FULL_FALLBACK_TEST_NOT_MEASURED"}
       /\ "VERIFIER_KIND_UNKNOWN" \in found => crashed \ KindValues # {}
       /\ "FULL_FALLBACK_TEST_NOT_MEASURED" \in found => r.triggered /\ r.exemptions # {}
       /\ found = {} /\ query.unmeasured = {} => ReceiptProblems(w, r) = {}

\* What both judges accept as admitted is sound whoever wrote it: over the real change set, every
\* entity Git and the graphs select is verified by a row of each kind it owes, and by none that says
\* otherwise, or is exempt by someone beyond the receipt's date, or is a record nobody changed.
AcceptedIsSound ==
  \A r \in receipt :
    (/\ r.admission \in Admitting /\ w.actual \subseteq r.files
     /\ CheckReceipt(r, ArmDefinitionForRange(w.profile.base, w.profile.head)) = {}
     /\ ReceiptProblems(w, r) = {}) =>
    \A e \in Entities :
      \/ /\ VerdictOf(r, e) = {V}
         /\ \A mid \in MandatoryByEntity(w, query, Captured)[e] :
              \E v \in r.rows : v.id \in IdsOf(r, e) /\ v.kind = MatrixKind(mid) /\ Says(v, e) = {V}
         /\ ~\E v \in r.rows : v.id \in IdsOf(r, e) /\ Says(v, e) \cap {F, N} # {}
      \/ \E x \in r.exemptions : x.entity = e /\ x.owner /\ x.expires > r.captured
      \/ w.type[e] \in NoVerifierTypes /\ (e \notin w.changed \/ w.path[e] = r.path)
==============================================================================
