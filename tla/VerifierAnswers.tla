--------------------------- MODULE VerifierAnswers ---------------------------
(***************************************************************************)
(* What each verifier of verify.py can say of an entity, and what was true *)
(* when it said it: the verdict the modules of the verifiers give, for     *)
(* every input they enumerate, with whether something is wrong with the    *)
(* change or out of the verifier's sight, and whether there is a reason to *)
(* fail.                                                                   *)
(***************************************************************************)
EXTENDS Decisions

S == INSTANCE Verifiers WITH Entities <- {"x", "y"}
M == INSTANCE MeasuredVerifiers
U == INSTANCE ContractUsage
C == INSTANCE FullSuiteCi

Never(f) == FALSE
AnswersOver(facts, answer(_)) == {answer(f) : f \in facts}
OutcomesOver(facts, verdict(_), defect(_), blind(_)) ==
  {Outcome(verdict(f), defect(f) \/ blind(f), defect(f), "scratch") : f \in facts}

TypeFacts == {<<unit, attr, <<c, d>> >> : unit \in BOOLEAN, attr \in SUBSET {1, 2},
                                     c \in S!Projects, d \in {S!GoodProject} \cup S!Projects}
TypeAnswer(f) == LET said == S!TypeCheck("x", f[1], f[2], f[3]) IN IF said = {} THEN "none" ELSE Worst(said)
TypeDefect(f) == S!TypeDefect("x", f[1], f[2], f[3])
TypeBlind(f) == ~S!TypeSeen("x", f[1], f[2], f[3])

CanaryAnswer(docs) ==
  LET verdict == Worst(M!CanaryRecorded(docs, "e"))
      own == {d \in docs : d.committed /\ ~d.errors /\ "e" \in DOMAIN d.rows /\ d.rows["e"] = verdict}
  IN Outcome(verdict, M!CanaryDefect(docs) \/ M!CanaryBlind(docs), M!CanaryDefect(docs),
             IF own # {} THEN "committed" ELSE "scratch")

ContractAnswer(f) == Outcome(U!ContractDiffVerdict("contract", f),
                             U!ContractDefect(f) \/ U!ContractBlind(f), f.old # f.new, "scratch")
TargetedAnswer(g) == M!TargetedTest("e", g)
RootTypecheckAnswer(p) == C!ConsumeRootTypecheck(p[1], p[2])
PropertyDefect(f) == f.rc # 0

\* Every outcome of every verifier; computed once, from the inputs the verifier modules enumerate.
Outcomes ==
  [type_check |->
      OutcomesOver(TypeFacts, TypeAnswer, TypeDefect, TypeBlind)
      \cup OutcomesOver(C!RootFacts, RootTypecheckAnswer, C!RootDefect, C!RootBlind),
   contract_diff |-> AnswersOver(U!ContractFacts, ContractAnswer),
   route_config_consistency |-> OutcomesOver(S!RouteFacts, S!RouteConfig, S!RouteDefect, S!RouteBlind),
   schema_diff |-> OutcomesOver(S!SchemaFacts, S!SchemaDiff, S!SchemaDefect, Never),
   config_schema |->
      OutcomesOver(S!ConfigFacts, S!ConfigSchema, S!ConfigDefect, Never)
      \cup OutcomesOver(S!WorkflowFacts, S!WorkflowConfig, S!WorkflowDefect, S!WorkflowBlind)
      \cup OutcomesOver(S!NativeFacts, S!NativePatchBinding, S!NativeDefect, S!NativeBlind),
   fitness_rules |-> OutcomesOver(S!FitnessFacts, S!Fitness, S!FitnessDefect, S!FitnessBlind),
   selected_dependency |->
      OutcomesOver(M!SelectedFacts, M!SelectedDependency, M!SelectedDefect, M!SelectedBlind)
      \cup {Outcome("none", FALSE, FALSE, "scratch")},
   doc_reference |-> OutcomesOver(S!DocFacts, S!DocReference, S!DocDefect, Never),
   canary |-> AnswersOver(M!CanaryFacts, CanaryAnswer),
   shell_syntax |-> OutcomesOver(M!ShellFacts, M!ShellSyntax, M!ShellDefect, M!ShellBlind),
   shell_behavior |->
      OutcomesOver(M!ShellBehaviorFacts, M!ShellBehavior, M!ShellBehaviorDefect, M!ShellBehaviorBlind),
   systemd_unit_semantics |->
      OutcomesOver(S!SystemdFacts, S!SystemdUnitSemantics, S!SystemdDefect, S!SystemdBlind),
   source_file_integrity |->
      OutcomesOver(S!SourceFileFacts, S!SourceFileIntegrity, S!SourceFileDefect, S!SourceFileBlind),
   source_input_contract |->
      OutcomesOver(M!SourceInputFacts, M!SourceInputContract, M!SourceInputDefect, M!SourceInputBlind),
   full_fallback_test |->
      OutcomesOver(M!FallbackFacts, M!GlobalFallbackTest, M!FallbackDefect, M!FallbackBlind)
      \cup OutcomesOver(C!CiFacts, C!CiVerdict, C!CiDefect, C!CiBlind),
   targeted_test |-> OutcomesOver(M!Groups, TargetedAnswer, M!TargetedDefect, M!TargetedBlind),
   property_check |-> OutcomesOver(M!PropertyFacts, M!PropertyCheck, PropertyDefect, Never)]
==============================================================================
