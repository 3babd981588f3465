----------------------------- MODULE FullSuiteCi -----------------------------
(***************************************************************************)
(* tools/graph/full_suite_ci.py: a verdict about a test suite or a         *)
(* compilation that ran on GitHub. A committed record says which run, job  *)
(* and attempt it was; the consumer reads all of it again and believes     *)
(* nothing of the record. Identities are small numbers: the record holds   *)
(* the one it was written with, GitHub and the repository the current one, *)
(* so a re-run, a push or an edited log is a difference between two        *)
(* numbers.                                                                *)
(***************************************************************************)
EXTENDS Decisions

-----------------------------------------------------------------------------
(* The workflow step of the record *)

\* _literal_command: the step runs exactly the declared argv, with nothing for a shell to expand.
LiteralCommand(s) == s.argv = "declared" /\ ~s.expands

\* workspace_test_packages: literal unique members, each a regular blob of its own name; the selector
\* names the deployable's package, which has a test script. "refused" otherwise.
WorkspaceTestPackages(w) ==
  IF w.selector /\ w.literal /\ w.regular /\ w.distinct /\ w.testScript /\ w.names = "dep" THEN "dep" ELSE "refused"

\* The binding of a step, "refused" for every shape that could run something else.
WorkflowStep(s, nested) ==
  Decide(<< <<s.yaml # "plain" \/ s.jobShape # "simple" \/ s.named # 1, "refused">>,
            <<s.personalJob /\ nested, "conditional">>,
            <<s.conditional \/ s.relocated \/ s.shell # "bash", "refused">>,
            <<nested /\ \E w \in s.workspace : WorkspaceTestPackages(w) = "refused", "refused">>,
            <<nested /\ s.workspace # {}, IF LiteralCommand(s) THEN "pnpm" ELSE "refused">>,
            <<nested /\ s.wrapper \in {"sqlite", "personal"}, s.wrapper>>,
            <<nested, "refused">> >>, IF LiteralCommand(s) THEN "literal" ELSE "refused")

-----------------------------------------------------------------------------
(* The lines of the job log that are the step's. Step times are whole      *)
(* seconds, log stamps are finer: two ticks are a second. An event carries *)
(* its stamp, the step that really printed it and what it is.              *)

Run == "run"        \* ##[group]Run <the declared command>
Group == "group"    \* ##[group] of anything else
Pass == "pass"      \* a count of passed tests
Command == "command" \* the command echoed without a group line

Between(log, from, to) == {i \in 1..Len(log) : from <= log[i].at /\ log[i].at < to}

\* literal_step_output: the indices of the step's output, {} when it refuses. `next` is the start of the
\* following step that ran, 0 when there is none.
LiteralStepOutput(log, start, end, next) ==
  LET limit == end + 2
      candidates == {i \in Between(log, start, limit) : log[i].kind = Run}
      begin == Min(candidates)
      after == {i \in begin + 1 .. Len(log) : log[i].kind \in {Run, Group}}
      following == IF after = {} THEN Len(log) + 1 ELSE Min(after)
      delimited == following <= Len(log) /\ next <= log[following].at /\ log[following].at < limit
      legacy == Between(log, start, end + 1)
  IN IF candidates = {} THEN legacy
     ELSE IF \/ Cardinality(candidates) > 1 \/ log[begin].at >= end
             \/ next # 0 /\ next < limit /\ ~delimited THEN {}
     ELSE {i \in begin .. following - 1 : log[i].at < limit}

\* sqlite_full_output and personal_full_output: both feature modes ran in order, with the whole
\* inventory of the source and nothing ignored or filtered, between the input and the exit marker.
WrapperOutput(o) ==
  /\ o.inputs = "source" /\ o.order = <<"no-default", "all", "exit">>
  /\ o.exits = 1 /\ o.inventory = "whole" /\ o.failed = 0 /\ o.ignored = 0

-----------------------------------------------------------------------------
(* consume() *)

\* record_delta_errors, the profile and every identity of the record against the run, before its verdict counts.
Bound(f) == /\ f.record /\ f.repository /\ f.command
            /\ f.delta = "records only" /\ f.profile
            /\ f.attempt = f.runAttempt /\ f.attempt = f.jobAttempt
            /\ f.source = f.runSource /\ f.completed

\* Everything after the conclusions: step, trees, log and checkout.
Observed(f) ==
  /\ WorkflowStep(f.step, f.nested) # "refused"
  /\ f.jobName /\ f.stepOk
  /\ f.end > f.start \/ (f.end = f.start /\ WorkflowStep(f.step, f.nested) = "conditional")
  /\ f.checkoutTree = f.tree /\ f.sourceTree = f.tree
  /\ f.committedLog = f.liveLog
  /\ f.checkoutSeen = <<f.checkout>>

\* The text of the step counts as a measured suite.
Counted(f) ==
  LET binding == WorkflowStep(f.step, f.nested)
      output == LiteralStepOutput(f.log, f.start, f.end, f.next)
  IN IF binding \in {"sqlite", "personal"} THEN WrapperOutput(f.wrapper)
     ELSE /\ \E i \in output : f.log[i].kind = Pass
          /\ \E i \in output : f.log[i].kind \in {Run, Command}
          /\ ~f.allSkipped

\* personal_artifact: one unexpired artifact of this run and attempt, its bytes those of the committed manifest.
PersonalArtifact(p, f) == p.artifactAttempt = f.attempt /\ p.artifactId /\ p.archive /\ p.manifestSame
\* personal_tracked_closure: the tracked files of the source, all regular.
PersonalTrackedClosure(p) == IF p.regular THEN p.closure ELSE 0
\* The execute branch, "refused" when it proves no execution.
PersonalExecute(p, f) ==
  Decide(<< <<p.outcomes # "executed" \/ ~p.manifest \/ p.manifestIdentity # f.attempt, "refused">>,
            <<~p.fullLog, "refused">>,
            <<p.failedTests > 0, F>>,
            <<~WrapperOutput(f.wrapper) \/ f.end - f.start > 1800, "refused">>,
            <<p.before = 0 \/ p.after # p.before, "refused">> >>, V)
\* The steps of the job and the current selector decision.
PersonalConditional(p, f, prior) ==
  LET closure == PersonalTrackedClosure(p)
      current == /\ p.helpers /\ p.requiredSteps /\ PersonalArtifact(p, f)
                 /\ p.currentSource = f.source /\ p.currentClosure = closure /\ closure # 0
                 /\ p.guardAttempt = f.attempt /\ p.seen
  IN Decide(<< <<~p.helpers \/ ~p.ordered, "refused">>,
               <<p.stepFailed, F>>,
               <<~current, "refused">>,
               <<p.mode = "execute", PersonalExecute(p, f)>>,
               <<p.outcomes # "reused" \/ ~p.manifest \/ p.before = 0, "refused">>,
               <<p.priorClosure # closure \/ p.priorBinding # p.before, "refused">>,
               <<~p.priorCommitted, "refused">>,
               <<prior # V, IF prior = F THEN F ELSE "refused">>,
               <<~p.priorIdentity, "refused">> >>, V)

\* consume() of a record, given what consuming its prior record gave; the depth bound makes a chain
\* of reuse impossible: the prior of a prior is never looked at.
ConsumeWith(f, prior) ==
  LET conditional == PersonalConditional(f.personal, f, prior)
  IN Decide(<< <<~Bound(f), N>>,
               <<~f.success, F>>,
               <<~Observed(f), N>>,
               <<WorkflowStep(f.step, f.nested) = "conditional", IF conditional = "refused" THEN N ELSE conditional>>,
               <<~Counted(f), N>> >>, V)
ExecutedNow(f) == WorkflowStep(f.step, f.nested) = "conditional" => f.personal.mode = "execute"
Consume(f, priors) ==
  LET prior == IF \E p \in priors : ExecutedNow(p) THEN ConsumeWith(CHOOSE p \in priors : TRUE, N) ELSE N
  IN ConsumeWith(f, prior)

-----------------------------------------------------------------------------
(* root type check: the collector in CI and the consumer in admission *)

\* root_typecheck_source_binding: the committed workflow is the one literal job, its inputs regular blobs.
RootTypecheckSourceBinding(b) ==
  b.triggers /\ b.simpleJob /\ b.runner /\ b.pinnedActions /\ b.literalSteps /\ b.stepOrder /\ b.guards /\ b.tsconfig /\ b.inputs

\* _job_log_members and _step_log: a plain log is the step's own; an archive needs one safe member for its number.
StepLog(l) == IF l.zip THEN l.safe /\ l.members = 1 ELSE TRUE

CollectRootTypecheck(f) ==
  LET bound == /\ f.cwd /\ f.token /\ f.event /\ f.listing = 1
               /\ f.listedAttempt = f.attempt /\ f.completed /\ f.jobs = 1
               /\ RootTypecheckSourceBinding(f.binding)
               /\ f.steps /\ StepLog(f.log) /\ f.invoked = 1
               /\ f.checkoutTree = f.tree
  IN Decide(<< <<~bound, N>>,
               <<f.compiler = "success" /\ f.job = "success" /\ f.prerequisites, V>>,
               <<f.compiler = "failure", F>> >>, N)

\* What the consumer finds when it reads the same run later: attempt `now`, log `nowLog`, candidate `nowSource`.
ConsumeRootTypecheck(f, c) ==
  LET recorded == CollectRootTypecheck(f)
      same == /\ c.directory /\ c.token /\ c.logBytes
              /\ c.now = f.attempt /\ c.nowLog = f.logId /\ c.nowSource = f.source
              /\ c.nowJob = f.job /\ c.nowCompiler = f.compiler
              /\ RootTypecheckSourceBinding(f.binding) /\ StepLog(f.log)
  IN Decide(<< <<~c.directory \/ recorded = N, N>>,
               <<~same, N>>,
               <<recorded = F, IF f.compiler = "failure" /\ c.nowJob = "failure" THEN F ELSE N>>,
               <<c.nowCompiler # "success" \/ c.nowJob # "success", N>> >>, V)

-----------------------------------------------------------------------------
(* Admission authenticates the rows again *)

\* receipt_errors: verified rows imported from CI.
ReceiptErrors(row, proof) ==
  IF row.origin # "ci" \/ row.verdict # V THEN {}
  ELSE IF row.scope # "full_suite" \/ row.paths # 1 \/ row.exit # 0 THEN {"invalid row"}
  ELSE IF proof # V \/ ~row.sourceSame THEN {"unverifiable"} ELSE {}

\* root_typecheck_receipt_errors: every row that looks like one.
RootTypecheckReceiptErrors(row, proof) ==
  IF row.origin # "ci" /\ row.scope # "typecheck" THEN {}
  ELSE IF row.scope # "typecheck" THEN {"unknown scope"}
  ELSE IF row.origin # "ci" \/ row.entities # {"root"} THEN {"entities"}
  ELSE IF row.exit # (CASE row.verdict = V -> 0 [] row.verdict = F -> 1 [] OTHER -> 125) THEN {"malformed"}
  ELSE IF row.verdict = N THEN {}
  ELSE IF row.paths # 1 THEN {"record path"}
  ELSE IF proof # row.verdict \/ ~row.sourceSame THEN {"unverifiable"} ELSE {}

-----------------------------------------------------------------------------
(* Facts *)

GoodStep == [yaml |-> "plain", jobShape |-> "simple", named |-> 1, personalJob |-> FALSE, conditional |-> FALSE,
             relocated |-> FALSE, shell |-> "bash", workspace |-> {}, wrapper |-> "none", argv |-> "declared", expands |-> FALSE]
GoodWorkspace == [selector |-> TRUE, literal |-> TRUE, regular |-> TRUE, distinct |-> TRUE, testScript |-> TRUE, names |-> "dep"]
GoodWrapper == [inputs |-> "source", order |-> <<"no-default", "all", "exit">>, exits |-> 1, inventory |-> "whole", failed |-> 0, ignored |-> 0]
GoodPersonal == [helpers |-> TRUE, ordered |-> TRUE, requiredSteps |-> TRUE, stepFailed |-> FALSE, artifactAttempt |-> 1,
                 artifactId |-> TRUE, archive |-> TRUE, manifestSame |-> TRUE, regular |-> TRUE, closure |-> 1,
                 currentSource |-> 1, currentClosure |-> 1, guardAttempt |-> 1, seen |-> TRUE, mode |-> "execute",
                 outcomes |-> "executed", manifest |-> TRUE, manifestIdentity |-> 1, fullLog |-> TRUE, failedTests |-> 0,
                 before |-> 1, after |-> 1, priorClosure |-> 1, priorBinding |-> 1, priorCommitted |-> TRUE, priorIdentity |-> TRUE]
Line(at, owner, kind) == [at |-> at, owner |-> owner, kind |-> kind]
\* step 1 runs from second 1 to second 3; its last line may be stamped within the third second
GoodLog == <<Line(2, 1, Run), Line(4, 1, Pass)>>
GoodCi == [record |-> TRUE, repository |-> TRUE, command |-> TRUE, delta |-> "records only", profile |-> TRUE,
           attempt |-> 1, runAttempt |-> 1, jobAttempt |-> 1, source |-> 1, runSource |-> 1, completed |-> TRUE,
           success |-> TRUE, step |-> GoodStep, nested |-> FALSE, jobName |-> TRUE, stepOk |-> TRUE, start |-> 2, end |-> 6,
           checkoutTree |-> 1, sourceTree |-> 1, tree |-> 1, committedLog |-> 1, liveLog |-> 1, checkout |-> 1,
           checkoutSeen |-> <<1>>, log |-> GoodLog, next |-> 0, allSkipped |-> FALSE, wrapper |-> GoodWrapper,
           personal |-> GoodPersonal]
\* Logs in which the next step started in the second this one ended and prints its own tests.
NextStarts == {6, 8}
Logs == {<<Line(2, 1, first), Line(own, 1, kind)>> \o tail :
           first \in {Run, Command}, own \in {4, 6, 7}, kind \in {Pass, "text"},
           tail \in {<<>>, <<Line(8, 2, Group), Line(8, 2, Pass)>>, <<Line(7, 2, Group), Line(7, 2, Pass)>>,
                     <<Line(7, 2, Pass)>>, <<Line(7, 2, Run), Line(8, 2, Pass)>>}}
Deviation(good, alt) == {good} \cup UNION {{[good EXCEPT ![k] = v] : v \in alt[k]} : k \in DOMAIN alt}
LiteralFacts ==
  Deviations(GoodCi, [record |-> {FALSE}, repository |-> {FALSE}, command |-> {FALSE}, delta |-> {"code"}, profile |-> {FALSE},
     runAttempt |-> {2}, jobAttempt |-> {2}, runSource |-> {2}, completed |-> {FALSE}, success |-> {FALSE}, jobName |-> {FALSE},
     stepOk |-> {FALSE}, end |-> {2}, checkoutTree |-> {2}, sourceTree |-> {2}, liveLog |-> {2}, checkoutSeen |-> {<<>>, <<2>>, <<1, 1>>},
     allSkipped |-> {TRUE},
     step |-> {[GoodStep EXCEPT !.yaml = "aliases"], [GoodStep EXCEPT !.named = 2], [GoodStep EXCEPT !.conditional = TRUE],
               [GoodStep EXCEPT !.argv = "other"], [GoodStep EXCEPT !.expands = TRUE], [GoodStep EXCEPT !.jobShape = "matrix"]}])
  \cup {[GoodCi EXCEPT !.log = l, !.next = IF \E i \in 1..Len(l) : l[i].owner = 2 THEN n ELSE 0] : l \in Logs, n \in {6}}
WorkspaceFacts == {[GoodCi EXCEPT !.nested = TRUE, !.step.workspace = {w}] :
  w \in Deviation(GoodWorkspace, [selector |-> {FALSE}, literal |-> {FALSE}, regular |-> {FALSE}, distinct |-> {FALSE},
                                  testScript |-> {FALSE}, names |-> {"other"}])}
WrapperFacts == {[GoodCi EXCEPT !.nested = TRUE, !.step.wrapper = k, !.wrapper = w] : k \in {"sqlite", "personal", "none"},
  w \in Deviation(GoodWrapper, [inputs |-> {"other"}, order |-> {<<"all", "no-default", "exit">>}, exits |-> {0, 2},
                                inventory |-> {"part"}, failed |-> {1}, ignored |-> {1}])}
PersonalFact(p, w) == [GoodCi EXCEPT !.nested = TRUE, !.step.personalJob = TRUE, !.personal = p, !.wrapper = w]
Colds == Deviations(GoodPersonal,
  [helpers |-> {FALSE}, ordered |-> {FALSE}, requiredSteps |-> {FALSE}, stepFailed |-> {TRUE}, artifactAttempt |-> {2},
   manifestSame |-> {FALSE}, regular |-> {FALSE}, currentSource |-> {2}, currentClosure |-> {2}, guardAttempt |-> {2},
   outcomes |-> {"reused"}, manifestIdentity |-> {2}, fullLog |-> {FALSE}, failedTests |-> {1}, before |-> {0}, after |-> {2}])
Reused == [GoodPersonal EXCEPT !.mode = "reuse", !.outcomes = "reused"]
Reuses == Deviations(Reused, [outcomes |-> {"executed"}, before |-> {0}, priorClosure |-> {2}, priorBinding |-> {2},
                              priorCommitted |-> {FALSE}, priorIdentity |-> {FALSE}])
ColdFacts == {PersonalFact(p, GoodWrapper) : p \in Colds}
ReuseFacts == {<<PersonalFact(r, GoodWrapper), prior>> : r \in Reuses,
                 prior \in {{}} \cup {{PersonalFact(p, GoodWrapper)} :
                   p \in {GoodPersonal, Reused, [GoodPersonal EXCEPT !.failedTests = 1], [GoodPersonal EXCEPT !.after = 2]}}}
CiFacts == {<<f, {}>> : f \in LiteralFacts \cup WorkspaceFacts \cup WrapperFacts \cup ColdFacts} \cup ReuseFacts

\* The suite of this very source passed, on this attempt, in the step's own output.
SuitePassed(f) ==
  /\ f.success /\ f.delta = "records only" /\ f.runAttempt = f.attempt /\ f.runSource = f.source
  /\ f.checkoutTree = f.tree /\ f.liveLog = f.committedLog /\ ~f.allSkipped
  /\ ~f.step.personalJob /\ f.step.wrapper = "none" =>
       \E i \in 1..Len(f.log) : f.log[i].owner = 1 /\ f.log[i].kind = Pass
  /\ f.step.personalJob \/ f.step.wrapper # "none" => f.wrapper = GoodWrapper
  /\ f.step.personalJob =>
       /\ f.personal.failedTests = 0 /\ f.personal.before # 0 /\ f.personal.after = f.personal.before
       /\ f.personal.guardAttempt = f.attempt /\ f.personal.artifactAttempt = f.attempt
       /\ f.personal.currentSource = f.source
CiVerdict(p) == Consume(p[1], p[2])
CiDefect(p) == \/ ~p[1].success
               \/ p[1].step.personalJob /\ (p[1].personal.stepFailed \/ p[1].personal.failedTests > 0)
               \/ \E q \in p[2] : q.personal.failedTests > 0
\* reuse is as good as the execution it reuses, whose inputs must be the current ones
CiBlind(p) == IF ExecutedNow(p[1]) THEN ~SuitePassed(p[1])
              ELSE \/ p[2] = {} \/ p[1].personal.priorClosure # p[1].personal.closure
                   \/ \E q \in p[2] : ~ExecutedNow(q) \/ ~SuitePassed(q)

GoodBinding == [triggers |-> TRUE, simpleJob |-> TRUE, runner |-> TRUE, pinnedActions |-> TRUE, literalSteps |-> TRUE,
                stepOrder |-> TRUE, guards |-> TRUE, tsconfig |-> TRUE, inputs |-> TRUE]
GoodCompile == [cwd |-> TRUE, token |-> TRUE, event |-> TRUE, listing |-> 1, listedAttempt |-> 1, attempt |-> 1, completed |-> TRUE,
                jobs |-> 1, binding |-> GoodBinding, steps |-> TRUE, log |-> [zip |-> TRUE, safe |-> TRUE, members |-> 1],
                invoked |-> 1, checkoutTree |-> 1, tree |-> 1, compiler |-> "success", job |-> "success", prerequisites |-> TRUE,
                logId |-> 1, source |-> 1]
Collected == Deviations(GoodCompile,
  [token |-> {FALSE}, event |-> {FALSE}, listing |-> {0, 2}, listedAttempt |-> {2}, completed |-> {FALSE}, jobs |-> {2},
   binding |-> {[GoodBinding EXCEPT !.literalSteps = FALSE], [GoodBinding EXCEPT !.pinnedActions = FALSE]},
   log |-> {[zip |-> TRUE, safe |-> TRUE, members |-> 2], [zip |-> FALSE, safe |-> FALSE, members |-> 0]},
   invoked |-> {0, 2}, checkoutTree |-> {2}, compiler |-> {"failure", "skipped"}, job |-> {"failure", "cancelled"}, prerequisites |-> {FALSE}])
Later(f) == Deviations([directory |-> TRUE, token |-> TRUE, logBytes |-> TRUE, now |-> f.attempt, nowLog |-> f.logId,
                        nowSource |-> f.source, nowJob |-> f.job, nowCompiler |-> f.compiler],
  [directory |-> {FALSE}, logBytes |-> {FALSE}, now |-> {2}, nowLog |-> {2}, nowSource |-> {2}, nowJob |-> {"failure"},
   nowCompiler |-> {"failure"}])
RootFacts == UNION {{<<f, c>> : c \in Later(f)} : f \in Collected}
RootDefect(p) == p[1].compiler = "failure"
\* the compilation of another attempt, tree or candidate says nothing of this one
RootBlind(p) == \/ p[2].now # p[1].attempt \/ p[2].nowSource # p[1].source \/ p[1].checkoutTree # p[1].tree
                \/ p[1].compiler # "success" \/ p[2].nowCompiler # "success" \/ p[2].nowJob # "success"
                \/ p[1].binding # GoodBinding \/ p[1].invoked # 1

=============================================================================
