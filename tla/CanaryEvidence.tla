--------------------------- MODULE CanaryEvidence ---------------------------
(***************************************************************************)
(* Cashing a canary: an observation of process_observation.run() is made   *)
(* on a topic commit, recorded in later commits beside a base branch that  *)
(* moves on, and consumed by canary_evidence.consume() at the topic head.  *)
(*                                                                         *)
(* A commit is its tree and its ancestry; a tree maps six paths, one for   *)
(* each kind the delta rules tell apart, to entries (mode, version and,    *)
(* for the work-item ledger, its attachments, each naming a receipt        *)
(* version). Versions stand for object ids: every write makes a new one.   *)
(***************************************************************************)
EXTENDS ProcessObservation, Sequences

CONSTANTS
  MaxCommits,    \* commits made after the measured one
  MaxVersion     \* versions ever written

ASSUME HistoryAssumption == MaxCommits \in Nat /\ MaxVersion \in Nat \ {0}

Code == {"tool", "app"}                     \* outside RECORD_NAMESPACES
RecordDocs == {"input", "result", "receipt"}
Ledger == "ledger"                          \* under RECORD_DENIED_PREFIXES
Paths == Code \cup RecordDocs \cup {Ledger}

Executed == {"tool", "input"}               \* execution_files of the probe
Absent == [mode |-> "none", v |-> 0, atts |-> <<>>]
File(v) == [mode |-> "file", v |-> v, atts |-> <<>>]
ResultVersion == 1                          \* the committed CanaryResult

VARIABLES
  commits,   \* sequence of [tree, anc, line, side]: ancestors, first-parent line, merged-in parents
  head,      \* tip of the topic branch
  base,      \* tip of the base branch
  measured,  \* the commit the probe ran on, 0 before
  doc,       \* the CanaryResult: outcome and row verdict, and whether all was really seen
  nextV,     \* next unused version
  authored,  \* versions written on the topic or a side branch after the measurement
  cashed     \* what the last consume() answered

gitVars == <<commits, head, base, measured, doc, nextV, authored, cashed>>

NoDoc == [outcome |-> "none", verdict |-> "none", saw |-> FALSE, clean |-> FALSE]
NotCashed == [errors |-> TRUE, fresh |-> FALSE, host |-> "none"]
Tree(c) == commits[c].tree

-----------------------------------------------------------------------------
(* Git, as the code asks it *)

IsAncestor(a, c) == a \in commits[c].anc
MergeBase(a, c) == Max(commits[a].anc \cap commits[c].anc)

\* rev-list --merges --first-parent measured..candidate
MergesSince(m, c) == {x \in commits[c].line \ commits[m].anc : commits[x].side # 0}

NewCommit(tree, parent, side) ==
  LET id == Len(commits) + 1
  IN [tree |-> tree, side |-> side,
      anc |-> commits[parent].anc \cup {id} \cup (IF side = 0 THEN {} ELSE commits[side].anc),
      line |-> commits[parent].line \cup {id}]

-----------------------------------------------------------------------------
(* canary_evidence *)

\* Paths at which the candidate carries the base branch's own entry, brought in by first-parent
\* merges of the base branch only.
BaseMergedPaths(m, c, ref) ==
  LET merges == MergesSince(m, c)
  IN IF \/ ref = 0 \/ merges = {}
        \/ \E x \in merges : ~IsAncestor(commits[x].side, ref)
     THEN {}
     ELSE LET anchor == MergeBase(ref, c)
          IN {p \in Paths : Tree(c)[p] = Tree(anchor)[p] /\ Tree(c)[p] # Tree(m)[p]}

IsStrictPrefix(s, t) == Len(s) < Len(t) /\ SubSeq(t, 1, Len(s)) = s

\* Only an append may be skipped over, and every appended attachment must name a receipt that is
\* in the candidate tree with the bytes it records.
LedgerAppendErrors(before, after, candidate) ==
  \/ after.mode # "file" \/ before.mode \notin {"none", "file"}
  \/ before.mode = "file" /\ before.v # after.v          \* another field of the entry changed
  \/ ~IsStrictPrefix(before.atts, after.atts)
  \/ \E i \in (Len(before.atts) + 1)..Len(after.atts) :
       \/ candidate["receipt"].mode # "file"
       \/ candidate["receipt"].v # after.atts[i]

\* Mutant of PathRefused: what came from the base branch passes even if the probe executed it.
PathRefusedUnlessMerged(p, m, c, merged) ==
  IF p \in Code THEN p \notin merged
  ELSE IF p = Ledger THEN LedgerAppendErrors(Tree(m)[p], Tree(c)[p], Tree(c))
  ELSE Tree(c)[p].mode \notin {"none", "file"} \/ p \in Executed

\* Why one differing path refuses the delta.
PathRefused(p, m, c, merged) ==
  LET before == Tree(m)[p]
      after == Tree(c)[p]
  IN IF p \in Code THEN p \notin merged \ Executed
     ELSE IF p = Ledger THEN LedgerAppendErrors(before, after, Tree(c))
     ELSE \/ after.mode \notin {"none", "file"}
          \/ before.mode # "none" /\ after.mode # "none" /\ before.mode # after.mode
          \/ p \in Executed

RecordDeltaErrors(m, c, ref) ==
  \/ ~IsAncestor(m, c)
  \/ LET merged == BaseMergedPaths(m, c, ref)
     IN \E p \in Paths : Tree(m)[p] # Tree(c)[p] /\ PathRefused(p, m, c, merged)

\* Mutant of StructureErrors: a success is not held against its probe.
StructureErrorsOfFailures ==
  \/ doc.verdict = "failed" /\ doc.outcome # "failed"
  \/ doc.verdict = "not_measured" /\ doc.outcome = "failed"

\* A row may not contradict the probes it cites, and an observation not itself.
StructureErrors ==
  \/ doc.verdict = "verified" /\ doc.outcome # "verified"
  \/ doc.verdict = "failed" /\ doc.outcome # "failed"
  \/ doc.verdict = "not_measured" /\ doc.outcome = "failed"

\* The subject is the candidate, or a commit that record commits were stacked on; the evidence is
\* the claim that this commit was measured in a clean tree.
SourceErrors(c, dirty, ref) ==
  \/ dirty
  \/ c # measured /\ RecordDeltaErrors(measured, c, ref)
  \/ ~doc.clean

\* consume(at_head): the result is read as committed at the candidate.
ConsumeErrors(c, dirty, ref, h) ==
  \/ Tree(c)["result"].v # ResultVersion
  \/ StructureErrors \/ ResultErrors(result)
  \/ SourceErrors(c, dirty, ref)
  \/ BoundErrors(result, h)

-----------------------------------------------------------------------------
(* Actions *)

RootTree == [p \in Paths |-> IF p \in {"result", "receipt"} THEN Absent ELSE File(0)]

EvInit ==
  /\ ObsInit
  /\ commits = <<[tree |-> RootTree, side |-> 0, anc |-> {1}, line |-> {1}],
                 [tree |-> RootTree, side |-> 0, anc |-> {1, 2}, line |-> {1, 2}]>>
  /\ head = 2 /\ base = 1 /\ measured = 0 /\ doc = NoDoc
  /\ nextV = 2 /\ authored = {} /\ cashed = NotCashed

\* What of an observation its consumers still tell apart: the outcome and whether anything ran.
Representative(r) ==
  IF ~r.executed THEN NoResult
  ELSE [NoResult EXCEPT !.executed = TRUE, !.kind = "expected", !.unchanged = TRUE,
                        !.complete = (r.outcome # "not_measured"), !.verifiable = TRUE,
                        !.matched = (r.outcome = "verified"), !.artifact = "match",
                        !.outcome = r.outcome]

\* The producer writes the result document: a row per entity, from the observation; its process
\* tree is history from here on.
Measure ==
  /\ pc = "judged" /\ measured = 0
  /\ measured' = head
  /\ \E verdict \in {"verified", "failed", "not_measured"}, clean \in BOOLEAN :
       doc' = [outcome |-> result.outcome, verdict |-> verdict, clean |-> clean,
               saw |-> status = "expected" /\ got = sent /\ ran = "pinned"]
  /\ proc' = Idle /\ status' = "none" /\ sent' = Zero /\ got' = Zero /\ pending' = Zero
  /\ open' = {} /\ overflow' = FALSE /\ info' = FALSE /\ pc' = "recorded" /\ ran' = "none"
  /\ world' = [exec |-> "pinned", artifact |-> "none"]
  /\ result' = Representative(result)
  /\ UNCHANGED <<commits, head, base, nextV, authored, cashed>>

\* Bounds, and no history behind a document that is refused whatever follows.
Room ==
  /\ measured # 0 /\ Len(commits) < 2 + MaxCommits /\ nextV <= MaxVersion /\ cashed = NotCashed
  /\ ~StructureErrors /\ doc.clean

\* The entries a commit may write at a path.
Writes(p, old) ==
  {File(nextV), Absent}
    \cup (IF p = "result" THEN {File(ResultVersion)} ELSE {})
    \cup (IF p \in RecordDocs /\ old.mode = "file" THEN {[old EXCEPT !.mode = "exec"]} ELSE {})
    \cup (IF p = Ledger THEN {[old EXCEPT !.atts = Append(@, v)] : v \in 2..nextV} ELSE {})

TopicCommit ==
  /\ Room
  /\ \E p \in Paths : \E e \in Writes(p, Tree(head)[p]) :
       /\ e # Tree(head)[p]
       /\ commits' = Append(commits, NewCommit([Tree(head) EXCEPT ![p] = e], head, 0))
       /\ authored' = authored \cup ({e.v} \cap {nextV})
       /\ nextV' = IF e.v = nextV THEN nextV + 1 ELSE nextV
  /\ head' = Len(commits')
  /\ UNCHANGED <<base, measured, doc, cashed>>

\* History is rewritten: the tip is replaced by a sibling with another edit.
Amend ==
  /\ Room /\ head > 1
  /\ \E p \in Code :
       /\ commits' = Append(commits, NewCommit([Tree(head) EXCEPT ![p] = File(nextV)],
                                                Max(commits[head].line \ {head}), 0))
       /\ authored' = authored \cup {nextV} /\ nextV' = nextV + 1
  /\ head' = Len(commits')
  /\ UNCHANGED <<base, measured, doc, cashed>>

BaseCommit ==
  /\ Room
  /\ \E p \in Paths \ {"result"} :
       commits' = Append(commits, NewCommit([Tree(base) EXCEPT ![p] = File(nextV)], base, 0))
  /\ base' = Len(commits') /\ nextV' = nextV + 1
  /\ UNCHANGED <<head, measured, doc, authored, cashed>>

\* The base branch is merged into the topic: three-way, with any side of a conflict.
MergeBaseIntoTopic ==
  /\ Room /\ ~IsAncestor(base, head)
  /\ LET anchor == Tree(MergeBase(base, head))
         ours == Tree(head)
         theirs == Tree(base)
     IN \E t \in [Paths -> {"ours", "theirs"}] :
          /\ \A p \in Paths :
               /\ (ours[p] = anchor[p] /\ theirs[p] # anchor[p]) => t[p] = "theirs"
               /\ theirs[p] = anchor[p] => t[p] = "ours"
          /\ commits' = Append(commits,
               NewCommit([p \in Paths |-> IF t[p] = "ours" THEN ours[p] ELSE theirs[p]], head, base))
  /\ head' = Len(commits')
  /\ UNCHANGED <<base, measured, doc, nextV, authored, cashed>>

\* A branch that is not the base is merged in: its commit and the merge.
SidewaysMerge ==
  /\ Room /\ Len(commits) < 1 + MaxCommits
  /\ \E p \in Code :
       LET side == NewCommit([RootTree EXCEPT ![p] = File(nextV)], 1, 0)
           id == Len(commits) + 1
           merge == [tree |-> [Tree(head) EXCEPT ![p] = File(nextV)], side |-> id,
                     anc |-> commits[head].anc \cup side.anc \cup {id + 1},
                     line |-> commits[head].line \cup {id + 1}]
       IN commits' = commits \o <<side, merge>>
  /\ authored' = authored \cup {nextV} /\ nextV' = nextV + 1
  /\ head' = Len(commits')
  /\ UNCHANGED <<base, measured, doc, cashed>>

Consume ==
  /\ measured # 0 /\ cashed = NotCashed
  /\ \E dirty \in BOOLEAN, ref \in {0, base}, h \in Hosts :
       cashed' = [errors |-> ConsumeErrors(head, dirty, ref, h),
                  fresh |-> ~FreshnessNotMeasured(result, h), host |-> h.tree]
  /\ UNCHANGED <<commits, head, base, measured, doc, nextV, authored>>

Observation == measured = 0 /\ (Environment \/ Run) /\ UNCHANGED gitVars

History ==
  /\ TopicCommit \/ Amend \/ BaseCommit \/ MergeBaseIntoTopic \/ SidewaysMerge \/ Consume
  /\ UNCHANGED obsVars

EvNext == Observation \/ Measure \/ History
EvSpec == EvInit /\ [][EvNext]_<<obsVars, gitVars>>

-----------------------------------------------------------------------------
(* Properties *)

TypeOK ==
  /\ pc \in {"idle", "spawn", "wait", "read", "decide", "kill", "finally", "reap", "reapLast",
             "drain", "observe", "judged", "recorded"}
  /\ \A s \in Streams : got[s] + pending[s] <= sent[s] /\ sent[s] <= MaxBytes
  /\ head \in 1..Len(commits) /\ base \in 1..Len(commits)
  /\ measured \in 0..Len(commits) /\ nextV \in 2..(MaxVersion + 1)
  /\ cashed.errors \in BOOLEAN

Accepted == ~cashed.errors

\* A canary is cashed only for the code it measured: every file its probes executed is unchanged
\* since, and no other code file holds anything the topic or a side branch wrote after it, however
\* commits, merges of the base branch and rewrites of history were ordered.
EvidenceIsOfThisCode ==
  Accepted =>
    /\ IsAncestor(measured, head)
    /\ \A p \in Executed : Tree(head)[p] = Tree(measured)[p]
    /\ \A p \in Code : Tree(head)[p].v \notin authored

\* A row that is cashed as verified was really seen: the observation it cites ended as expected,
\* all its output was captured and the pinned bytes ran, and where the freshness of its files is
\* claimed, they are the recorded ones.
CashedVerdictWasSeen ==
  Accepted /\ doc.verdict = "verified" =>
    /\ doc.saw /\ doc.clean
    /\ cashed.fresh => cashed.host = "same"

=============================================================================
