------------------------- MODULE ProcessObservation -------------------------
(***************************************************************************)
(* process_observation.run(): one owned process is started, watched, torn  *)
(* down and judged. The leader may leave helpers in its process group and  *)
(* a descendant that escaped it with setsid; all of them hold the pipes.   *)
(* Files the probe pins may be rewritten by others while it runs.          *)
(*                                                                         *)
(* A byte is a unit of output; what the streams say is abstracted to how   *)
(* many units arrived. A rewritten file never gets its old bytes back.     *)
(***************************************************************************)
EXTENDS Naturals, FiniteSets, FiniteSetsExt, TLC

CONSTANTS
  Cap,        \* capture_limit_bytes, over both streams
  MaxBytes,   \* what a stream may carry in total
  Wanted,     \* stdout units that contain every expected text
  Legacy      \* whether the plan omits producer_repository

ASSUME ObservationAssumption ==
  Cap \in Nat /\ MaxBytes \in Nat /\ Wanted \in Nat /\ Legacy \in BOOLEAN

Streams == {"stdout", "stderr"}
Holders == {"leader", "helper", "escapee"}   \* the helper shares the group, the escapee does not
Group == {"leader", "helper"}

VARIABLES
  proc,      \* holder -> "none", "running", "detached" (escapee), "zombie" (leader) or "gone"
  status,    \* how the leader ended: "none", "expected", "other", "signal"
  sent,      \* stream -> units written so far
  got,       \* stream -> units captured
  pending,   \* stream -> units in the pipe
  open,      \* streams still registered with the selector
  overflow,  \* a block did not fit
  world,     \* [exec, artifact]: are the pinned files still the pinned ones
  ran,       \* the execution files as they were when the child was started
  pc,        \* where run() is
  info,      \* what waitid answered in this iteration
  result     \* the observation under construction

obsVars == <<proc, status, sent, got, pending, open, overflow, world, ran, pc, info, result>>

Writers == {h \in Holders : proc[h] = "running"}
Captured == got["stdout"] + got["stderr"]
EOF(s) == pending[s] = 0 /\ Writers = {}
Idle == [h \in Holders |-> "none"]
Zero == [s \in Streams |-> 0]

NoResult ==
  [executed |-> FALSE, kind |-> "spawn_error", complete |-> FALSE, unchanged |-> FALSE,
   matched |-> FALSE, artifact |-> "none", verifiable |-> FALSE, before |-> FALSE,
   captured |-> 0, outcome |-> "not_measured"]

\* Mutant of ExpectedOutcome: an incomplete capture is judged like a complete one.
ExpectedOutcomeOfPart(r) ==
  IF \/ ~r.executed \/ ~r.unchanged \/ ~r.verifiable
     \/ r.kind \in {"spawn_error", "timeout", "capture_limit", "capture_error"}
  THEN "not_measured"
  ELSE IF r.kind = "expected" /\ r.matched /\ r.artifact = "match" THEN "verified" ELSE "failed"

\* expected_outcome(): recomputed from the plan's expectations, by producer and consumer alike.
ExpectedOutcome(r) ==
  IF \/ ~r.executed \/ ~r.unchanged \/ ~r.complete \/ ~r.verifiable
     \/ r.kind \in {"spawn_error", "timeout", "capture_limit", "capture_error"}
  THEN "not_measured"
  ELSE IF r.kind = "expected" /\ r.matched /\ r.artifact = "match" THEN "verified" ELSE "failed"

-----------------------------------------------------------------------------
(* The process tree and the other users of the machine *)

Write(h, s) ==
  /\ proc[h] = "running" /\ sent[s] < MaxBytes
  /\ sent' = [sent EXCEPT ![s] = @ + 1] /\ pending' = [pending EXCEPT ![s] = @ + 1]
  /\ UNCHANGED <<proc, status, got, open, overflow, world, ran, pc, info, result>>

Fork(h) ==
  /\ proc["leader"] = "running" /\ proc[h] = "none"
  /\ proc' = [proc EXCEPT ![h] = "running"]
  /\ UNCHANGED <<status, sent, got, pending, open, overflow, world, ran, pc, info, result>>

LeaderExits(how) ==
  /\ proc["leader"] = "running"
  /\ proc' = [proc EXCEPT !["leader"] = "zombie"] /\ status' = how
  /\ UNCHANGED <<sent, got, pending, open, overflow, world, ran, pc, info, result>>

OtherExits(h) ==
  /\ h # "leader" /\ proc[h] \in {"running", "detached"}
  /\ proc' = [proc EXCEPT ![h] = "gone"]
  /\ UNCHANGED <<status, sent, got, pending, open, overflow, world, ran, pc, info, result>>

\* A daemon closes the pipes it inherited and lives on.
Detach ==
  /\ proc["escapee"] = "running"
  /\ proc' = [proc EXCEPT !["escapee"] = "detached"]
  /\ UNCHANGED <<status, sent, got, pending, open, overflow, world, ran, pc, info, result>>

WriteArtifact(how) ==
  /\ proc["leader"] = "running" /\ world.artifact = "none"
  /\ world' = [world EXCEPT !.artifact = how]
  /\ UNCHANGED <<proc, status, sent, got, pending, open, overflow, ran, pc, info, result>>

\* A pinned execution file is rewritten behind the probe's back.
Rewrite ==
  /\ world.exec = "pinned" /\ pc \notin {"idle", "judged"}
  /\ world' = [world EXCEPT !.exec = "other"]
  /\ UNCHANGED <<proc, status, sent, got, pending, open, overflow, ran, pc, info, result>>

Environment ==
  \/ \E h \in Holders, s \in Streams : Write(h, s)
  \/ \E h \in {"helper", "escapee"} : Fork(h) \/ OtherExits(h)
  \/ \E how \in {"expected", "other", "signal"} : LeaderExits(how)
  \/ \E how \in {"match", "mismatch"} : WriteArtifact(how)
  \/ Detach \/ Rewrite

-----------------------------------------------------------------------------
(* run() *)

\* absent(): the execution files are digested; a mismatch ends the probe before anything is started.
Digest ==
  /\ pc = "idle"
  /\ result' = [NoResult EXCEPT !.before = (world.exec = "pinned")]
  /\ pc' = IF world.exec = "pinned" THEN "spawn" ELSE "judged"
  /\ UNCHANGED <<proc, status, sent, got, pending, open, overflow, world, ran, info>>

Spawn ==
  /\ pc = "spawn"
  /\ \/ /\ proc' = [proc EXCEPT !["leader"] = "running"]
        /\ open' = Streams /\ ran' = world.exec
        /\ result' = [result EXCEPT !.executed = TRUE] /\ pc' = "wait"
     \/ /\ pc' = "observe" /\ UNCHANGED <<proc, open, ran, result>>
  /\ UNCHANGED <<status, sent, got, pending, overflow, world, info>>

\* waitid(WEXITED | WNOHANG | WNOWAIT): looks, does not reap.
WaitId ==
  /\ pc = "wait"
  /\ info' = (proc["leader"] = "zombie") /\ pc' = "read"
  /\ UNCHANGED <<proc, status, sent, got, pending, open, overflow, world, ran, result>>

\* One selector round: every ready stream gives one block, cut at what is left of the cap;
\* end of file unregisters the stream.
ReadBlock(s) ==
  LET room == Cap - Captured
  IN /\ got' = [got EXCEPT ![s] = @ + Min({pending[s], room})]
     /\ overflow' = (overflow \/ pending[s] > room)
     /\ pending' = [pending EXCEPT ![s] = 0]
     /\ UNCHANGED open

Unregister(s) ==
  EOF(s) /\ open' = open \ {s} /\ UNCHANGED <<got, overflow, pending>>

Read ==
  /\ pc = "read"
  /\ \/ /\ \E s \in open : (pending[s] > 0 /\ ReadBlock(s)) \/ Unregister(s)
        /\ UNCHANGED pc
     \/ /\ pc' = "decide" /\ UNCHANGED <<got, overflow, pending, open>>
  /\ UNCHANGED <<proc, status, sent, world, ran, info, result>>

\* Overflow before exit, exit before timeout.
Decide ==
  /\ pc = "decide"
  /\ \/ /\ overflow /\ result' = [result EXCEPT !.kind = "capture_limit"] /\ pc' = "kill"
     \/ /\ ~overflow /\ info
        /\ result' = [result EXCEPT !.kind = status] /\ pc' = "kill"
     \/ /\ ~overflow /\ ~info
        /\ result' = [result EXCEPT !.kind = "timeout"] /\ pc' = "kill"
     \/ /\ ~overflow /\ ~info /\ pc' = "wait" /\ UNCHANGED result
  /\ UNCHANGED <<proc, status, sent, got, pending, open, overflow, world, ran, info>>

\* The selector or a read fails: the handler records the failure and the finally block kills.
CaptureError ==
  /\ pc \in {"read", "drain"}
  /\ result' = [result EXCEPT !.kind = "capture_error"]
  /\ pc' = IF pc = "read" THEN "finally" ELSE "observe"
  /\ UNCHANGED <<proc, status, sent, got, pending, open, overflow, world, ran, info>>

\* killpg(SIGTERM), killpg(SIGKILL): the leader is a zombie or dies now; the group with it.
Killed == [h \in Holders |->
             IF h = "leader" THEN (IF proc[h] = "running" THEN "zombie" ELSE proc[h])
             ELSE IF h \in Group /\ proc[h] = "running" THEN "gone" ELSE proc[h]]

KillGroup ==
  /\ pc \in {"kill", "finally"}
  /\ proc' = Killed
  /\ status' = IF status = "none" THEN "signal" ELSE status
  /\ pc' = IF pc = "kill" THEN "reap" ELSE "reapLast"
  /\ UNCHANGED <<sent, got, pending, open, overflow, world, ran, info, result>>

Reap ==
  /\ pc \in {"reap", "reapLast"} /\ proc["leader"] = "zombie"
  /\ proc' = [proc EXCEPT !["leader"] = "gone"]
  /\ pc' = IF pc = "reap" THEN "drain" ELSE "observe"
  /\ UNCHANGED <<status, sent, got, pending, open, overflow, world, ran, info, result>>

\* Up to the drain deadline: read what is left; a descendant outside the group may keep a pipe open.
Drain ==
  /\ pc = "drain"
  /\ \/ /\ \E s \in open :
             \/ /\ pending[s] > 0 /\ ReadBlock(s)
                /\ result' = IF pending[s] > Cap - Captured
                             THEN [result EXCEPT !.kind = "capture_limit"] ELSE result
             \/ Unregister(s) /\ UNCHANGED result
        /\ UNCHANGED pc
     \/ /\ result' = [result EXCEPT !.complete = (open = {} /\ result.kind # "capture_limit")]
        /\ pc' = "observe" /\ UNCHANGED <<got, overflow, pending, open>>
  /\ UNCHANGED <<proc, status, sent, world, ran, info>>

\* After the run: artifacts, the execution files once more, the assertions, the outcome.
Observe ==
  /\ pc = "observe"
  /\ LET seen == [result EXCEPT !.artifact = world.artifact,
                                !.verifiable = (world.artifact # "none"),
                                !.unchanged = (result.before /\ world.exec = "pinned"),
                                !.matched = (got["stdout"] >= Wanted),
                                !.captured = Captured]
     IN result' = [seen EXCEPT !.outcome = ExpectedOutcome(seen)]
  /\ pc' = "judged"
  /\ UNCHANGED <<proc, status, sent, got, pending, open, overflow, world, ran, info>>

Run ==
  \/ Digest \/ Spawn \/ WaitId \/ Read \/ Decide \/ CaptureError
  \/ KillGroup \/ Reap \/ Drain \/ Observe

ObsInit ==
  /\ proc = Idle /\ status = "none"
  /\ sent = Zero /\ got = Zero /\ pending = Zero /\ open = {} /\ overflow = FALSE
  /\ world \in [exec : {"pinned", "other"}, artifact : {"none", "match"}]
  /\ ran = "none" /\ pc = "idle" /\ info = FALSE /\ result = NoResult

-----------------------------------------------------------------------------
(* The consumer's side: a host has some of the producer's files, and its own toolchain *)

Hosts ==
  {h \in [root : BOOLEAN, tree : {"same", "changed", "partial", "absent"}, tool : {"same", "changed", "absent"}] :
     h.tree # "absent" => h.root}

\* result_errors(): what the fields of one observation must agree on.
ResultErrors(r) == (r.kind = "spawn_error") # ~r.executed

\* A plan that names its root asks whether that directory is here; a legacy plan whether any
\* pinned file outside the shared toolchain directories is (_shared_toolchain_path).
TreePresent(h) == IF Legacy THEN h.tree # "absent" ELSE h.root
RemoteOrigin(h) == ~Legacy /\ ~h.root

\* The outcome, the truncation flags and the capture limit are derived again.
RederivationErrors(r) ==
  \/ r.outcome # ExpectedOutcome(r)
  \/ r.captured > Cap
  \/ r.kind = "capture_limit" /\ (r.complete \/ r.captured # Cap)

\* The pinned files are read again where they can be: a changed member is refused, a missing one
\* only where the producer's tree is here (host_cannot_reach forgives it elsewhere).
FreshnessErrors(r, h) ==
  /\ ~RemoteOrigin(h)
  /\ \/ h.tree = "changed"
     \/ h.tree \in {"partial", "absent"} /\ TreePresent(h) /\ r.outcome # "not_measured"
     \/ r.executed /\ h.tool = "changed"
     \/ r.executed /\ h.tool = "absent" /\ TreePresent(h)

BoundErrors(r, h) == RederivationErrors(r) \/ FreshnessErrors(r, h)

\* execution_freshness_not_measured is not empty.
FreshnessNotMeasured(r, h) ==
  \/ RemoteOrigin(h) \/ (h.tree = "absent" /\ ~TreePresent(h))
  \/ (r.executed /\ h.tool = "absent" /\ ~TreePresent(h))

-----------------------------------------------------------------------------
(* Properties *)

\* A verified outcome means what the plan asked for was really seen: the leader ended by itself
\* in the expected way, everything any holder of the pipes ever wrote was captured, nobody who
\* could still write is left, and the bytes that ran were the pinned ones, before and after.
VerifiedSawEverything ==
  pc = "judged" /\ result.outcome = "verified" =>
    /\ status = "expected" /\ ran = "pinned" /\ world.exec = "pinned"
    /\ Writers = {} /\ got = sent /\ Captured <= Cap

=============================================================================
