------------------------- MODULE BillingTransaction -------------------------
(* deploy/billing-transaction.py: one release of the Billing service replaced *)
(* by another under a write-ahead journal (active.json).  Every native docker *)
(* operation is journalled as `pending' before it is invoked and completed    *)
(* afterwards; a runner may be killed, a journal write may fail before or     *)
(* after the rename, and a docker call the runner stopped waiting for may     *)
(* still take effect in the daemon, at any later time or never.               *)
EXTENDS Integers, Sequences, FiniteSets

CONSTANTS
  Releases,   \* revisions; an image is named by the revision it is labelled with
  None,       \* no journal, no image tag, no running container
  MaxTxn,     \* how many transactions are started
  MaxFaults   \* how many kills, failed writes, refusals and timeouts occur

ASSUME ReleasesAssumption == None \notin Releases
ASSUME BoundsAssumption == MaxTxn \in Nat /\ MaxFaults \in Nat

VARIABLES
  disk,       \* active.json, or None
  mem,        \* self.state of the runner that holds the lock
  pc,         \* the step the runner is at; "idle" when nobody holds the lock
  calling,    \* the runner is waiting for a native call
  current,    \* the installed checkout
  backup,     \* the checkout in each transaction's own directory
  latest,     \* the image the tag `latest' names
  container,  \* the image the service's container runs
  late,       \* native calls abandoned by a runner that may still take effect
  faults      \* faults so far

vars == <<disk, mem, pc, calling, current, backup, latest, container, late, faults>>
host == <<current, backup, latest, container, late>>

Settled(j) == j.native # "pending" /\ j.phase \in {"committed", "rolled-back"}

Unsettled == disk # None /\ ~Settled(disk)

DeploySteps == <<"build-intent", "tag-previous", "build", "image", "verify-image",
                 "exchange-intent", "swap", "up-intent", "up", "health",
                 "tag-release", "committed">>
RollbackSteps == <<"recovery-intent", "swap-back", "restore-image", "restore-up",
                   "restore-health", "rolled-back">>
\* Steps that only persist a phase, and steps that exchange the checkouts.
Phases == {"build-intent", "exchange-intent", "up-intent", "committed",
           "recovery-intent", "rolled-back"}
Swaps == {"swap", "swap-back"}
Operations == {"tag-previous", "build", "image", "verify-image", "up", "health",
               "tag-release", "restore-image", "restore-up", "restore-health"}
Steps == Phases \cup Swaps \cup Operations

InRollback == \E i \in DOMAIN RollbackSteps : RollbackSteps[i] = pc

\* Mutant of After: a rollback never restarts the container.
AfterWithoutRestart(s, j) ==
  IF s \in {"restore-image", "committed"} THEN (IF s = "committed" THEN "idle" ELSE "rolled-back")
  ELSE IF s = "rolled-back" THEN "idle"
  ELSE LET path == IF InRollback THEN RollbackSteps ELSE DeploySteps
           i == CHOOSE i \in DOMAIN path : path[i] = s
       IN path[i + 1]

\* The step after s.  A rollback leaves the container alone when the forward
\* path never meant to touch it.
After(s, j) ==
  IF s = "restore-image" /\ ~j.up THEN "rolled-back"
  ELSE IF s \in {"committed", "rolled-back"} THEN "idle"
  ELSE LET path == IF InRollback THEN RollbackSteps ELSE DeploySteps
           i == CHOOSE i \in DOMAIN path : path[i] = s
       IN path[i + 1]

\* Mutant of Recoverable: an operation whose outcome is unproved is rolled back over.
RecoverableDespitePending(j) ==
  j.phase \in {"committed", "rolled-back"} \/ j.native # "none"

\* May rollback() run?  Not over an operation whose outcome is unproved.
Recoverable(j) ==
  /\ j.native # "pending"
  /\ j.phase \in {"committed", "rolled-back"} \/ j.native # "none"

-----------------------------------------------------------------------------
(* Failures.                                                                 *)

Fault == faults < MaxFaults /\ faults' = faults + 1

Release == pc' = "idle" /\ mem' = None /\ calling' = FALSE

\* How deploy() and recover() end on a Refusal or an OSError with the state j
\* in memory: the forward path rolls back if it may, everything else stops and
\* retains the journal.  The write of the first journal is not guarded.
Fail(j) ==
  IF ~InRollback /\ pc # "build-intent" /\ Recoverable(j)
    THEN pc' = "recovery-intent" /\ mem' = j /\ calling' = FALSE
    ELSE Release

\* atomic_state(): the file is replaced or not, and the call returns or raises.
WriteOk(j) == disk' = j /\ UNCHANGED faults
WriteFails(j) == disk' \in {disk, j} /\ Fault

-----------------------------------------------------------------------------
(* Starting a runner.  Only the holder of the lock acts; a second process is *)
(* refused by flock and changes nothing.                                     *)

\* What check() and deploy() demand of the host before anything is written.
Baseline(r) ==
  /\ ~Unsettled
  /\ current.sha # r
  /\ container = current.sha
  /\ latest \in {None, container}

\* deploy(): the revision is staged in a directory of its own.
Deploy(r) ==
  /\ pc = "idle" /\ Len(backup) < MaxTxn /\ Baseline(r)
  /\ LET id == Len(backup) + 1 IN
       /\ backup' = Append(backup, [sha |-> r, inode |-> id])
       /\ mem' = [id |-> id, old |-> current.sha, new |-> r,
                  oldInode |-> current.inode, newInode |-> id,
                  up |-> FALSE, phase |-> "build-intent", native |-> "none"]
  /\ pc' = "build-intent"
  /\ UNCHANGED <<disk, calling, current, latest, container, late, faults>>

\* Mutant of Recover: an interrupted recovery is not taken up again.
RecoverOnce(id) ==
  /\ pc = "idle" /\ disk # None
  /\ disk.id = id /\ disk.phase \notin {"rolled-back", "recovery-intent"} /\ Recoverable(disk)
  /\ mem' = disk /\ pc' = "recovery-intent"
  /\ UNCHANGED <<disk, calling, host, faults>>

\* recover(ident): the journal on disk is rolled back, if it may be.
Recover(id) ==
  /\ pc = "idle" /\ disk # None
  /\ disk.id = id /\ disk.phase # "rolled-back" /\ Recoverable(disk)
  /\ mem' = disk /\ pc' = "recovery-intent"
  /\ UNCHANGED <<disk, calling, host, faults>>

-----------------------------------------------------------------------------
(* Steps of the runner.                                                      *)

\* persist(phase).  up_intent is set with the phase that announces it and
\* taken back in memory when that write fails.
Announced(j, phase) == [j EXCEPT !.phase = phase, !.up = @ \/ phase = "up-intent"]

PersistOk ==
  /\ pc \in Phases
  /\ LET j == Announced(mem, pc) IN
       /\ WriteOk(j)
       /\ mem' = IF After(pc, j) = "idle" THEN None ELSE j
       /\ pc' = After(pc, j)
  /\ UNCHANGED <<calling, host>>

PersistFails ==
  /\ pc \in Phases
  /\ WriteFails(Announced(mem, pc))
  /\ Fail([mem EXCEPT !.phase = pc])
  /\ UNCHANGED host

\* operation(): pending is made durable before the call is invoked.
BeginOk ==
  /\ pc \in Operations /\ ~calling
  /\ mem' = [mem EXCEPT !.native = "pending"]
  /\ WriteOk(mem')
  /\ calling' = TRUE
  /\ UNCHANGED <<pc, host>>

BeginFails ==
  /\ pc \in Operations /\ ~calling
  /\ WriteFails([mem EXCEPT !.native = "pending"])
  /\ Fail([mem EXCEPT !.native = "pending"])
  /\ UNCHANGED host

\* Native: what each operation does to the host.  `compose up' runs whatever
\* image `latest' names at that moment.
Effect(op, j) ==
  /\ latest' = IF op = "build" THEN j.new ELSE IF op = "restore-image" THEN j.old ELSE latest
  /\ container' = IF op \in {"up", "restore-up"} THEN latest ELSE container

\* Native: what an operation that only looks must see to return.
Sees(op, j) ==
  /\ op = "verify-image" => latest = j.new
  /\ op = "health" => container = j.new
  /\ op = "restore-health" => container = j.old

\* complete_operation(c) succeeds; the memory copy changes only with the disk.
CompleteOk(c) == WriteOk([mem EXCEPT !.native = c])

CallReturns ==
  /\ calling /\ Sees(pc, mem) /\ Effect(pc, mem)
  /\ CompleteOk("returned")
  /\ mem' = [mem EXCEPT !.native = "returned"]
  /\ calling' = FALSE /\ pc' = After(pc, mem)
  /\ UNCHANGED <<current, backup, late>>

\* A refused call did its work, did none of it, or took the container down.
Partial ==
  \/ Effect(pc, mem)
  \/ UNCHANGED <<latest, container>>
  \/ pc \in {"up", "restore-up"} /\ container' = None /\ UNCHANGED latest

CallRefused ==
  /\ calling /\ Partial /\ Fault
  /\ disk' = [mem EXCEPT !.native = "refused"]
  /\ Fail([mem EXCEPT !.native = "refused"])
  /\ UNCHANGED <<current, backup, late>>

\* The call came back and its completion could not be made durable.
CompletionLost ==
  /\ calling
  /\ \E c \in {"returned", "refused"} :
       /\ IF c = "returned" THEN Sees(pc, mem) /\ Effect(pc, mem) ELSE Partial
       /\ WriteFails([mem EXCEPT !.native = c])
  /\ Release
  /\ UNCHANGED <<current, backup, late>>

\* NativeOutcomeUnknown: the runner stops waiting and keeps the journal.
CallTimesOut ==
  /\ calling /\ Fault
  /\ late' = late \cup {[op |-> pc, txn |-> mem]}
  /\ Release
  /\ UNCHANGED <<disk, current, backup, latest, container>>

\* Mutant of Exchange: the staged checkout replaces the installed one.
ExchangeByRename == current' = backup[mem.id] /\ UNCHANGED backup

\* exchange(): renameat2 swaps the two checkouts, which rollback() does only
\* when the journal's inodes say that they are swapped.
Exchange ==
  /\ current' = backup[mem.id]
  /\ backup' = [backup EXCEPT ![mem.id] = current]

Pair == <<current.inode, backup[mem.id].inode>>

SwapOk ==
  /\ pc \in Swaps
  /\ IF pc = "swap" \/ Pair = <<mem.newInode, mem.oldInode>>
       THEN Exchange
       ELSE Pair = <<mem.oldInode, mem.newInode>> /\ UNCHANGED <<current, backup>>
  /\ pc' = After(pc, mem)
  /\ UNCHANGED <<disk, mem, calling, latest, container, late, faults>>

\* The exchange is refused, or done and its directory sync fails, or custody of
\* the checkouts has changed.
SwapFails ==
  /\ pc \in Swaps /\ Fault
  /\ \/ UNCHANGED <<current, backup>>
     \/ Exchange /\ (pc = "swap" \/ Pair = <<mem.newInode, mem.oldInode>>)
  /\ Fail(mem)
  /\ UNCHANGED <<disk, latest, container, late>>

\* The runner is killed: its lock goes with it, a call in flight does not.
Crash ==
  /\ pc # "idle" /\ Fault /\ Release
  /\ late' = IF calling THEN late \cup {[op |-> pc, txn |-> mem]} ELSE late
  /\ UNCHANGED <<disk, current, backup, latest, container>>

\* The daemon carries out a call nobody waits for any more.
LateEffect ==
  /\ \E e \in late : Effect(e.op, e.txn) /\ late' = late \ {e}
  /\ UNCHANGED <<disk, mem, pc, calling, current, backup, faults>>

-----------------------------------------------------------------------------
Init ==
  /\ disk = None /\ mem = None /\ pc = "idle" /\ calling = FALSE
  /\ \E r \in Releases :
       /\ current = [sha |-> r, inode |-> 0]
       /\ container = r /\ latest \in {r, None}
  /\ backup = <<>> /\ late = {} /\ faults = 0

Run == PersistOk \/ BeginOk \/ CallReturns \/ SwapOk
Faulty == PersistFails \/ BeginFails \/ CallRefused \/ CompletionLost
          \/ CallTimesOut \/ SwapFails \/ Crash

\* The operator asks for the recovery of a journal left unsettled.
RecoverUnsettled == Unsettled /\ Recover(disk.id)

Next ==
  \/ \E r \in Releases : Deploy(r)
  \/ \E id \in 1..MaxTxn : Recover(id)
  \/ Run \/ Faulty \/ LateEffect

\* A live runner takes its steps, and an operator who finds an unsettled
\* journal asks for its recovery.
Spec == Init /\ [][Next]_vars /\ WF_vars(Run \/ Faulty) /\ WF_vars(RecoverUnsettled)

-----------------------------------------------------------------------------
(* Properties.                                                               *)

Journal ==
  [id : 1..MaxTxn, old : Releases, new : Releases, oldInode : 0..MaxTxn,
   newInode : 0..MaxTxn, up : BOOLEAN, phase : Phases,
   native : {"none", "pending", "returned", "refused"}]
Checkout == [sha : Releases, inode : 0..MaxTxn]

ASSUME NoneAssumption == None \notin Journal

\* Types of the journal, the runner and the host.
TypeOK ==
  /\ disk \in Journal \cup {None} /\ mem \in Journal \cup {None}
  /\ pc \in Steps \cup {"idle"} /\ (pc = "idle" <=> mem = None)
  /\ calling \in BOOLEAN /\ (calling => pc \in Operations)
  /\ current \in Checkout
  /\ backup \in Seq(Checkout) /\ Len(backup) <= MaxTxn
  /\ latest \in Releases \cup {None} /\ container \in Releases \cup {None}
  /\ late \subseteq [op : Operations, txn : Journal]
  /\ faults \in 0..MaxFaults

\* A settled journal tells the truth: after `committed' the host runs the new
\* release everywhere, after `rolled-back' the old one, whatever was killed,
\* refused or lost on the way (rollback(), deploy()).
SettledIsUniform ==
  disk # None /\ Settled(disk) =>
    LET r == IF disk.phase = "committed" THEN disk.new ELSE disk.old
    IN current.sha = r /\ latest = r /\ container = r

\* No docker operation is invoked while an abandoned one may still take effect:
\* the pending mark outlives the process that wrote it (operation(), rollback()).
Quiescence == calling => late = {}

\* The exchange loses neither checkout: the two of the open transaction are
\* exactly the pair its journal names, in one of the two orders.
Custody ==
  disk # None =>
    {current.inode, backup[disk.id].inode} = {disk.oldInode, disk.newInode}

\* What an observer of the host sees: a transaction is open while its journal
\* is unsettled.
Abstract == INSTANCE AtomicRelease
  WITH open <- Unsettled, checkout <- current.sha

\* deploy() and recover(), with every kill and failed write, implement an atomic
\* release: host and journal change as AtomicRelease allows and in no other way.
ImplementsAtomicRelease == Abstract!Spec

\* A journal left unsettled but recoverable is settled in the end, or comes to
\* rest on an operation whose outcome is unproved, once faults stop.
RecoveryEnds ==
  Unsettled
    ~> (disk # None /\ (Settled(disk) \/ (pc = "idle" /\ ~Recoverable(disk))))
=============================================================================
