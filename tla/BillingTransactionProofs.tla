---------------------- MODULE BillingTransactionProofs ----------------------
(* The deployment transaction for any number of releases, transactions and    *)
(* faults: a settled journal is true of the host, calls do not overlap, the   *)
(* checkouts are kept, and the whole implements AtomicRelease.  The argument: *)
(* the runner knows at each step what it has achieved (RunInv), the journal   *)
(* it would leave behind says no more than that (DiskInv, Progress), and a    *)
(* call that outlives its runner keeps everybody out by its mark (Marked).    *)
EXTENDS BillingTransaction, TLAPS

\* The steps of the forward path before and after the exchange, and those of rollback().
Early == {"build-intent", "tag-previous", "build", "image", "verify-image", "exchange-intent", "swap"}
Forward == {"up-intent", "up", "health", "tag-release", "committed"}
Backward == {"recovery-intent", "swap-back", "restore-image", "restore-up", "restore-health", "rolled-back"}

Final == {"committed", "rolled-back"}

\* Two journals of one transaction.
SameTxn(i, j) ==
  /\ i.id = j.id /\ i.old = j.old /\ i.new = j.new
  /\ i.oldInode = j.oldInode /\ i.newInode = j.newInode

\* The two checkouts of a transaction, before and after the exchange.
Home(j) ==
  /\ j.id \in 1..Len(backup)
  /\ current.sha = j.old /\ current.inode = j.oldInode
  /\ backup[j.id].sha = j.new /\ backup[j.id].inode = j.newInode
Away(j) ==
  /\ j.id \in 1..Len(backup)
  /\ current.sha = j.new /\ current.inode = j.newInode
  /\ backup[j.id].sha = j.old /\ backup[j.id].inode = j.oldInode
Paired(j) == j.oldInode # j.newInode /\ (Home(j) \/ Away(j))

\* An inode is new when a checkout is staged.
Fresh ==
  /\ current.inode <= Len(backup)
  /\ \A i \in 1..Len(backup) : backup[i].inode <= Len(backup)

\* A pending mark is on disk while a call may take effect, waited for or not.
Marked ==
  /\ calling => disk = mem /\ mem.native = "pending"
  /\ late # {} => pc = "idle" /\ disk # None /\ disk.native = "pending"

\* What the journal on disk says of the host, for whoever reads it next.
DiskInv ==
  disk # None =>
    /\ Paired(disk)
    /\ disk.native # "pending" /\ ~disk.up => container = disk.old

\* The journal in memory is that of the transaction on disk, and neither claims an
\* end before the runner is there.
Progress ==
  /\ pc \notin {"idle", "build-intent"} => disk # None /\ SameTxn(disk, mem)
  /\ pc \notin {"idle", "build-intent", "recovery-intent"} => disk.phase \notin Final
  /\ pc \notin {"idle", "recovery-intent"} => mem.phase \notin Final

\* What the runner has achieved when it is about to take its next step.
RunInv ==
  pc # "idle" =>
    /\ Paired(mem)
    /\ ~mem.up => container = mem.old
    /\ pc \in Early => Home(mem) /\ ~mem.up
    /\ pc \in Forward => Away(mem)
    /\ pc \in Early \cup Forward /\ pc \notin {"build-intent", "tag-previous", "build"} => latest = mem.new
    /\ pc \in {"up", "health", "tag-release", "committed", "restore-up", "restore-health"} => mem.up
    /\ pc \in {"health", "tag-release", "committed"} => container = mem.new
    /\ pc \in {"restore-image", "restore-up", "restore-health", "rolled-back"} => Home(mem)
    /\ pc \in {"restore-up", "restore-health", "rolled-back"} => latest = mem.old
    /\ pc \in {"restore-health", "rolled-back"} => container = mem.old

\* The inductive invariant.
IInv == TypeOK /\ Fresh /\ Marked /\ SettledIsUniform /\ DiskInv /\ Progress /\ RunInv

\* The steps of rollback(), as a set.
LEMMA BackwardSteps == InRollback <=> pc \in Backward
BY SMT DEF InRollback, RollbackSteps, Backward

\* The order of the forward path.
LEMMA AfterForward ==
  ASSUME NEW j, ~InRollback
  PROVE  /\ After("build-intent", j) = "tag-previous"
         /\ After("tag-previous", j) = "build"
         /\ After("build", j) = "image"
         /\ After("image", j) = "verify-image"
         /\ After("verify-image", j) = "exchange-intent"
         /\ After("exchange-intent", j) = "swap"
         /\ After("swap", j) = "up-intent"
         /\ After("up-intent", j) = "up"
         /\ After("up", j) = "health"
         /\ After("health", j) = "tag-release"
         /\ After("tag-release", j) = "committed"
         /\ After("committed", j) = "idle"
BY SMT DEF After, DeploySteps

\* The order of rollback().
LEMMA AfterBackward ==
  ASSUME NEW j, InRollback
  PROVE  /\ After("recovery-intent", j) = "swap-back"
         /\ After("swap-back", j) = "restore-image"
         /\ After("restore-image", j) = IF j.up THEN "restore-up" ELSE "rolled-back"
         /\ After("restore-up", j) = "restore-health"
         /\ After("restore-health", j) = "rolled-back"
         /\ After("rolled-back", j) = "idle"
BY SMT DEF After, RollbackSteps

\* persist(phase) keeps everything but the phase and up_intent.
LEMMA AnnouncedType ==
  ASSUME NEW j \in Journal, NEW p \in Phases
  PROVE  /\ Announced(j, p) \in Journal
         /\ Announced(j, p).id = j.id
         /\ Announced(j, p).old = j.old
         /\ Announced(j, p).new = j.new
         /\ Announced(j, p).oldInode = j.oldInode
         /\ Announced(j, p).newInode = j.newInode
         /\ Announced(j, p).native = j.native
         /\ Announced(j, p).phase = p
         /\ Announced(j, p).up = (j.up \/ p = "up-intent")
<1> DEFINE k == [j EXCEPT !.phase = p]
           b == j.up \/ p = "up-intent"
<1>1. b \in BOOLEAN
  OBVIOUS
<1>2. /\ k \in Journal /\ k.phase = p
      /\ k.id = j.id /\ k.old = j.old /\ k.new = j.new /\ k.oldInode = j.oldInode
      /\ k.newInode = j.newInode /\ k.native = j.native /\ k.up = j.up
  BY SMT DEF Journal
<1>3. Announced(j, p) = [k EXCEPT !.up = b]
  BY <1>2, Zenon DEF Announced, Journal
<1> HIDE DEF k, b
<1>4. ASSUME NEW x, x = [k EXCEPT !.up = b]
      PROVE  /\ x \in Journal /\ x.up = b /\ x.phase = k.phase
             /\ x.id = k.id /\ x.old = k.old /\ x.new = k.new /\ x.oldInode = k.oldInode
             /\ x.newInode = k.newInode /\ x.native = k.native
  BY <1>1, <1>2, <1>4, SMT DEF Journal
<1> QED BY <1>2, <1>3, <1>4 DEF b

Natives == {"none", "pending", "returned", "refused"}

\* The fields of a journal.
LEMMA JournalFields ==
  ASSUME NEW j \in Journal
  PROVE  /\ j.id \in 1..MaxTxn /\ j.old \in Releases /\ j.new \in Releases
         /\ j.oldInode \in 0..MaxTxn /\ j.newInode \in 0..MaxTxn
         /\ j.up \in BOOLEAN /\ j.phase \in Phases /\ j.native \in Natives
BY SMT DEF Journal, Natives

\* Marking the native action keeps everything else.
LEMMA NativeType ==
  ASSUME NEW j \in Journal, NEW c \in Natives, NEW x, x = [j EXCEPT !.native = c]
  PROVE  /\ x \in Journal /\ SameTxn(x, j) /\ x.native = c
         /\ x.phase = j.phase /\ x.up = j.up
BY SMT DEF Journal, Natives, SameTxn

\* So does changing the phase.
LEMMA PhaseType ==
  ASSUME NEW j \in Journal, NEW p \in Phases, NEW x, x = [j EXCEPT !.phase = p]
  PROVE  /\ x \in Journal /\ SameTxn(x, j) /\ x.native = j.native
         /\ x.phase = p /\ x.up = j.up
BY SMT DEF Journal, SameTxn

\* The two ways a step can fail.
LEMMA FailCases ==
  ASSUME NEW j, Fail(j)
  PROVE  /\ calling' = FALSE
         /\ \/ /\ pc \notin Backward /\ pc # "build-intent" /\ Recoverable(j)
               /\ pc' = "recovery-intent" /\ mem' = j
            \/ pc' = "idle" /\ mem' = None
BY BackwardSteps DEF Fail, Release

\* A runner that has stopped claims nothing.
LEMMA StoppedInv == pc = "idle" => Progress /\ RunInv
BY DEF Progress, RunInv

\* One about to recover claims only what it read.
LEMMA RecoveringInv ==
  ASSUME pc = "recovery-intent", disk # None, SameTxn(disk, mem), Paired(mem),
         ~mem.up => container = mem.old
  PROVE  Progress /\ RunInv
BY DEF Progress, RunInv, Early, Forward

\* It holds of a host that runs one release and has no journal.
LEMMA InitIInv == Init => IInv
<1> SUFFICES ASSUME Init PROVE IInv
  OBVIOUS
<1>1. TypeOK
  <2> PICK r \in Releases : current = [sha |-> r, inode |-> 0] /\ container = r /\ latest \in {r, None}
    BY DEF Init
  <2>1. current \in Checkout
    BY BoundsAssumption, SMT DEF Checkout
  <2>2. backup \in Seq(Checkout) /\ Len(backup) <= MaxTxn
    BY BoundsAssumption, SMT DEF Init
  <2>3. faults \in 0..MaxFaults
    BY BoundsAssumption, SMT DEF Init
  <2> QED BY <2>1, <2>2, <2>3, Zenon DEF Init, TypeOK
<1>2. Fresh
  BY SMT DEF Init, Fresh
<1> QED BY <1>1, <1>2 DEF Init, IInv, Marked, SettledIsUniform, DiskInv, Progress, RunInv

\* deploy() starts on a settled journal, so no call is left over; the staged checkout has an inode of its own.
LEMMA DeployKeeps ==
  ASSUME IInv, NEW r \in Releases, Deploy(r) PROVE IInv'
<1> USE BoundsAssumption, NoneAssumption
<1> DEFINE id == Len(backup) + 1
           co == [sha |-> r, inode |-> id]
           j == [id |-> id, old |-> current.sha, new |-> r, oldInode |-> current.inode,
                 newInode |-> id, up |-> FALSE, phase |-> "build-intent", native |-> "none"]
<1>0. /\ pc = "idle" /\ pc' = "build-intent" /\ mem' = j /\ backup' = Append(backup, co)
      /\ container = current.sha /\ ~Unsettled
      /\ Len(backup) < MaxTxn /\ Len(backup) \in Nat /\ id \in 1..MaxTxn
      /\ UNCHANGED <<disk, calling, current, latest, container, late, faults>>
  BY SMT DEF Deploy, Baseline, IInv, TypeOK
<1>1. j \in Journal /\ co \in Checkout
  BY <1>0, SMT DEF Journal, Checkout, Phases, IInv, TypeOK
<1>2. /\ Len(backup') = id
      /\ backup' \in Seq(Checkout)
      /\ backup'[id] = co
      /\ \A i \in 1..Len(backup) : backup'[i] = backup[i]
  BY <1>0, <1>1, SMT DEF IInv, TypeOK
<1>3. late = {} /\ ~calling
  BY <1>0, SMT DEF IInv, TypeOK, Marked, Unsettled, Settled, Operations
<1>4. TypeOK'
  <2>1. mem' \in Journal /\ mem' # None
    BY <1>0, <1>1, Zenon
  <2>2. pc' \in Steps /\ pc' # "idle"
    BY <1>0, Zenon DEF Steps, Phases
  <2>3. backup' \in Seq(Checkout) /\ Len(backup') <= MaxTxn
    BY <1>0, <1>2, SMT
  <2> QED BY <1>0, <1>3, <2>1, <2>2, <2>3 DEF IInv, TypeOK
<1>5. Fresh'
  <2>1. current.inode \in Nat /\ current.inode <= Len(backup)
    BY SMT DEF IInv, Fresh, TypeOK, Checkout
  <2>2. \A i \in 1..Len(backup) : backup[i].inode \in Nat /\ backup[i].inode <= Len(backup)
    <3>1. \A i \in 1..Len(backup) : backup[i] \in Checkout
      BY SMT DEF IInv, TypeOK
    <3> QED BY <3>1, SMT DEF IInv, Fresh, Checkout
  <2>3. \A i \in 1..id : backup'[i].inode <= id
    BY <1>0, <1>2, <2>2, SMT
  <2> QED BY <1>0, <1>2, <2>1, <2>3, SMT DEF Fresh
<1>6. DiskInv'
  BY <1>0, <1>2, SMT DEF IInv, DiskInv, Paired, Home, Away, TypeOK
<1>7. Home(mem)' /\ Paired(mem)' /\ ~mem'.up /\ mem'.phase = "build-intent" /\ container' = mem'.old
  BY <1>0, <1>2, SMT DEF Paired, Home, IInv, Fresh, TypeOK, Checkout
<1>8. Progress' /\ RunInv'
  BY <1>0, <1>7 DEF Progress, RunInv, Early, Forward, Final
<1> QED BY <1>0, <1>3, <1>4, <1>5, <1>6, <1>8 DEF IInv, Marked, SettledIsUniform

\* recover() starts from what the journal says of the host.
LEMMA RecoverKeeps ==
  ASSUME IInv, NEW id, Recover(id) PROVE IInv'
<1> USE NoneAssumption
<1>1. /\ pc = "idle" /\ pc' = "recovery-intent" /\ mem' = disk /\ disk # None
      /\ disk.native # "pending"
      /\ UNCHANGED <<disk, calling, current, backup, latest, container, late, faults>>
  BY DEF Recover, Recoverable, host
<1>2. late = {} /\ ~calling
  BY <1>1 DEF IInv, TypeOK, Marked, Operations
<1>3. TypeOK'
  BY <1>1, <1>2, SMT DEF IInv, TypeOK, Steps, Phases
<1>4. DiskInv' /\ Fresh' /\ SettledIsUniform' /\ Marked'
  BY <1>1, <1>2 DEF IInv, DiskInv, Fresh, SettledIsUniform, Paired, Home, Away, Marked
<1>5. Progress' /\ RunInv'
  BY <1>1 DEF IInv, DiskInv, Progress, RunInv, Paired, Home, Away, SameTxn, Early, Forward
<1> QED BY <1>3, <1>4, <1>5 DEF IInv

\* persist(): the end is written only where the host is at that end.
LEMMA PersistOkKeeps ==
  ASSUME IInv, PersistOk PROVE IInv'
<1> USE NoneAssumption
<1> DEFINE j == Announced(mem, pc)
<1>1. /\ pc \in Phases /\ pc # "idle" /\ mem \in Journal /\ ~calling /\ late = {}
  BY SMT DEF PersistOk, Phases, IInv, TypeOK, Marked, Operations
<1>2. /\ j \in Journal /\ SameTxn(j, mem) /\ j.phase = pc /\ j.native = mem.native
      /\ j.up = (mem.up \/ pc = "up-intent") /\ j # None
  BY <1>1, AnnouncedType DEF SameTxn
<1> HIDE DEF j
<1>3. /\ disk' = j /\ mem' = (IF After(pc, j) = "idle" THEN None ELSE j) /\ pc' = After(pc, j)
      /\ UNCHANGED <<calling, current, backup, latest, container, late, faults>>
  BY DEF PersistOk, WriteOk, host, j
<1>4. /\ pc = "build-intent" => pc' = "tag-previous"
      /\ pc = "exchange-intent" => pc' = "swap"
      /\ pc = "up-intent" => pc' = "up"
      /\ pc = "committed" => pc' = "idle"
      /\ pc = "recovery-intent" => pc' = "swap-back"
      /\ pc = "rolled-back" => pc' = "idle"
  BY <1>3, BackwardSteps, AfterForward, AfterBackward DEF Backward
<1>5. TypeOK'
  BY <1>1, <1>2, <1>3, <1>4, SMT DEF IInv, TypeOK, Steps, Phases, Swaps, Operations
<1>6. Paired(disk)' /\ (Home(mem) => Home(disk)') /\ (Away(mem) => Away(disk)')
  BY <1>1, <1>2, <1>3 DEF IInv, RunInv, Paired, Home, Away, SameTxn
<1>7. SettledIsUniform'
  BY <1>1, <1>2, <1>3 DEF IInv, RunInv, SettledIsUniform, Settled, SameTxn, Home, Away, Forward,
     Phases, Early
<1>8. DiskInv' /\ Fresh' /\ Marked'
  BY <1>1, <1>2, <1>3, <1>6 DEF IInv, RunInv, DiskInv, Fresh, Marked, SameTxn
<1>9. CASE pc' = "idle"
  BY <1>5, <1>7, <1>8, <1>9 DEF IInv, Progress, RunInv
<1>10. CASE pc' # "idle"
  <2>1. mem' = disk' /\ pc' \in {"tag-previous", "swap", "up", "swap-back"}
        /\ pc \in {"build-intent", "exchange-intent", "up-intent", "recovery-intent"}
    BY <1>10, <1>1, <1>3, <1>4 DEF Phases
  <2>2. Progress'
    BY <2>1, <1>2, <1>3 DEF Progress, SameTxn, Final
  <2>3. Paired(mem)' /\ (Home(mem) => Home(mem)') /\ (Away(mem) => Away(mem)')
    BY <2>1, <1>6 DEF Paired, Home, Away
  <2>4. RunInv'
    BY <2>1, <2>3, <1>1, <1>2, <1>3, <1>4, <1>6 DEF IInv, RunInv, Early, Forward, SameTxn
  <2> QED BY <2>2, <2>4, <1>5, <1>7, <1>8 DEF IInv
<1> QED BY <1>9, <1>10

\* What a failed step leaves, whichever way it fails.
LEMMA FailedType ==
  ASSUME NEW j \in Journal, Fail(j)
  PROVE  /\ mem' \in Journal \cup {None} /\ pc' \in Steps \cup {"idle"}
         /\ (pc' = "idle" <=> mem' = None) /\ calling' = FALSE
<1>1. "recovery-intent" \in Steps
  BY DEF Steps, Phases
<1>2. calling' = FALSE /\ ((pc' = "recovery-intent" /\ mem' = j) \/ (pc' = "idle" /\ mem' = None))
  BY FailCases
<1>3. "recovery-intent" # "idle" /\ j # None
  BY NoneAssumption
<1> QED BY <1>1, <1>2, <1>3

\* And what it may still claim.
LEMMA FailedInv ==
  ASSUME NEW j, Fail(j), Paired(j)', ~j.up => container' = j.old,
         pc # "build-intent" => disk' # None /\ SameTxn(disk', j)
  PROVE  Progress' /\ RunInv'
<1>1. CASE pc' = "idle"
  BY <1>1 DEF Progress, RunInv
<1>2. CASE pc' = "recovery-intent" /\ mem' = j /\ pc # "build-intent"
  <2>1. Paired(mem)'
    BY <1>2 DEF Paired, Home, Away
  <2> QED BY <1>2, <2>1 DEF Progress, RunInv, Early, Forward
<1> QED BY <1>1, <1>2, FailCases

\* The journal names one transaction, so its checkouts can be read off any copy of it.
LEMMA SamePaired ==
  ASSUME NEW i, NEW j, SameTxn(i, j)
  PROVE  Paired(i) <=> Paired(j)
BY DEF SameTxn, Paired, Home, Away

\* Bounded faults are counted.
LEMMA FaultType ==
  ASSUME TypeOK, Fault PROVE faults' \in 0..MaxFaults
BY BoundsAssumption, SMT DEF TypeOK, Fault

\* persist() raising: whichever of the two journals is on disk, it is true.
LEMMA PersistFailsKeeps ==
  ASSUME IInv, PersistFails PROVE IInv'
<1> USE NoneAssumption
<1>1. /\ pc \in Phases /\ pc # "idle" /\ mem \in Journal /\ ~calling /\ late = {}
  BY SMT DEF PersistFails, Phases, IInv, TypeOK, Marked, Operations
<1>2. PICK k : k = Announced(mem, pc)
  OBVIOUS
<1>3. /\ k \in Journal /\ SameTxn(k, mem) /\ k.phase = pc /\ k.native = mem.native
      /\ k.up = (mem.up \/ pc = "up-intent") /\ k # None
  BY <1>1, <1>2, AnnouncedType DEF SameTxn
<1>4. PICK j : j = [mem EXCEPT !.phase = pc]
  OBVIOUS
<1>5. j \in Journal /\ SameTxn(j, mem) /\ j.up = mem.up
  BY <1>1, <1>4, PhaseType
<1>6. /\ disk' \in {disk, k} /\ Fault /\ Fail(j)
      /\ UNCHANGED <<current, backup, latest, container, late>>
  BY <1>2, <1>4 DEF PersistFails, WriteFails, host
<1>7. TypeOK'
  <2>1. faults' \in 0..MaxFaults
    BY <1>6, FaultType DEF IInv
  <2> QED BY <1>3, <1>5, <1>6, <2>1, FailedType DEF IInv, TypeOK
<1>8. Paired(j)' /\ Paired(k)'
  <2>1. Paired(j) /\ Paired(k)
    BY <1>1, <1>3, <1>5, SamePaired DEF IInv, RunInv
  <2> QED BY <2>1, <1>6 DEF Paired, Home, Away
<1>9. SettledIsUniform'
  <2>1. CASE disk' = disk
    BY <1>6, <2>1 DEF IInv, SettledIsUniform
  <2>2. CASE disk' = k
    BY <1>1, <1>3, <1>6, <2>2 DEF IInv, RunInv, SettledIsUniform, Settled, SameTxn, Home, Away,
       Forward, Phases, Early
  <2> QED BY <1>6, <2>1, <2>2
<1>10. DiskInv'
  <2>1. CASE disk' = disk
    BY <1>6, <2>1 DEF IInv, DiskInv, Paired, Home, Away
  <2>2. CASE disk' = k
    <3>1. Paired(disk)'
      BY <1>8, <2>2 DEF Paired, Home, Away
    <3> QED BY <1>1, <1>3, <1>6, <2>2, <3>1 DEF IInv, RunInv, DiskInv, SameTxn
  <2> QED BY <1>6, <2>1, <2>2
<1>11. Progress' /\ RunInv'
  <2>1. pc # "build-intent" => disk' # None /\ SameTxn(disk', j)
    BY <1>1, <1>3, <1>5, <1>6 DEF IInv, Progress, SameTxn
  <2>2. ~j.up => container' = j.old
    BY <1>1, <1>5, <1>6 DEF IInv, RunInv, SameTxn
  <2> QED BY <1>6, <1>8, <2>1, <2>2, FailedInv
<1>12. Fresh' /\ Marked'
  BY <1>1, <1>5, <1>6, FailedType DEF IInv, Fresh, Marked
<1> QED BY <1>7, <1>9, <1>10, <1>11, <1>12 DEF IInv

\* operation(): the mark is on disk before the call.
LEMMA BeginOkKeeps ==
  ASSUME IInv, BeginOk PROVE IInv'
<1> USE NoneAssumption
<1>1. /\ pc \in Operations /\ pc # "idle" /\ mem \in Journal /\ late = {}
  BY SMT DEF BeginOk, IInv, TypeOK, Marked, Operations
<1>2. /\ mem' \in Journal /\ SameTxn(mem', mem) /\ mem'.native = "pending"
      /\ mem'.phase = mem.phase /\ mem'.up = mem.up /\ mem' # None
  BY <1>1, NativeType DEF BeginOk, Natives
<1>3. disk' = mem' /\ calling' = TRUE
      /\ UNCHANGED <<pc, faults, current, backup, latest, container, late>>
  BY DEF BeginOk, WriteOk, host
<1>4. TypeOK'
  BY <1>1, <1>2, <1>3 DEF IInv, TypeOK
<1>5. /\ Paired(mem)' /\ Paired(disk)' /\ (Home(mem) => Home(mem)')
      /\ (Away(mem) => Away(mem)')
  BY <1>1, <1>2, <1>3 DEF IInv, RunInv, Paired, Home, Away, SameTxn
<1>6. Fresh' /\ Marked' /\ SettledIsUniform' /\ DiskInv'
  BY <1>1, <1>2, <1>3, <1>5 DEF IInv, Fresh, Marked, SettledIsUniform, Settled, DiskInv
<1>7. Progress'
  BY <1>1, <1>2, <1>3 DEF IInv, Progress, SameTxn, Operations
<1>8. RunInv'
  BY <1>1, <1>2, <1>3, <1>5 DEF IInv, RunInv, SameTxn
<1> QED BY <1>4, <1>6, <1>7, <1>8 DEF IInv

\* operation() raising before the call: the runner stops.
LEMMA BeginFailsKeeps ==
  ASSUME IInv, BeginFails PROVE IInv'
<1> USE NoneAssumption
<1>1. /\ pc \in Operations /\ pc # "idle" /\ pc # "build-intent" /\ mem \in Journal
      /\ ~calling /\ late = {}
  BY SMT DEF BeginFails, IInv, TypeOK, Marked, Operations
<1>2. PICK j : j = [mem EXCEPT !.native = "pending"]
  OBVIOUS
<1>3. j \in Journal /\ SameTxn(j, mem) /\ j.native = "pending" /\ j.up = mem.up /\ j # None
  BY <1>1, <1>2, NativeType DEF Natives
<1>4. /\ disk' \in {disk, j} /\ Fault /\ Fail(j)
      /\ UNCHANGED <<current, backup, latest, container, late>>
  BY <1>2 DEF BeginFails, WriteFails, host
<1>5. pc' = "idle" /\ mem' = None /\ calling' = FALSE
  BY <1>3, <1>4, FailCases DEF Recoverable
<1>6. TypeOK'
  <2>1. faults' \in 0..MaxFaults
    BY <1>4, FaultType DEF IInv
  <2> QED BY <1>3, <1>4, <1>5, <2>1 DEF IInv, TypeOK
<1>7. Paired(j)'
  <2>1. Paired(j)
    BY <1>1, <1>3, SamePaired DEF IInv, RunInv
  <2> QED BY <2>1, <1>4 DEF Paired, Home, Away
<1>8. SettledIsUniform' /\ DiskInv'
  <2>1. CASE disk' = disk
    BY <1>4, <2>1 DEF IInv, DiskInv, SettledIsUniform, Paired, Home, Away
  <2>2. CASE disk' = j
    <3>1. Paired(disk)'
      BY <1>7, <2>2 DEF Paired, Home, Away
    <3> QED BY <1>3, <2>2, <3>1 DEF DiskInv, SettledIsUniform, Settled
  <2> QED BY <1>4, <2>1, <2>2
<1>9. Fresh' /\ Marked' /\ Progress' /\ RunInv'
  BY <1>1, <1>4, <1>5 DEF IInv, Fresh, Marked, Progress, RunInv
<1> QED BY <1>6, <1>8, <1>9 DEF IInv

\* While a call is waited for.
LEMMA InCall ==
  ASSUME IInv, calling
  PROVE  /\ pc \in Operations /\ pc \notin {"idle", "build-intent", "recovery-intent"}
         /\ mem \in Journal /\ disk = mem /\ mem # None /\ mem.native = "pending"
         /\ mem.phase \notin Final /\ late = {} /\ Paired(mem)
<1>1. pc \in Operations /\ pc \notin {"idle", "build-intent", "recovery-intent"}
  BY DEF IInv, TypeOK, Operations
<1> QED BY <1>1, NoneAssumption DEF IInv, TypeOK, Marked, Progress, RunInv

\* A call touches the container only in a transaction that announced it.
LEMMA PartialEffect ==
  ASSUME IInv, calling, Partial
  PROVE  /\ latest' \in Releases \cup {None} /\ container' \in Releases \cup {None}
         /\ ~mem.up => container' = container
<1>1. pc \in {"up", "restore-up"} => mem.up
  BY InCall DEF IInv, RunInv
<1>2. mem.old \in Releases /\ mem.new \in Releases
  BY InCall, JournalFields
<1>3. latest \in Releases \cup {None} /\ container \in Releases \cup {None}
  BY DEF IInv, TypeOK
<1>4. CASE Effect(pc, mem)
  BY <1>1, <1>2, <1>3, <1>4 DEF Effect
<1>5. CASE ~Effect(pc, mem)
  BY <1>1, <1>3, <1>5 DEF Partial
<1> QED BY <1>4, <1>5

\* The call returns and its completion is durable.
LEMMA CallReturnsKeeps ==
  ASSUME IInv, CallReturns PROVE IInv'
<1> USE NoneAssumption
<1>0. calling
  BY DEF CallReturns
<1>1. /\ pc \in Operations /\ pc \notin {"idle", "build-intent", "recovery-intent"}
      /\ mem \in Journal /\ disk = mem /\ mem # None /\ mem.phase \notin Final
      /\ late = {} /\ Paired(mem)
  BY <1>0, InCall
<1>2. /\ mem' \in Journal /\ SameTxn(mem', mem) /\ mem'.native = "returned"
      /\ mem'.phase = mem.phase /\ mem'.up = mem.up /\ mem' # None
  BY <1>1, NativeType DEF CallReturns, Natives
<1>3. /\ disk' = mem' /\ calling' = FALSE /\ pc' = After(pc, mem)
      /\ UNCHANGED <<faults, current, backup, late>>
  BY DEF CallReturns, CompleteOk, WriteOk
<1>4. /\ latest' \in Releases \cup {None} /\ container' \in Releases \cup {None}
      /\ ~mem.up => container' = container
  BY <1>0, PartialEffect DEF CallReturns, Partial
<1>5. /\ pc = "tag-previous" => pc' = "build"
      /\ pc = "build" => pc' = "image"
      /\ pc = "image" => pc' = "verify-image"
      /\ pc = "verify-image" => pc' = "exchange-intent"
      /\ pc = "up" => pc' = "health"
      /\ pc = "health" => pc' = "tag-release"
      /\ pc = "tag-release" => pc' = "committed"
      /\ pc = "restore-image" => pc' = (IF mem.up THEN "restore-up" ELSE "rolled-back")
      /\ pc = "restore-up" => pc' = "restore-health"
      /\ pc = "restore-health" => pc' = "rolled-back"
  BY <1>3, BackwardSteps, AfterForward, AfterBackward DEF Backward
<1>6. TypeOK'
  <2>1. pc' \in Steps /\ pc' # "idle"
    BY <1>1, <1>5 DEF Operations, Steps, Phases
  <2> QED BY <1>2, <1>3, <1>4, <2>1 DEF IInv, TypeOK
<1>7. /\ Paired(mem)' /\ Paired(disk)' /\ (Home(mem) => Home(mem)')
      /\ (Away(mem) => Away(mem)')
  BY <1>1, <1>2, <1>3 DEF Paired, Home, Away, SameTxn
<1>8. ~mem'.up => container' = mem'.old
  BY <1>1, <1>2, <1>4 DEF IInv, RunInv, SameTxn
<1>9. Fresh' /\ Marked' /\ SettledIsUniform' /\ DiskInv'
  BY <1>1, <1>2, <1>3, <1>7, <1>8 DEF IInv, Fresh, Marked, SettledIsUniform, Settled, Final, DiskInv
<1>10. Progress'
  BY <1>1, <1>2, <1>3 DEF Progress, SameTxn
<1>11. /\ pc = "build" => latest' = mem.new
       /\ pc = "restore-image" => latest' = mem.old
       /\ pc \notin {"build", "restore-image"} => latest' = latest
       /\ container' = IF pc \in {"up", "restore-up"} THEN latest ELSE container
  BY DEF CallReturns, Effect
<1>12. RunInv'
  <2>1. CASE pc \in Early
    BY <1>1, <1>2, <1>5, <1>7, <1>8, <1>11, <2>1 DEF IInv, RunInv, SameTxn, Operations, Early, Forward
  <2>2. CASE pc \in Forward
    BY <1>1, <1>2, <1>5, <1>7, <1>8, <1>11, <2>2 DEF IInv, RunInv, SameTxn, Operations, Early, Forward
  <2>3. CASE pc \in Backward
    BY <1>1, <1>2, <1>5, <1>7, <1>8, <1>11, <2>3 DEF IInv, RunInv, SameTxn, Operations, Early, Forward, Backward
  <2> QED BY <1>1, <2>1, <2>2, <2>3 DEF Operations, Early, Forward, Backward
<1> QED BY <1>6, <1>9, <1>10, <1>12 DEF IInv

\* The call is refused, with some part of its effect.
LEMMA CallRefusedKeeps ==
  ASSUME IInv, CallRefused PROVE IInv'
<1> USE NoneAssumption
<1>0. calling /\ Partial
  BY DEF CallRefused
<1>1. /\ pc \in Operations /\ pc \notin {"idle", "build-intent", "recovery-intent"}
      /\ mem \in Journal /\ mem # None /\ mem.phase \notin Final /\ late = {} /\ Paired(mem)
  BY <1>0, InCall
<1>2. PICK j : j = [mem EXCEPT !.native = "refused"]
  OBVIOUS
<1>3. /\ j \in Journal /\ SameTxn(j, mem) /\ j.native = "refused" /\ j.up = mem.up
      /\ j.phase = mem.phase /\ j # None
  BY <1>1, <1>2, NativeType DEF Natives
<1>4. disk' = j /\ Fault /\ Fail(j) /\ UNCHANGED <<current, backup, late>>
  BY <1>2 DEF CallRefused
<1>5. /\ latest' \in Releases \cup {None} /\ container' \in Releases \cup {None}
      /\ ~mem.up => container' = container
  BY <1>0, PartialEffect
<1>6. TypeOK'
  <2>1. faults' \in 0..MaxFaults
    BY <1>4, FaultType DEF IInv
  <2> QED BY <1>3, <1>4, <1>5, <2>1, FailedType DEF IInv, TypeOK
<1>7. Paired(j)' /\ Paired(disk)'
  <2>1. Paired(j)
    BY <1>1, <1>3, SamePaired
  <2> QED BY <2>1, <1>4 DEF Paired, Home, Away
<1>8. ~j.up => container' = j.old
  BY <1>1, <1>3, <1>5 DEF IInv, RunInv, SameTxn
<1>9. Progress' /\ RunInv'
  BY <1>3, <1>4, <1>7, <1>8, FailedInv DEF SameTxn
<1>10. Fresh' /\ Marked' /\ SettledIsUniform' /\ DiskInv'
  BY <1>1, <1>3, <1>4, <1>7, <1>8, FailedType
     DEF IInv, Fresh, Marked, SettledIsUniform, Settled, Final, DiskInv
<1> QED BY <1>6, <1>9, <1>10 DEF IInv

\* The call has ended and the runner stops without knowing what is on disk.
LEMMA CompletionLostKeeps ==
  ASSUME IInv, CompletionLost PROVE IInv'
<1> USE NoneAssumption
<1>1. PICK c \in {"returned", "refused"} :
        Partial /\ WriteFails([mem EXCEPT !.native = c])
  BY DEF CompletionLost, Partial
<1>2. calling /\ pc' = "idle" /\ mem' = None /\ calling' = FALSE
      /\ UNCHANGED <<current, backup, late>>
  BY DEF CompletionLost, Release
<1>3. /\ mem \in Journal /\ disk = mem /\ mem # None /\ mem.native = "pending"
      /\ mem.phase \notin Final /\ late = {} /\ Paired(mem) /\ pc # "idle"
  BY <1>2, InCall
<1>4. PICK j : j = [mem EXCEPT !.native = c]
  OBVIOUS
<1>5. /\ j \in Journal /\ SameTxn(j, mem) /\ j.up = mem.up /\ j.phase = mem.phase /\ j # None
  BY <1>1, <1>3, <1>4, NativeType DEF Natives
<1>6. disk' \in {disk, j} /\ Fault
  BY <1>1, <1>4 DEF WriteFails
<1>7. /\ latest' \in Releases \cup {None} /\ container' \in Releases \cup {None}
      /\ ~mem.up => container' = container
  BY <1>1, <1>2, PartialEffect
<1>8. TypeOK'
  <2>1. faults' \in 0..MaxFaults
    BY <1>6, FaultType DEF IInv
  <2> QED BY <1>2, <1>5, <1>6, <1>7, <2>1 DEF IInv, TypeOK
<1>9. SettledIsUniform' /\ DiskInv'
  <2>1. disk'.phase \notin Final /\ SameTxn(disk', mem) /\ disk'.up = mem.up
    BY <1>3, <1>5, <1>6 DEF SameTxn
  <2>2. Paired(disk)'
    BY <1>2, <1>3, <2>1 DEF Paired, Home, Away, SameTxn
  <2>3. ~disk'.up => container' = disk'.old
    BY <1>3, <1>7, <2>1 DEF IInv, RunInv, SameTxn
  <2> QED BY <2>1, <2>2, <2>3 DEF SettledIsUniform, Settled, Final, DiskInv
<1>10. Fresh' /\ Marked' /\ Progress' /\ RunInv'
  BY <1>2, <1>3 DEF IInv, Fresh, Marked, Progress, RunInv
<1> QED BY <1>8, <1>9, <1>10 DEF IInv

\* A runner that stops waiting, or is killed, leaves its call behind under a pending mark.
LEMMA Abandoned ==
  ASSUME IInv, pc # "idle", Fault, Release,
         late' = IF calling THEN late \cup {[op |-> pc, txn |-> mem]} ELSE late,
         UNCHANGED <<disk, current, backup, latest, container>>
  PROVE  IInv'
<1> USE NoneAssumption
<1>1. pc' = "idle" /\ mem' = None /\ calling' = FALSE
  BY DEF Release
<1>2. late = {} /\ (calling => disk # None /\ disk.native = "pending")
  BY InCall DEF IInv, Marked
<1>3. calling => [op |-> pc, txn |-> mem] \in [op : Operations, txn : Journal]
  BY InCall
<1>4. TypeOK'
  <2>1. faults' \in 0..MaxFaults
    BY FaultType DEF IInv
  <2>2. late' \subseteq [op : Operations, txn : Journal]
    BY <1>2, <1>3
  <2> QED BY <1>1, <2>1, <2>2 DEF IInv, TypeOK
<1>5. Marked'
  BY <1>1, <1>2 DEF Marked
<1>6. Fresh' /\ SettledIsUniform' /\ DiskInv'
  BY DEF IInv, Fresh, SettledIsUniform, DiskInv, Paired, Home, Away
<1>7. Progress' /\ RunInv'
  BY <1>1 DEF Progress, RunInv
<1> QED BY <1>4, <1>5, <1>6, <1>7 DEF IInv

\* The runner stops waiting.
LEMMA CallTimesOutKeeps ==
  ASSUME IInv, CallTimesOut PROVE IInv'
<1>1. calling /\ pc # "idle"
  BY InCall DEF CallTimesOut
<1> QED BY <1>1, Abandoned DEF CallTimesOut

\* The runner is killed.
LEMMA CrashKeeps ==
  ASSUME IInv, Crash PROVE IInv'
BY Abandoned DEF Crash

\* The exchange turns one order of the two checkouts into the other.
LEMMA Exchanged ==
  ASSUME IInv, NEW j \in Journal, j.id = mem.id, Paired(j), Exchange
  PROVE  /\ Paired(j)' /\ (Home(j) => Away(j)') /\ (Away(j) => Home(j)')
         /\ Fresh' /\ current' \in Checkout /\ backup' \in Seq(Checkout)
         /\ Len(backup') = Len(backup)
<1>1. j.id \in 1..Len(backup) /\ Len(backup) \in Nat
  BY SMT DEF Paired, Home, Away, IInv, TypeOK
<1>2. /\ Len(backup') = Len(backup) /\ backup' \in Seq(Checkout)
      /\ current' = backup[j.id] /\ backup'[j.id] = current
      /\ \A i \in 1..Len(backup) : i # j.id => backup'[i] = backup[i]
  BY <1>1, SMT DEF Exchange, IInv, TypeOK
<1>3. current' \in Checkout
  BY <1>1, <1>2, SMT DEF IInv, TypeOK
<1>4. /\ Home(j) => Away(j)'
      /\ Away(j) => Home(j)'
  BY <1>1, <1>2 DEF Home, Away
<1>5. Fresh'
  BY <1>1, <1>2 DEF IInv, Fresh
<1> QED BY <1>2, <1>3, <1>4, <1>5 DEF Paired

\* Before an exchange of the checkouts.
LEMMA InSwap ==
  ASSUME IInv, pc \in Swaps
  PROVE  /\ pc \notin {"idle", "build-intent", "recovery-intent"}
         /\ mem \in Journal /\ mem # None /\ disk \in Journal /\ disk # None
         /\ SameTxn(disk, mem) /\ disk.phase \notin Final /\ mem.phase \notin Final
         /\ ~calling /\ late = {} /\ Paired(mem)
         /\ pc = "swap" => Home(mem)
<1>1. pc \in {"swap", "swap-back"}
  BY DEF Swaps
<1>2. ~calling /\ mem \in Journal
  BY <1>1 DEF IInv, TypeOK, Operations
<1> QED BY <1>1, <1>2, NoneAssumption DEF IInv, TypeOK, Marked, Progress, RunInv, Early

\* The exchange, or the finding that it is not needed.
LEMMA SwapOkKeeps ==
  ASSUME IInv, SwapOk PROVE IInv'
<1> USE NoneAssumption
<1>0. pc \in Swaps
  BY DEF SwapOk
<1>1. /\ pc \notin {"idle", "build-intent", "recovery-intent"}
      /\ mem \in Journal /\ mem # None /\ disk # None
      /\ SameTxn(disk, mem) /\ disk.phase \notin Final /\ mem.phase \notin Final
      /\ ~calling /\ late = {} /\ Paired(mem) /\ (pc = "swap" => Home(mem))
  BY <1>0, InSwap
<1>2. /\ pc' = After(pc, mem)
      /\ UNCHANGED <<disk, mem, calling, latest, container, late, faults>>
  BY DEF SwapOk
<1>3. /\ pc = "swap" => pc' = "up-intent"
      /\ pc = "swap-back" => pc' = "restore-image"
  BY <1>2, BackwardSteps, AfterForward, AfterBackward DEF Backward
<1>4. /\ Paired(mem)' /\ Fresh' /\ current' \in Checkout /\ backup' \in Seq(Checkout)
      /\ Len(backup') = Len(backup)
      /\ pc = "swap" => Away(mem)'
      /\ pc = "swap-back" => Home(mem)'
  <2>1. PICK j : j = mem
    OBVIOUS
  <2>2. Paired(mem)' = Paired(j)' /\ Home(mem)' = Home(j)' /\ Away(mem)' = Away(j)'
    BY <1>2, <2>1 DEF Paired, Home, Away
  <2>3. CASE pc = "swap" \/ Pair = <<mem.newInode, mem.oldInode>>
    <3>1. Exchange
      BY <2>3 DEF SwapOk
    <3>2. /\ Paired(j)' /\ (Home(j) => Away(j)') /\ (Away(j) => Home(j)')
          /\ Fresh' /\ current' \in Checkout /\ backup' \in Seq(Checkout)
          /\ Len(backup') = Len(backup)
      BY <1>1, <2>1, <3>1, Exchanged
    <3>3. pc = "swap-back" => Away(mem)
      BY <1>1, <2>3 DEF Pair, Paired, Home, Away
    <3> QED BY <1>1, <2>1, <2>2, <3>2, <3>3
  <2>4. CASE ~(pc = "swap" \/ Pair = <<mem.newInode, mem.oldInode>>)
    <3>1. Pair = <<mem.oldInode, mem.newInode>> /\ UNCHANGED <<current, backup>> /\ pc # "swap"
      BY <2>4 DEF SwapOk
    <3>2. Home(mem)
      BY <1>1, <3>1 DEF Pair, Paired, Home, Away
    <3> QED BY <1>1, <1>2, <3>1, <3>2 DEF IInv, TypeOK, Fresh, Paired, Home, Away
  <2> QED BY <2>3, <2>4
<1>5. TypeOK'
  <2>1. pc' \in Steps /\ pc' # "idle"
    BY <1>0, <1>3 DEF Swaps, Steps, Phases, Operations
  <2> QED BY <1>1, <1>2, <1>4, <2>1 DEF IInv, TypeOK
<1>6. DiskInv' /\ SettledIsUniform' /\ Marked'
  <2>1. Paired(disk)'
    BY <1>1, <1>2, <1>4 DEF Paired, Home, Away, SameTxn
  <2> QED BY <1>1, <1>2, <2>1 DEF IInv, DiskInv, SettledIsUniform, Settled, Final, Marked
<1>7. Progress'
  BY <1>1, <1>2 DEF Progress, SameTxn
<1>8. RunInv'
  BY <1>0, <1>1, <1>2, <1>3, <1>4 DEF IInv, RunInv, Early, Forward, Swaps
<1> QED BY <1>4, <1>5, <1>6, <1>7, <1>8 DEF IInv

\* The exchange fails, done or not.
LEMMA SwapFailsKeeps ==
  ASSUME IInv, SwapFails PROVE IInv'
<1> USE NoneAssumption
<1>0. pc \in Swaps /\ Fault /\ Fail(mem) /\ UNCHANGED <<disk, latest, container, late>>
  BY DEF SwapFails
<1>1. /\ pc \notin {"idle", "build-intent", "recovery-intent"}
      /\ mem \in Journal /\ mem # None /\ disk # None
      /\ SameTxn(disk, mem) /\ disk.phase \notin Final
      /\ ~calling /\ late = {} /\ Paired(mem)
  BY <1>0, InSwap
<1>2. PICK j : j = mem
  OBVIOUS
<1>3. /\ Paired(j)' /\ Fresh' /\ current' \in Checkout /\ backup' \in Seq(Checkout)
      /\ Len(backup') = Len(backup)
  <2>1. CASE UNCHANGED <<current, backup>>
    BY <1>1, <1>2, <2>1 DEF IInv, TypeOK, Fresh, Paired, Home, Away
  <2>2. CASE Exchange
    BY <1>1, <1>2, <2>2, Exchanged
  <2> QED BY <2>1, <2>2 DEF SwapFails
<1>4. TypeOK'
  <2>1. faults' \in 0..MaxFaults
    BY <1>0, FaultType DEF IInv
  <2> QED BY <1>0, <1>1, <1>3, <2>1, FailedType DEF IInv, TypeOK
<1>5. DiskInv' /\ SettledIsUniform'
  <2>1. Paired(disk)'
    BY <1>0, <1>1, <1>2, <1>3 DEF Paired, Home, Away, SameTxn
  <2> QED BY <1>0, <1>1, <2>1 DEF IInv, DiskInv, SettledIsUniform, Settled, Final
<1>6. Progress' /\ RunInv'
  <2>1. SameTxn(disk', j) /\ disk' # None /\ (~j.up => container' = j.old) /\ Fail(j)
    BY <1>0, <1>1, <1>2 DEF IInv, RunInv, SameTxn
  <2> QED BY <1>3, <2>1, FailedInv
<1>7. Marked'
  BY <1>0, <1>1, FailedType DEF Marked
<1> QED BY <1>3, <1>4, <1>5, <1>6, <1>7 DEF IInv

\* A call nobody waits for: its mark is on disk, so nothing is claimed.
LEMMA LateEffectKeeps ==
  ASSUME IInv, LateEffect PROVE IInv'
<1>1. PICK e \in late : Effect(e.op, e.txn) /\ late' = late \ {e}
  BY DEF LateEffect
<1>2. /\ pc = "idle" /\ disk # None /\ disk.native = "pending"
      /\ UNCHANGED <<disk, mem, pc, calling, current, backup, faults>>
  BY <1>1 DEF LateEffect, IInv, Marked
<1>3. e.op \in Operations /\ e.txn \in Journal
  BY <1>1 DEF IInv, TypeOK
<1>4. latest' \in Releases \cup {None} /\ container' \in Releases \cup {None}
  BY <1>1, <1>3, JournalFields DEF Effect, IInv, TypeOK
<1>5. TypeOK'
  BY <1>1, <1>2, <1>4 DEF IInv, TypeOK
<1>6. Fresh' /\ Marked' /\ SettledIsUniform' /\ DiskInv'
  BY <1>1, <1>2 DEF IInv, TypeOK, Operations, Fresh, Marked, SettledIsUniform, Settled, DiskInv,
     Paired, Home, Away
<1>7. Progress' /\ RunInv'
  BY <1>2 DEF Progress, RunInv
<1> QED BY <1>5, <1>6, <1>7 DEF IInv

\* Every step preserves the invariant.
LEMMA NextIInv == IInv /\ [Next]_vars => IInv'
<1> SUFFICES ASSUME IInv, [Next]_vars PROVE IInv'
  OBVIOUS
<1>1. CASE UNCHANGED vars
  BY <1>1 DEF vars, IInv, TypeOK, Fresh, Marked, SettledIsUniform, DiskInv, Progress, RunInv, Paired,
     Home, Away
<1>2. CASE Next
  BY <1>2, DeployKeeps, RecoverKeeps, PersistOkKeeps, PersistFailsKeeps, BeginOkKeeps, BeginFailsKeeps,
     CallReturnsKeeps, CallRefusedKeeps, CompletionLostKeeps, CallTimesOutKeeps, SwapOkKeeps,
     SwapFailsKeeps, CrashKeeps, LateEffectKeeps DEF Next, Run, Faulty
<1> QED BY <1>1, <1>2

\* The state is typed, and a journal that says committed or rolled-back is true of checkout,
\* tag and container (deploy(), rollback()).
THEOREM SettledTrue == Spec => [](TypeOK /\ SettledIsUniform)
BY InitIInv, NextIInv, PTL DEF Spec, IInv

\* No docker operation is invoked while an abandoned one may still take effect (operation()).
THEOREM CallsDoNotOverlap == Spec => []Quiescence
<1>1. IInv => Quiescence
  BY DEF IInv, TypeOK, Marked, Operations, Quiescence
<1> QED BY <1>1, InitIInv, NextIInv, PTL DEF Spec

\* The exchange, repeated by rollback() or cut short, loses neither checkout (exchange()).
THEOREM CheckoutsKept == Spec => []Custody
<1>1. IInv => Custody
  BY DEF IInv, DiskInv, Paired, Home, Away, Custody
<1> QED BY <1>1, InitIInv, NextIInv, PTL DEF Spec

\* A journal is replaced, never removed.
LEMMA JournalStays ==
  ASSUME IInv, Next, disk # None PROVE disk' # None
<1> USE NoneAssumption
<1>1. ASSUME NEW j, disk' \in {disk, j}, j \in Journal PROVE disk' # None
  BY <1>1
<1>2. ASSUME calling \/ pc \in Phases \cup Operations PROVE mem \in Journal
  BY <1>2 DEF IInv, TypeOK, Phases, Operations
<1>3. \A c \in Natives : mem \in Journal => [mem EXCEPT !.native = c] \in Journal
  BY NativeType
<1>4. CASE PersistOk \/ PersistFails
  BY <1>1, <1>2, <1>4, AnnouncedType DEF PersistOk, PersistFails, WriteOk, WriteFails
<1>5. CASE BeginOk \/ BeginFails
  BY <1>1, <1>2, <1>3, <1>5 DEF BeginOk, BeginFails, WriteOk, WriteFails, Natives
<1>6. CASE CallReturns \/ CallRefused \/ CompletionLost
  BY <1>1, <1>2, <1>3, <1>6 DEF CallReturns, CompleteOk, CallRefused, CompletionLost, WriteOk, WriteFails,
     Natives
<1>7. ASSUME ~(PersistOk \/ PersistFails \/ BeginOk \/ BeginFails \/ CallReturns \/ CallRefused \/ CompletionLost)
      PROVE  UNCHANGED disk
  BY <1>7 DEF Next, Run, Faulty, Deploy, Recover, CallTimesOut, SwapOk, SwapFails, Crash, LateEffect
<1> QED BY <1>4, <1>5, <1>6, <1>7

\* A step that leaves the host alone opens a transaction, closes one on a single release,
\* or is not seen.
LEMMA QuietStep ==
  ASSUME IInv, IInv', Next, UNCHANGED <<current, latest, container>>
  PROVE  Abstract!Open \/ Abstract!Close \/ UNCHANGED Abstract!vars
<1>1. CASE Unsettled' <=> Unsettled
  BY <1>1 DEF Abstract!vars, Unsettled
<1>2. CASE ~Unsettled /\ Unsettled'
  BY <1>2 DEF Abstract!Open, Unsettled
<1>3. CASE Unsettled /\ ~Unsettled'
  <2>1. disk' # None /\ Settled(disk)' /\ disk' \in Journal
    BY <1>3, JournalStays DEF Unsettled, IInv, TypeOK
  <2>2. \E r \in Releases : current.sha' = r /\ latest' = r /\ container' = r
    BY <2>1, JournalFields DEF IInv, SettledIsUniform
  <2> QED BY <1>3, <2>2 DEF Abstract!Close, Abstract!Uniform, Unsettled
<1> QED BY <1>1, <1>2, <1>3

\* While a call is waited for, when it ends, and when one nobody waits for takes effect,
\* the transaction is open.
LEMMA OpenWork ==
  ASSUME IInv, IInv', Unsettled, Unsettled', current' = current,
         \/ \E r \in Releases : latest' = r /\ UNCHANGED container
         \/ container' \in Releases \cup {None} /\ UNCHANGED latest
  PROVE  Abstract!Work
BY DEF Abstract!Work, Unsettled

\* An operation changes the tag or the container, not both.
LEMMA EffectSeen ==
  ASSUME IInv, NEW op, NEW j \in Journal, Effect(op, j)
  PROVE  \/ \E r \in Releases : latest' = r /\ UNCHANGED container
         \/ container' \in Releases \cup {None} /\ UNCHANGED latest
<1>1. j.old \in Releases /\ j.new \in Releases
  BY JournalFields
<1>2. latest \in Releases \cup {None} /\ container \in Releases \cup {None}
  BY DEF IInv, TypeOK
<1> QED BY <1>1, <1>2 DEF Effect

\* Every step is one of AtomicRelease or is not seen.
LEMMA NextRefines ==
  ASSUME IInv, IInv', [Next]_vars PROVE [Abstract!Next]_(Abstract!vars)
<1>1. CASE UNCHANGED vars
  BY <1>1 DEF vars, Abstract!vars, Unsettled
<1>2. CASE Next /\ UNCHANGED <<current, latest, container>>
  BY <1>2, QuietStep DEF Abstract!Next
<1>3. CASE CallReturns \/ CallRefused \/ CompletionLost
  <2>1. calling /\ Partial /\ current' = current
    BY <1>3 DEF CallReturns, CallRefused, CompletionLost, Partial
  <2>2. mem \in Journal /\ disk = mem /\ mem # None /\ mem.native = "pending" /\ mem.phase \notin Final
    BY <2>1, InCall
  <2>3. disk' # None /\ disk'.phase \notin Final
    <3>1. disk' # None
      BY <1>3, <2>2, JournalStays DEF Next, Run, Faulty
    <3>2. \A c \in Natives : [mem EXCEPT !.native = c].phase = mem.phase
      BY <2>2, NativeType
    <3> QED BY <1>3, <2>2, <3>1, <3>2 DEF CallReturns, CompleteOk, CallRefused, CompletionLost, WriteOk,
       WriteFails, Natives
  <2>4. Unsettled /\ Unsettled'
    BY <2>2, <2>3 DEF Unsettled, Settled, Final
  <2>5. \/ \E r \in Releases : latest' = r /\ UNCHANGED container
        \/ container' \in Releases \cup {None} /\ UNCHANGED latest
    BY <2>1, <2>2, EffectSeen DEF Partial, IInv, TypeOK
  <2> QED BY <2>1, <2>4, <2>5, OpenWork DEF Abstract!Next
<1>4. CASE SwapOk \/ SwapFails
  <2>1. pc \in Swaps /\ UNCHANGED <<disk, latest, container>>
    BY <1>4 DEF SwapOk, SwapFails
  <2>2. Unsettled /\ Unsettled'
    BY <2>1, InSwap DEF Unsettled, Settled, Final
  <2>3. current.sha' \in Releases
    BY SMT DEF IInv, TypeOK, Checkout
  <2> QED BY <2>1, <2>2, <2>3 DEF Abstract!Next, Abstract!Work, Unsettled
<1>5. CASE LateEffect
  <2>1. PICK e \in late : Effect(e.op, e.txn)
    BY <1>5 DEF LateEffect
  <2>2. e.txn \in Journal
    BY <2>1 DEF IInv, TypeOK
  <2>3. Unsettled /\ Unsettled' /\ current' = current
    BY <1>5, <2>1 DEF IInv, Marked, Unsettled, Settled, LateEffect
  <2> QED BY <2>1, <2>2, <2>3, EffectSeen, OpenWork DEF Abstract!Next
<1>6. ASSUME Next, ~(CallReturns \/ CallRefused \/ CompletionLost \/ SwapOk \/ SwapFails \/ LateEffect)
      PROVE  UNCHANGED <<current, latest, container>>
  BY <1>6 DEF Next, Run, Faulty, Deploy, Recover, PersistOk, PersistFails, BeginOk, BeginFails,
     CallTimesOut, Crash, host
<1> QED BY <1>1, <1>2, <1>3, <1>4, <1>5, <1>6

\* deploy(), rollback() and recover(), with every kill, failed write and late docker call,
\* implement an atomic release.
THEOREM Refinement == Spec => ImplementsAtomicRelease
<1>1. Init => Abstract!Init
  BY SMT DEF Init, Abstract!Init, Abstract!Uniform, Unsettled
<1> QED BY <1>1, InitIInv, NextIInv, NextRefines, PTL DEF Spec, ImplementsAtomicRelease, Abstract!Spec
=============================================================================
