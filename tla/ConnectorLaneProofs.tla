------------------------ MODULE ConnectorLaneProofs ------------------------
(***************************************************************************)
(* Safety of one connector lane for any number of requests and models, any *)
(* concurrency cap and any breaker threshold, on both lanes.               *)
(*                                                                         *)
(* The semaphore needs TypeOK, PermitAccounting and NoLostWakeup together: *)
(* a release keeps the count right only because the head of the queue is a *)
(* suspended request that holds no permit, and the queue lists suspended   *)
(* requests only because nobody joins it while a permit is free.           *)
(*                                                                         *)
(* The breaker needs more than BreakerFollowsEvidence: while it is closed  *)
(* its own count is exactly the evidence.                                  *)
(***************************************************************************)
EXTENDS ConnectorLane, FiniteSetTheorems, TLAPS

\* A queue entry removed at position k leaves a sequence one shorter.
LEMMA WithoutSeq ==
  ASSUME NEW S, NEW q \in Seq(S), NEW k \in 1 .. Len(q)
  PROVE  /\ Without(q, k) \in Seq(S)
         /\ Len(Without(q, k)) = Len(q) - 1
         /\ \A i \in 1 .. Len(q) - 1 :
              Without(q, k)[i] = IF i < k THEN q[i] ELSE q[i + 1]
<1>1. Len(q) - 1 \in Nat
  OBVIOUS
<1>2. \A i \in 1 .. Len(q) - 1 : (IF i < k THEN q[i] ELSE q[i + 1]) \in S
  OBVIOUS
<1>3. Without(q, k) \in [1 .. Len(q) - 1 -> S]
  BY <1>2 DEF Without
<1>4. Without(q, k) \in Seq(S)
  BY <1>1, <1>3
<1>5. Len(Without(q, k)) = Len(q) - 1
  BY <1>1, <1>3, <1>4
<1> QED
  BY <1>4, <1>5 DEF Without

\* The set of holders is finite, being part of a finite set of requests.
LEMMA FiniteSets ==
  /\ IsFiniteSet(Holding) /\ IsFiniteSet(Running)
  /\ Cardinality(Holding) \in Nat /\ Cardinality(Running) \in Nat
<1>1. Holding \subseteq Requests /\ Running \subseteq Requests
  BY DEF Holding, Running
<1>2. IsFiniteSet(Requests)
  BY LaneAssumption DEF LaneAssumption
<1> QED
  BY <1>1, <1>2, FS_Subset, FS_CardinalityType

\* The breaker's transitions are well typed.
LEMMA BreakerTypes ==
  ASSUME NEW b \in Breakers
  PROVE  /\ AfterCheck(b) \in Breakers
         /\ RecordSuccess(b) \in Breakers
         /\ RecordFailure(b) \in Breakers
         /\ RecordInstantOpen(b) \in Breakers
         /\ FreshBreaker \in Breakers
<1> USE LaneAssumption DEF LaneAssumption, Breakers, States
<1>1. AfterCheck(b) \in Breakers
  BY DEF AfterCheck
<1>2. RecordSuccess(b) \in Breakers
  BY DEF RecordSuccess
<1>3. RecordFailure(b) \in Breakers
  BY DEF RecordFailure, Bump
<1>4. RecordInstantOpen(b) \in Breakers
  BY DEF RecordInstantOpen
<1>5. FreshBreaker \in Breakers
  BY DEF FreshBreaker
<1> QED
  BY <1>1, <1>2, <1>3, <1>4, <1>5

\* Handing a permit from r to h keeps the number of holders.
LEMMA Swap ==
  ASSUME NEW S, IsFiniteSet(S), NEW r \in S, NEW h, h \notin S
  PROVE  Cardinality((S \ {r}) \cup {h}) = Cardinality(S)
<1>1. /\ IsFiniteSet(S \ {r})
      /\ Cardinality(S \ {r}) = Cardinality(S) - 1
      /\ Cardinality(S) \in Nat
  BY FS_RemoveElement, FS_CardinalityType
<1>2. h \notin S \ {r}
  OBVIOUS
<1>3. Cardinality((S \ {r}) \cup {h}) = Cardinality(S \ {r}) + 1
  BY <1>1, <1>2, FS_AddElement
<1> QED
  BY <1>1, <1>3

\* What one release does to the lane: r's permit is dropped or handed to the
\* first waiter, and in either case every count stays exact.
LEMMA ReleaseKeepsLane ==
  ASSUME TypeOK, PermitAccounting, NoLostWakeup,
         NEW r \in Requests, pc[r] = "running",
         ReleaseAndEnd(r), leaked' = leaked
  PROVE  /\ pc' \in [Requests -> Points]
         /\ current' \in Nat /\ activeJobs' \in Nat
         /\ queue' \in Seq(Requests)
         /\ PermitAccounting'
         /\ NoLostWakeup'
<1> USE DEF Points, Granted
<1>1. /\ r \in Holding /\ r \in Running
      /\ IsFiniteSet(Holding) /\ IsFiniteSet(Running)
      /\ Cardinality(Holding) \in Nat /\ Cardinality(Running) \in Nat
  BY FiniteSets DEF Holding, Running
<1>2. /\ Cardinality(Holding \ {r}) = Cardinality(Holding) - 1
      /\ Cardinality(Running \ {r}) = Cardinality(Running) - 1
      /\ Cardinality(Holding \ {r}) \in Nat /\ Cardinality(Running \ {r}) \in Nat
      /\ IsFiniteSet(Holding \ {r}) /\ IsFiniteSet(Running \ {r})
  BY <1>1, FS_RemoveElement, FS_CardinalityType
<1>3. CASE queue = <<>>
  <2>1. /\ current' = current - 1 /\ queue' = queue
        /\ pc' = [pc EXCEPT ![r] = "idle"] /\ activeJobs' = activeJobs - 1
    BY <1>3 DEF ReleaseAndEnd
  <2>2. Holding' = Holding \ {r} /\ Running' = Running \ {r}
    BY <2>1 DEF Holding, Running, TypeOK
  <2>3. PermitAccounting' /\ current' \in Nat /\ activeJobs' \in Nat
    <3>1. /\ Cardinality(Holding') = Cardinality(Holding) - 1 /\ Cardinality(Holding') \in Nat
          /\ Cardinality(Running') = Cardinality(Running) - 1 /\ Cardinality(Running') \in Nat
      BY <1>2, <2>2
    <3>2. /\ current = Cardinality(Holding) + leaked /\ current <= MaxConcurrency
          /\ activeJobs = Cardinality(Running)
          /\ leaked \in Nat /\ MaxConcurrency \in Nat
      BY LaneAssumption DEF LaneAssumption, PermitAccounting, TypeOK
    <3>3. /\ current' = Cardinality(Holding') + leaked' /\ current' <= MaxConcurrency
          /\ activeJobs' = Cardinality(Running') /\ current' \in Nat /\ activeJobs' \in Nat
      BY <1>1, <2>1, <3>1, <3>2, SMT
    <3> QED
      BY <3>3 DEF PermitAccounting
  <2>4. NoLostWakeup'
    BY <1>3, <2>1 DEF NoLostWakeup, TypeOK
  <2>5. pc' \in [Requests -> Points] /\ queue' \in Seq(Requests)
    BY <2>1 DEF TypeOK
  <2> QED
    BY <2>3, <2>4, <2>5
<1>4. CASE queue # <<>>
  <2> DEFINE h == Head(queue)
  <2>1. /\ pc' = [pc EXCEPT ![r] = "idle", ![h] = Granted]
        /\ queue' = Tail(queue) /\ current' = current
        /\ activeJobs' = IF CliLane THEN activeJobs - 1 ELSE activeJobs
    BY <1>4 DEF ReleaseAndEnd
  <2>2. Len(queue) \in Nat /\ Len(queue) >= 1 /\ h = queue[1] /\ h \in Requests
    BY <1>4 DEF TypeOK
  <2>3. pc[h] = "queued" /\ h # r /\ h \notin Holding /\ h \notin Running
    BY <2>2 DEF NoLostWakeup, Holding, Running
  <2>4. Holding' = (Holding \ {r}) \cup {h}
    BY <2>1, <2>2, <2>3 DEF Holding, TypeOK
  <2>5. Cardinality(Holding') = Cardinality(Holding)
    BY <1>1, <2>3, <2>4, Swap
  <2>6. Running' = IF CliLane THEN Running \ {r} ELSE (Running \ {r}) \cup {h}
    BY <2>1, <2>2, <2>3 DEF Running, TypeOK
  <2>7. Cardinality((Running \ {r}) \cup {h}) = Cardinality(Running)
    BY <1>1, <2>3, Swap
  <2>8. PermitAccounting' /\ current' \in Nat /\ activeJobs' \in Nat
    BY <1>1, <1>2, <2>1, <2>5, <2>6, <2>7 DEF PermitAccounting, TypeOK
  <2>9. pc' \in [Requests -> Points] /\ queue' \in Seq(Requests)
    <3>1. pc' \in [Requests -> Points]
      BY <2>1, <2>2 DEF TypeOK
    <3>2. queue' \in Seq(Requests)
      BY <2>1, <1>4 DEF TypeOK
    <3> QED
      BY <3>1, <3>2
  <2>10. /\ Len(queue') = Len(queue) - 1
         /\ \A i \in 1 .. Len(queue') : queue'[i] = queue[i + 1]
    BY <1>4, <2>1, <2>2 DEF TypeOK
  <2>11. NoLostWakeup'
    <3>1. queue' # <<>> => current' = MaxConcurrency
      BY <1>4, <2>1 DEF NoLostWakeup
    <3>2. \A i, j \in 1 .. Len(queue') : queue'[i] = queue'[j] => i = j
      BY <2>2, <2>10 DEF NoLostWakeup
    <3>3. ASSUME NEW x \in Requests
          PROVE  pc'[x] = "queued" <=> \E i \in 1 .. Len(queue') : queue'[i] = x
      <4>1. CASE x = r
        <5>1. \A i \in 1 .. Len(queue) : queue[i] # r
          BY DEF NoLostWakeup
        <5> QED
          BY <4>1, <5>1, <2>1, <2>2, <2>3, <2>10 DEF TypeOK
      <4>2. CASE x = h
        <5>1. pc'[h] # "queued"
          BY <2>1, <2>2, <2>3 DEF TypeOK
        <5>2. \A i \in 1 .. Len(queue') : queue'[i] # h
          BY <2>2, <2>10 DEF NoLostWakeup
        <5> QED
          BY <4>2, <5>1, <5>2
      <4>3. CASE x # r /\ x # h
        <5>1. pc'[x] = pc[x]
          BY <4>3, <2>1 DEF TypeOK
        <5>2. ASSUME pc[x] = "queued"
              PROVE  \E i \in 1 .. Len(queue') : queue'[i] = x
          <6>1. PICK i \in 1 .. Len(queue) : queue[i] = x
            BY <5>2 DEF NoLostWakeup
          <6>2. i - 1 \in 1 .. Len(queue')
            BY <6>1, <4>3, <2>2, <2>10
          <6>3. queue'[i - 1] = x
            BY <6>1, <6>2, <2>2, <2>10
          <6> QED
            BY <6>2, <6>3
        <5>3. ASSUME NEW i \in 1 .. Len(queue'), queue'[i] = x
              PROVE  pc[x] = "queued"
          BY <5>3, <2>2, <2>10 DEF NoLostWakeup
        <5> QED
          BY <5>1, <5>2, <5>3
      <4> QED
        BY <4>1, <4>2, <4>3
    <3> QED
      BY <3>1, <3>2, <3>3 DEF NoLostWakeup
  <2> QED
    BY <2>8, <2>9, <2>11
<1> QED
  BY <1>3, <1>4

-----------------------------------------------------------------------------

\* The inductive invariant of the semaphore.
LaneInv == TypeOK /\ PermitAccounting /\ NoLostWakeup

LEMMA InitLaneInv == Init => LaneInv
<1> SUFFICES ASSUME Init PROVE LaneInv
  OBVIOUS
<1>1. TypeOK
  <2>1. breaker \in [Models -> Breakers]
    BY LaneAssumption DEF LaneAssumption, Init, FreshBreaker, Breakers, States
  <2> QED
    BY <2>1, LaneAssumption DEF LaneAssumption, Init, TypeOK, Points
<1>2. PermitAccounting
  <2>1. Holding = {} /\ Running = {}
    BY DEF Init, Holding, Running
  <2> QED
    BY <2>1, FS_EmptySet, LaneAssumption DEF LaneAssumption, Init, PermitAccounting
<1>3. NoLostWakeup
  BY DEF Init, NoLostWakeup
<1> QED
  BY <1>1, <1>2, <1>3 DEF LaneInv

\* A step that leaves the positions, the semaphore and the job counter alone
\* keeps the lane's invariant if it is well typed.
LEMMA LaneUntouched ==
  ASSUME LaneInv, TypeOK', UNCHANGED <<pc, current, queue, activeJobs, leaked>>
  PROVE  LaneInv'
<1>1. Holding' = Holding /\ Running' = Running
  BY DEF Holding, Running
<1>2. PermitAccounting'
  BY <1>1 DEF LaneInv, PermitAccounting
<1>3. NoLostWakeup'
  BY DEF LaneInv, NoLostWakeup
<1> QED
  BY <1>2, <1>3 DEF LaneInv

LEMMA AdmitNowKeepsLane ==
  ASSUME LaneInv, NEW r \in Requests, NEW m \in Models, AdmitNow(r, m)
  PROVE  LaneInv'
<1> USE DEF LaneInv
<1>1. TypeOK'
  <2>1. breaker' \in [Models -> Breakers]
    BY BreakerTypes DEF AdmitNow, TypeOK
  <2>2. pc' \in [Requests -> Points]
    BY DEF AdmitNow, TypeOK, Points, Granted
  <2> QED
    BY <2>1, <2>2 DEF AdmitNow, TypeOK
<1>2. /\ Holding' = Holding \cup {r} /\ r \notin Holding
      /\ Running' = IF CliLane THEN Running ELSE Running \cup {r}
      /\ r \notin Running
  BY DEF AdmitNow, Holding, Running, TypeOK, Granted
<1>3. /\ Cardinality(Holding \cup {r}) = Cardinality(Holding) + 1
      /\ Cardinality(Running \cup {r}) = Cardinality(Running) + 1
      /\ Cardinality(Holding) \in Nat
  BY <1>2, FiniteSets, FS_AddElement
<1>4. PermitAccounting'
  BY <1>2, <1>3, LaneAssumption, SMTT(30)
     DEF LaneAssumption, AdmitNow, PermitAccounting, TypeOK
<1>5. queue = <<>>
  BY LaneAssumption DEF LaneAssumption, AdmitNow, NoLostWakeup, TypeOK
<1>6. NoLostWakeup'
  BY <1>5 DEF AdmitNow, NoLostWakeup, TypeOK, Granted
<1> QED
  BY <1>1, <1>4, <1>6

LEMMA AdmitQueuedKeepsLane ==
  ASSUME LaneInv, NEW r \in Requests, NEW m \in Models, AdmitQueued(r, m)
  PROVE  LaneInv'
<1> USE DEF LaneInv
<1>1. TypeOK'
  <2>1. breaker' \in [Models -> Breakers]
    BY BreakerTypes DEF AdmitQueued, TypeOK
  <2>2. pc' \in [Requests -> Points]
    BY DEF AdmitQueued, TypeOK, Points
  <2>3. queue' \in Seq(Requests)
    BY DEF AdmitQueued, TypeOK
  <2> QED
    BY <2>1, <2>2, <2>3 DEF AdmitQueued, TypeOK
<1>2. Holding' = Holding /\ Running' = Running
  BY DEF AdmitQueued, Holding, Running, TypeOK
<1>3. PermitAccounting'
  BY <1>2 DEF AdmitQueued, PermitAccounting
<1>4. /\ Len(queue') = Len(queue) + 1
      /\ queue'[Len(queue) + 1] = r
      /\ \A i \in 1 .. Len(queue) : queue'[i] = queue[i]
      /\ Len(queue) \in Nat
  BY DEF AdmitQueued, TypeOK
<1>5. \A i \in 1 .. Len(queue) : queue[i] # r
  BY DEF AdmitQueued, NoLostWakeup
<1>6. current' = MaxConcurrency
  BY LaneAssumption DEF LaneAssumption, AdmitQueued, PermitAccounting, TypeOK
<1>7. \A i, j \in 1 .. Len(queue') : queue'[i] = queue'[j] => i = j
  BY <1>4, <1>5 DEF NoLostWakeup
<1>8. ASSUME NEW x \in Requests
      PROVE  pc'[x] = "queued" <=> \E i \in 1 .. Len(queue') : queue'[i] = x
  <2>1. CASE x = r
    BY <2>1, <1>4 DEF AdmitQueued, TypeOK
  <2>2. CASE x # r
    <3>1. pc'[x] = pc[x]
      BY <2>2 DEF AdmitQueued, TypeOK
    <3> QED
      BY <2>2, <3>1, <1>4 DEF NoLostWakeup
  <2> QED
    BY <2>1, <2>2
<1>9. NoLostWakeup'
  BY <1>6, <1>7, <1>8 DEF NoLostWakeup
<1> QED
  BY <1>1, <1>3, <1>9

LEMMA QueueTimeoutKeepsLane ==
  ASSUME LaneInv, NEW r \in Requests, QueueTimeout(r)
  PROVE  LaneInv'
<1> USE DEF LaneInv
<1>1. PICK k \in 1 .. Len(queue) : queue[k] = r /\ queue' = Without(queue, k)
  BY DEF QueueTimeout
<1>2. /\ queue' \in Seq(Requests)
      /\ Len(queue') = Len(queue) - 1
      /\ \A i \in 1 .. Len(queue') :
           queue'[i] = IF i < k THEN queue[i] ELSE queue[i + 1]
      /\ Len(queue) \in Nat
  <2>1. queue \in Seq(Requests) /\ Len(queue) \in Nat
    BY DEF TypeOK
  <2>2. /\ Without(queue, k) \in Seq(Requests)
        /\ Len(Without(queue, k)) = Len(queue) - 1
        /\ \A i \in 1 .. Len(queue) - 1 :
             Without(queue, k)[i] = IF i < k THEN queue[i] ELSE queue[i + 1]
    BY <2>1, WithoutSeq
  <2> QED
    BY <1>1, <2>1, <2>2
<1>3. TypeOK'
  BY <1>2 DEF QueueTimeout, TypeOK, Points, breakerVars
<1>4. Holding' = Holding /\ Running' = Running
  BY DEF QueueTimeout, Holding, Running, TypeOK
<1>5. PermitAccounting'
  BY <1>4 DEF QueueTimeout, PermitAccounting
<1>6. queue' # <<>> => current' = MaxConcurrency
  BY <1>1 DEF QueueTimeout, NoLostWakeup, TypeOK
<1>7. \A i, j \in 1 .. Len(queue') : queue'[i] = queue'[j] => i = j
  BY <1>2 DEF NoLostWakeup
<1>8. ASSUME NEW x \in Requests
      PROVE  pc'[x] = "queued" <=> \E i \in 1 .. Len(queue') : queue'[i] = x
  <2>1. CASE x = r
    <3>1. \A i \in 1 .. Len(queue') : queue'[i] # r
      BY <1>1, <1>2 DEF NoLostWakeup
    <3> QED
      BY <2>1, <3>1 DEF QueueTimeout, TypeOK
  <2>2. CASE x # r
    <3>1. pc'[x] = pc[x]
      BY <2>2 DEF QueueTimeout, TypeOK
    <3>2. ASSUME pc[x] = "queued"
          PROVE  \E i \in 1 .. Len(queue') : queue'[i] = x
      <4>1. PICK i \in 1 .. Len(queue) : queue[i] = x
        BY <3>2 DEF NoLostWakeup
      <4>2. CASE i < k
        <5>1. i \in 1 .. Len(queue') /\ queue'[i] = x
          BY <4>1, <4>2, <1>2
        <5> QED
          BY <5>1
      <4>3. CASE i > k
        <5>1. i - 1 \in 1 .. Len(queue') /\ queue'[i - 1] = x
          BY <4>1, <4>3, <1>2
        <5> QED
          BY <5>1
      <4>4. i # k
        BY <4>1, <1>1, <2>2
      <4> QED
        BY <4>2, <4>3, <4>4
    <3>3. ASSUME NEW i \in 1 .. Len(queue'), queue'[i] = x
          PROVE  pc[x] = "queued"
      BY <3>3, <1>2 DEF NoLostWakeup
    <3> QED
      BY <3>1, <3>2, <3>3
  <2> QED
    BY <2>1, <2>2
<1>9. NoLostWakeup'
  BY <1>6, <1>7, <1>8 DEF NoLostWakeup
<1> QED
  BY <1>3, <1>5, <1>9

LEMMA PrepareKeepsLane ==
  ASSUME LaneInv, NEW r \in Requests, PrepareOk(r) \/ PrepareFails(r)
  PROVE  LaneInv'
<1> USE DEF LaneInv
<1>1. r \in Holding /\ r \notin Running
  BY DEF PrepareOk, PrepareFails, Holding, Running
<1>2. /\ Cardinality(Holding \ {r}) = Cardinality(Holding) - 1
      /\ Cardinality(Running \cup {r}) = Cardinality(Running) + 1
      /\ Cardinality(Holding) \in Nat /\ Cardinality(Running) \in Nat
  BY <1>1, FiniteSets, FS_AddElement, FS_RemoveElement
<1>3. TypeOK'
  <2>1. CASE PrepareOk(r)
    BY <2>1 DEF PrepareOk, TypeOK, Points, breakerVars
  <2>2. CASE PrepareFails(r)
    BY <2>2 DEF PrepareFails, TypeOK, Points, breakerVars
  <2> QED
    BY <2>1, <2>2
<1>4. NoLostWakeup'
  <2>1. \A x \in Requests : pc'[x] = "queued" <=> pc[x] = "queued"
    BY DEF PrepareOk, PrepareFails, TypeOK
  <2> QED
    BY <2>1 DEF PrepareOk, PrepareFails, NoLostWakeup
<1>5. CASE PrepareOk(r)
  <2>1. Holding' = Holding /\ Running' = Running \cup {r}
    BY <1>5 DEF PrepareOk, Holding, Running, TypeOK
  <2> QED
    BY <1>2, <1>3, <1>4, <1>5, <2>1 DEF PrepareOk, PermitAccounting
<1>6. CASE PrepareFails(r)
  <2>1. Holding' = Holding \ {r} /\ Running' = Running
    BY <1>6 DEF PrepareFails, Holding, Running, TypeOK
  <2> QED
    BY <1>2, <1>3, <1>4, <1>6, <2>1 DEF PrepareFails, PermitAccounting, TypeOK
<1> QED
  BY <1>5, <1>6

LEMMA SettleKeepsLane ==
  ASSUME LaneInv, NEW r \in Requests, Settle(r)
  PROVE  LaneInv'
<1> USE DEF LaneInv
<1>1. /\ pc[r] = "running" /\ ReleaseAndEnd(r)
      /\ leaked' = leaked /\ model' = model
  BY DEF Settle, Succeed, Fail, FailInstantly, CallerTimeout
<1>2. /\ pc' \in [Requests -> Points] /\ queue' \in Seq(Requests)
      /\ current' \in Nat /\ activeJobs' \in Nat
      /\ PermitAccounting' /\ NoLostWakeup'
  BY <1>1, ReleaseKeepsLane
<1>3. breaker' \in [Models -> Breakers]
  <2>1. model[r] \in Models /\ breaker[model[r]] \in Breakers
    BY DEF TypeOK
  <2>2. CASE Succeed(r)
    BY <2>1, <2>2, BreakerTypes DEF Succeed, TypeOK
  <2>3. CASE Fail(r)
    BY <2>1, <2>3, BreakerTypes DEF Fail, TypeOK
  <2>4. CASE FailInstantly(r)
    BY <2>1, <2>4, BreakerTypes DEF FailInstantly, TypeOK
  <2>5. CASE CallerTimeout(r)
    BY <2>5 DEF CallerTimeout, TypeOK, breakerVars
  <2> QED
    BY <2>2, <2>3, <2>4, <2>5 DEF Settle
<1>4. strikes' \in [Models -> 0 .. Threshold]
  BY LaneAssumption DEF LaneAssumption, Bump, Settle, Succeed, Fail,
     FailInstantly, CallerTimeout, TypeOK, breakerVars
<1> QED
  BY <1>1, <1>2, <1>3, <1>4 DEF TypeOK

\* Time passing and an administrator's reset concern the breakers only.
LEMMA BreakerStepsKeepLane ==
  ASSUME LaneInv,
         (\E m \in Models : CooldownElapses(m) \/ ResetModel(m)) \/ ResetAll
  PROVE  LaneInv'
<1>1. UNCHANGED <<pc, model, current, queue, activeJobs, leaked>>
  BY DEF CooldownElapses, ResetModel, ResetAll, laneVars
<1>2. breaker' \in [Models -> Breakers]
  <2>1. FreshBreaker \in Breakers
    BY LaneAssumption DEF LaneAssumption, FreshBreaker, Breakers, States
  <2>2. CASE \E m \in Models : CooldownElapses(m)
    <3>1. PICK m \in Models : breaker' = [breaker EXCEPT ![m].cooled = TRUE]
      BY <2>2 DEF CooldownElapses
    <3>2. \A b \in Breakers : [b EXCEPT !.cooled = TRUE] \in Breakers
      BY DEF Breakers
    <3> QED
      BY <3>1, <3>2 DEF LaneInv, TypeOK
  <2>3. CASE \E m \in Models : ResetModel(m)
    BY <2>1, <2>3 DEF ResetModel, LaneInv, TypeOK
  <2>4. CASE ResetAll
    BY <2>1, <2>4 DEF ResetAll
  <2> QED
    BY <2>2, <2>3, <2>4
<1>3. strikes' \in [Models -> 0 .. Threshold]
  <2>1. 0 \in 0 .. Threshold
    BY LaneAssumption DEF LaneAssumption
  <2>2. CASE \E m \in Models : CooldownElapses(m)
    BY <2>2 DEF CooldownElapses, LaneInv, TypeOK
  <2>3. CASE \E m \in Models : ResetModel(m)
    BY <2>1, <2>3 DEF ResetModel, LaneInv, TypeOK
  <2>4. CASE ResetAll
    BY <2>1, <2>4 DEF ResetAll
  <2> QED
    BY <2>2, <2>3, <2>4
<1>4. TypeOK'
  BY <1>1, <1>2, <1>3 DEF LaneInv, TypeOK
<1> QED
  BY <1>1, <1>4, LaneUntouched

LEMMA NextKeepsLane == LaneInv /\ [Next]_vars => LaneInv'
<1> SUFFICES ASSUME LaneInv, [Next]_vars PROVE LaneInv'
  OBVIOUS
<1>1. ASSUME NEW r \in Requests, NEW m \in Models, RejectOpen(r, m)
      PROVE  LaneInv'
  <2>1. TypeOK' /\ UNCHANGED <<pc, current, queue, activeJobs, leaked>>
    BY <1>1 DEF RejectOpen, vars, laneVars, breakerVars, LaneInv, TypeOK
  <2> QED
    BY <2>1, LaneUntouched
<1>2. ASSUME NEW r \in Requests, NEW m \in Models, AdmitNow(r, m)
      PROVE  LaneInv'
  BY <1>2, AdmitNowKeepsLane
<1>3. ASSUME NEW r \in Requests, NEW m \in Models, AdmitQueued(r, m)
      PROVE  LaneInv'
  BY <1>3, AdmitQueuedKeepsLane
<1>4. ASSUME NEW r \in Requests, QueueTimeout(r)
      PROVE  LaneInv'
  BY <1>4, QueueTimeoutKeepsLane
<1>5. ASSUME NEW r \in Requests, PrepareOk(r) \/ PrepareFails(r)
      PROVE  LaneInv'
  BY <1>5, PrepareKeepsLane
<1>6. ASSUME NEW r \in Requests,
             Succeed(r) \/ Fail(r) \/ FailInstantly(r) \/ CallerTimeout(r)
      PROVE  LaneInv'
  BY <1>6, SettleKeepsLane DEF Settle
<1>7. CASE (\E m \in Models : CooldownElapses(m) \/ ResetModel(m)) \/ ResetAll
  BY <1>7, BreakerStepsKeepLane
<1>8. CASE UNCHANGED vars
  <2>1. TypeOK' /\ UNCHANGED <<pc, current, queue, activeJobs, leaked>>
    BY <1>8 DEF vars, laneVars, breakerVars, LaneInv, TypeOK
  <2> QED
    BY <2>1, LaneUntouched
<1> QED
  BY <1>1, <1>2, <1>3, <1>4, <1>5, <1>6, <1>7, <1>8 DEF Next

\* On every reachable state of every lane the semaphore's count is exact and
\* within the cap, and nobody waits while a permit is free.
THEOREM LaneSafe == Spec => [](TypeOK /\ PermitAccounting /\ NoLostWakeup)
BY InitLaneInv, NextKeepsLane, PTL DEF Spec, LaneInv

\* The semaphore's hand-over alone: whichever requests arrive, give up or
\* return, none stays queued beside a free permit.
THEOREM NoWakeupLost == Spec => []NoLostWakeup
BY LaneSafe, PTL

-----------------------------------------------------------------------------

\* While a breaker is closed its failure count is the evidence itself.
CountIsEvidence ==
  \A m \in Models : breaker[m].state = "closed" => breaker[m].failures = strikes[m]

EvidenceInv == TypeOK /\ BreakerFollowsEvidence /\ CountIsEvidence

LEMMA InitEvidence == Init => EvidenceInv
BY InitLaneInv, LaneAssumption DEF LaneAssumption, LaneInv, Init, EvidenceInv,
   BreakerFollowsEvidence, CountIsEvidence, FreshBreaker

\* Every step keeps each breaker in line with the evidence against its model.
LEMMA NextKeepsEvidence ==
  EvidenceInv /\ TypeOK' /\ [Next]_vars => EvidenceInv'
<1> SUFFICES ASSUME EvidenceInv, TypeOK', [Next]_vars PROVE EvidenceInv'
  OBVIOUS
<1> DEFINE InLine(b, n) == /\ b.state = "closed" <=> n < Threshold
                           /\ b.state = "closed" => b.failures = n
<1>1. /\ \A m \in Models : InLine(breaker[m], strikes[m])
      /\ \A m \in Models : breaker[m] \in Breakers /\ strikes[m] \in 0 .. Threshold
  BY DEF EvidenceInv, TypeOK, BreakerFollowsEvidence, CountIsEvidence
<1>2. ASSUME NEW b \in Breakers, NEW n \in 0 .. Threshold, InLine(b, n)
      PROVE  /\ InLine(AfterCheck(b), n)
             /\ InLine(RecordSuccess(b), 0)
             /\ InLine(RecordFailure(b), Bump(n))
             /\ InLine(RecordInstantOpen(b), Threshold)
             /\ InLine(FreshBreaker, 0)
  BY <1>2, LaneAssumption DEF LaneAssumption, AfterCheck, RecordSuccess,
     RecordFailure, RecordInstantOpen, FreshBreaker, Bump, Breakers, States
<1>3. SUFFICES \A m \in Models : InLine(breaker'[m], strikes'[m])
  BY DEF EvidenceInv, BreakerFollowsEvidence, CountIsEvidence
<1> HIDE DEF InLine
<1>4. ASSUME NEW r \in Requests, NEW m \in Models,
             AdmitNow(r, m) \/ AdmitQueued(r, m)
      PROVE  \A x \in Models : InLine(breaker'[x], strikes'[x])
  <2>1. breaker' = [breaker EXCEPT ![m] = AfterCheck(breaker[m])] /\ strikes' = strikes
    BY <1>4 DEF AdmitNow, AdmitQueued
  <2> QED
    BY <1>1, <1>2, <2>1 DEF EvidenceInv, TypeOK
<1>5. ASSUME NEW r \in Requests, Settle(r)
      PROVE  \A x \in Models : InLine(breaker'[x], strikes'[x])
  <2> DEFINE m == model[r]
  <2>1. m \in Models
    BY DEF EvidenceInv, TypeOK
  <2>2. CASE Succeed(r)
    <3>1. /\ breaker' = [breaker EXCEPT ![m] = RecordSuccess(breaker[m])]
          /\ strikes' = [strikes EXCEPT ![m] = 0]
      BY <2>2 DEF Succeed
    <3> QED
      BY <1>1, <1>2, <2>1, <3>1 DEF EvidenceInv, TypeOK
  <2>3. CASE Fail(r)
    <3>1. /\ breaker' = [breaker EXCEPT ![m] = RecordFailure(breaker[m])]
          /\ strikes' = [strikes EXCEPT ![m] = Bump(strikes[m])]
      BY <2>3 DEF Fail
    <3> QED
      BY <1>1, <1>2, <2>1, <3>1 DEF EvidenceInv, TypeOK
  <2>4. CASE FailInstantly(r)
    <3>1. /\ breaker' = [breaker EXCEPT ![m] = RecordInstantOpen(breaker[m])]
          /\ strikes' = [strikes EXCEPT ![m] = Threshold]
      BY <2>4 DEF FailInstantly
    <3> QED
      BY <1>1, <1>2, <2>1, <3>1 DEF EvidenceInv, TypeOK
  <2>5. CASE CallerTimeout(r)
    BY <1>1, <2>5 DEF CallerTimeout, breakerVars
  <2> QED
    BY <1>5, <2>2, <2>3, <2>4, <2>5 DEF Settle
<1>6. ASSUME NEW m \in Models, CooldownElapses(m)
      PROVE  \A x \in Models : InLine(breaker'[x], strikes'[x])
  BY <1>1, <1>6 DEF CooldownElapses, EvidenceInv, TypeOK, Breakers, InLine
<1>7. ASSUME NEW m \in Models, ResetModel(m)
      PROVE  \A x \in Models : InLine(breaker'[x], strikes'[x])
  BY <1>1, <1>2, <1>7 DEF ResetModel, EvidenceInv, TypeOK
<1>8. CASE ResetAll
  BY <1>1, <1>2, <1>8 DEF ResetAll
<1>9. CASE UNCHANGED <<breaker, strikes>>
  BY <1>1, <1>9
<1> QED
  BY <1>4, <1>5, <1>6, <1>7, <1>8, <1>9 DEF Next, RejectOpen, QueueTimeout,
     PrepareOk, PrepareFails, Settle, vars, breakerVars

\* In whatever order the requests of a model settle, its breaker is closed
\* exactly when the outcomes since its last success give no reason to open it.
THEOREM BreakerSound == Spec => []BreakerFollowsEvidence
<1>1. Init => LaneInv /\ EvidenceInv
  BY InitLaneInv, InitEvidence
<1>2. LaneInv /\ EvidenceInv /\ [Next]_vars => LaneInv' /\ EvidenceInv'
  BY NextKeepsLane, NextKeepsEvidence DEF LaneInv
<1>3. EvidenceInv => BreakerFollowsEvidence
  BY DEF EvidenceInv
<1> QED
  BY <1>1, <1>2, <1>3, PTL DEF Spec

=============================================================================
