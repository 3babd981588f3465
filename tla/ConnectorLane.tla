--------------------------- MODULE ConnectorLane ---------------------------
(***************************************************************************)
(* One connector instance: the Semaphore that caps its concurrency, one    *)
(* CircuitBreaker per model, and the requests running through              *)
(* BaseApiConnector.execute or BaseCliConnector.execute.                   *)
(*                                                                         *)
(* Node runs callbacks one at a time, so the code between two awaits is    *)
(* one action.  execute has three awaits that matter: the semaphore, the   *)
(* scratch directory (CLI lane only) and the transport.                    *)
(*                                                                         *)
(* Time is abstracted to one bit per breaker: cooled is                    *)
(* "Date.now() > lastFailureTime + cooldownMs".                            *)
(***************************************************************************)
EXTENDS Naturals, Sequences, FiniteSets

CONSTANTS
  Requests,        \* request slots; a slot is reused after its request ends
  Models,          \* models of the connector, one breaker each
  MaxConcurrency,  \* {NAME}_MAX_CONCURRENCY
  Threshold,       \* CIRCUIT_BREAKER_THRESHOLD
  CliLane          \* TRUE for BaseCliConnector, FALSE for BaseApiConnector

ASSUME LaneAssumption ==
  /\ IsFiniteSet(Requests)
  /\ MaxConcurrency \in Nat \ {0}
  /\ Threshold \in Nat \ {0}
  /\ CliLane \in BOOLEAN

VARIABLES
  pc,         \* pc[r]: where request r is suspended
  model,      \* model[r]: the model of r's current (or last) request
  current,    \* Semaphore.current
  queue,      \* Semaphore.queue
  activeJobs, \* the connector's activeJobs counter
  breaker,    \* breaker[m]: state, consecutiveFailures, cooled
  strikes,    \* history: evidence against m since its last success or reset
  leaked      \* history: permits taken by requests that ended without release

laneVars == <<current, queue, activeJobs, leaked>>
breakerVars == <<breaker, strikes>>
vars == <<pc, model, laneVars, breakerVars>>

States == {"closed", "open", "half_open"}
Breakers == [state : States, failures : 0 .. Threshold, cooled : BOOLEAN]
Points == {"idle", "queued", "preparing", "running"}

-----------------------------------------------------------------------------
(* CircuitBreaker *)

\* Only "consecutiveFailures >= threshold" is ever read, so the count
\* saturates at the threshold.
Bump(n) == IF n < Threshold THEN n + 1 ELSE n

FreshBreaker == [state |-> "closed", failures |-> 0, cooled |-> TRUE]

CheckPasses(b) == b.state = "open" => b.cooled

AfterCheck(b) ==
  IF b.state = "open" /\ b.cooled THEN [b EXCEPT !.state = "half_open"] ELSE b

RecordSuccess(b) == [state |-> "closed", failures |-> 0, cooled |-> b.cooled]

RecordInstantOpen(b) ==
  [state |-> "open", failures |-> Threshold, cooled |-> FALSE]

RecordFailure(b) ==
  LET n == Bump(b.failures)
  IN  [state    |-> IF b.state = "half_open" \/ n >= Threshold
                    THEN "open" ELSE b.state,
       failures |-> n,
       cooled   |-> FALSE]

-----------------------------------------------------------------------------
(* Semaphore *)

\* The requests whose code stands between acquire and release.
Holding == {r \in Requests : pc[r] \in {"preparing", "running"}}
Running == {r \in Requests : pc[r] = "running"}

\* Where a request continues once it holds a permit.
Granted == IF CliLane THEN "preparing" ELSE "running"

\* q without its element at position k.
Without(q, k) ==
  [i \in 1 .. Len(q) - 1 |-> IF i < k THEN q[i] ELSE q[i + 1]]

\* Mutant of ReleaseAndEnd: the permit is returned but no waiter is woken.
ReleaseWithoutHandOver(r) ==
  /\ current' = current - 1
  /\ pc' = [pc EXCEPT ![r] = "idle"]
  /\ activeJobs' = activeJobs - 1
  /\ UNCHANGED queue

\* Mutant of ReleaseAndEnd: queue.pop() for queue.shift().
ReleaseToLastWaiter(r) ==
  IF queue = <<>>
  THEN ReleaseWithoutHandOver(r)
  ELSE /\ pc' = [pc EXCEPT ![r] = "idle", ![queue[Len(queue)]] = Granted]
       /\ queue' = SubSeq(queue, 1, Len(queue) - 1)
       /\ activeJobs' = IF CliLane THEN activeJobs - 1 ELSE activeJobs
       /\ UNCHANGED current

\* Semaphore.release by r, whose request ends: the permit goes straight to
\* the first waiter, whose execute then resumes.
ReleaseAndEnd(r) ==
  IF queue = <<>>
  THEN /\ current' = current - 1
       /\ pc' = [pc EXCEPT ![r] = "idle"]
       /\ activeJobs' = activeJobs - 1
       /\ UNCHANGED queue
  ELSE /\ pc' = [pc EXCEPT ![r] = "idle", ![Head(queue)] = Granted]
       /\ queue' = Tail(queue)
       /\ activeJobs' = IF CliLane THEN activeJobs - 1 ELSE activeJobs
       /\ UNCHANGED current

-----------------------------------------------------------------------------
(* execute, up to its first await *)

\* modelCb.check() throws: the request ends as circuit_open.
RejectOpen(r, m) ==
  /\ pc[r] = "idle"
  /\ ~CheckPasses(breaker[m])
  /\ UNCHANGED vars

\* check() passes and a permit is free.
AdmitNow(r, m) ==
  /\ pc[r] = "idle"
  /\ CheckPasses(breaker[m])
  /\ current < MaxConcurrency
  /\ breaker' = [breaker EXCEPT ![m] = AfterCheck(@)]
  /\ model' = [model EXCEPT ![r] = m]
  /\ current' = current + 1
  /\ pc' = [pc EXCEPT ![r] = Granted]
  /\ activeJobs' = IF CliLane THEN activeJobs ELSE activeJobs + 1
  /\ UNCHANGED <<queue, leaked, strikes>>

\* check() passes but all permits are taken: the request waits in line.
AdmitQueued(r, m) ==
  /\ pc[r] = "idle"
  /\ CheckPasses(breaker[m])
  /\ current >= MaxConcurrency
  /\ breaker' = [breaker EXCEPT ![m] = AfterCheck(@)]
  /\ model' = [model EXCEPT ![r] = m]
  /\ queue' = Append(queue, r)
  /\ pc' = [pc EXCEPT ![r] = "queued"]
  /\ UNCHANGED <<current, activeJobs, leaked, strikes>>

\* Mutant of QueueTimeout: the rejected waiter releases a permit it never had.
QueueTimeoutReleases(r) ==
  /\ pc[r] = "queued"
  /\ \E k \in 1 .. Len(queue) :
       /\ queue[k] = r
       /\ queue' = Without(queue, k)
  /\ pc' = [pc EXCEPT ![r] = "idle"]
  /\ current' = current - 1
  /\ UNCHANGED <<model, activeJobs, leaked, breakerVars>>

\* Mutant of QueueTimeout: the rejected waiter records a success.
QueueTimeoutCloses(r) ==
  /\ pc[r] = "queued"
  /\ \E k \in 1 .. Len(queue) :
       /\ queue[k] = r
       /\ queue' = Without(queue, k)
  /\ pc' = [pc EXCEPT ![r] = "idle"]
  /\ breaker' = [breaker EXCEPT ![model[r]] = RecordSuccess(@)]
  /\ UNCHANGED <<model, current, activeJobs, leaked, strikes>>

\* The queue timer fires before a permit arrives; nothing is recorded.
QueueTimeout(r) ==
  /\ pc[r] = "queued"
  /\ \E k \in 1 .. Len(queue) :
       /\ queue[k] = r
       /\ queue' = Without(queue, k)
  /\ pc' = [pc EXCEPT ![r] = "idle"]
  /\ UNCHANGED <<model, current, activeJobs, leaked, breakerVars>>

-----------------------------------------------------------------------------
(* The CLI lane's scratch directory, awaited with the permit in hand but   *)
(* before the try block whose finally releases it.                         *)

PrepareOk(r) ==
  /\ pc[r] = "preparing"
  /\ pc' = [pc EXCEPT ![r] = "running"]
  /\ activeJobs' = activeJobs + 1
  /\ UNCHANGED <<model, current, queue, leaked, breakerVars>>

PrepareFails(r) ==
  /\ pc[r] = "preparing"
  /\ pc' = [pc EXCEPT ![r] = "idle"]
  /\ leaked' = leaked + 1
  /\ UNCHANGED <<model, current, queue, activeJobs, breakerVars>>

-----------------------------------------------------------------------------
(* The transport settles: record the outcome, then the finally block.      *)

Succeed(r) ==
  /\ pc[r] = "running"
  /\ breaker' = [breaker EXCEPT ![model[r]] = RecordSuccess(@)]
  /\ strikes' = [strikes EXCEPT ![model[r]] = 0]
  /\ ReleaseAndEnd(r)
  /\ UNCHANGED <<model, leaked>>

\* HTTP error, provider error, parse error, network error, spawn error, or a
\* timeout of the connector's own budget.
Fail(r) ==
  /\ pc[r] = "running"
  /\ breaker' = [breaker EXCEPT ![model[r]] = RecordFailure(@)]
  /\ strikes' = [strikes EXCEPT ![model[r]] = Bump(@)]
  /\ ReleaseAndEnd(r)
  /\ UNCHANGED <<model, leaked>>

\* auth_error or binary_not_found.
FailInstantly(r) ==
  /\ pc[r] = "running"
  /\ breaker' = [breaker EXCEPT ![model[r]] = RecordInstantOpen(@)]
  /\ strikes' = [strikes EXCEPT ![model[r]] = Threshold]
  /\ ReleaseAndEnd(r)
  /\ UNCHANGED <<model, leaked>>

\* Mutant of CallerTimeout: the impatient caller is counted against the model.
CallerTimeoutCounts(r) ==
  /\ pc[r] = "running"
  /\ breaker' = [breaker EXCEPT ![model[r]] = RecordFailure(@)]
  /\ ReleaseAndEnd(r)
  /\ UNCHANGED <<model, leaked, strikes>>

\* A timeout while callerBudgetIsShorter: no evidence about the provider.
CallerTimeout(r) ==
  /\ pc[r] = "running"
  /\ ReleaseAndEnd(r)
  /\ UNCHANGED <<model, leaked, breakerVars>>

Settle(r) == Succeed(r) \/ Fail(r) \/ FailInstantly(r) \/ CallerTimeout(r)

-----------------------------------------------------------------------------
(* The environment: time, and the administrator.                           *)

CooldownElapses(m) ==
  /\ ~breaker[m].cooled
  /\ breaker' = [breaker EXCEPT ![m].cooled = TRUE]
  /\ UNCHANGED <<pc, model, laneVars, strikes>>

ResetModel(m) ==
  /\ breaker' = [breaker EXCEPT ![m] = FreshBreaker]
  /\ strikes' = [strikes EXCEPT ![m] = 0]
  /\ UNCHANGED <<pc, model, laneVars>>

ResetAll ==
  /\ breaker' = [m \in Models |-> FreshBreaker]
  /\ strikes' = [m \in Models |-> 0]
  /\ UNCHANGED <<pc, model, laneVars>>

-----------------------------------------------------------------------------

Init ==
  /\ pc = [r \in Requests |-> "idle"]
  /\ model \in [Requests -> Models]
  /\ current = 0
  /\ queue = <<>>
  /\ activeJobs = 0
  /\ breaker = [m \in Models |-> FreshBreaker]
  /\ strikes = [m \in Models |-> 0]
  /\ leaked = 0

Next ==
  \/ \E r \in Requests, m \in Models :
       RejectOpen(r, m) \/ AdmitNow(r, m) \/ AdmitQueued(r, m)
  \/ \E r \in Requests :
       \/ QueueTimeout(r)
       \/ PrepareOk(r) \/ PrepareFails(r)
       \/ Succeed(r) \/ Fail(r) \/ FailInstantly(r) \/ CallerTimeout(r)
  \/ \E m \in Models : CooldownElapses(m) \/ ResetModel(m)
  \/ ResetAll

Spec == Init /\ [][Next]_vars

\* AbortSignal.timeout bounds every fetch and a kill timer every spawned
\* process, so a running request always settles, and mkdtemp answers one way
\* or the other.  Nothing makes clients call or providers succeed, and the
\* queue timer is not needed for a waiter to leave the queue.
Fairness ==
  \A r \in Requests : /\ WF_vars(PrepareOk(r) \/ PrepareFails(r))
                       /\ WF_vars(Settle(r))

FairSpec == Spec /\ Fairness

-----------------------------------------------------------------------------
(* Properties *)

\* Type invariant of the lane.
TypeOK ==
  /\ pc \in [Requests -> Points]
  /\ model \in [Requests -> Models]
  /\ current \in Nat
  /\ queue \in Seq(Requests)
  /\ activeJobs \in Nat
  /\ breaker \in [Models -> Breakers]
  /\ strikes \in [Models -> 0 .. Threshold]
  /\ leaked \in Nat

\* The semaphore counts exactly the requests between acquire and release (and
\* the permits that were lost), never more than the cap, and activeJobs is the
\* number of transports in flight: hand-over in release, queue timeouts and
\* the finally blocks neither mint nor drop a permit.
PermitAccounting ==
  /\ current = Cardinality(Holding) + leaked
  /\ current <= MaxConcurrency
  /\ activeJobs = Cardinality(Running)

\* No lost wakeup: requests wait only while every permit is taken, and the
\* queue lists exactly the suspended requests, each once; a timed-out entry
\* never receives a permit.
NoLostWakeup ==
  /\ queue # <<>> => current = MaxConcurrency
  /\ \A r \in Requests :
       pc[r] = "queued" <=> \E i \in 1 .. Len(queue) : queue[i] = r
  /\ \A i, j \in 1 .. Len(queue) : queue[i] = queue[j] => i = j

\* A breaker is closed exactly when the outcomes since the model's last
\* success or reset are no evidence of a sick route: fewer than Threshold
\* failures, no instant-open error, and a caller's own short timeout counts
\* neither way.  This holds whatever order in-flight requests settle in.
BreakerFollowsEvidence ==
  \A m \in Models : breaker[m].state = "closed" <=> strikes[m] < Threshold

\* A request that waits for a permit leaves the queue even if its timer never
\* fires, because release hands permits over in order; only a lane that lost
\* every permit to failed scratch directories makes it wait for the timer.
QueueDrains ==
  \A r \in Requests :
    pc[r] = "queued" ~> (pc[r] # "queued" \/ leaked = MaxConcurrency)

\* An open breaker turns half_open only after its cooldown, and closes before
\* that only on a success of a request already in flight or an admin reset.
OpenIsSticky ==
  [][\A m \in Models :
       (breaker[m].state = "open" /\ breaker'[m].state # "open")
         => \/ breaker[m].cooled
            \/ breaker'[m] = FreshBreaker
            \/ \E r \in Running : model[r] = m /\ pc'[r] = "idle"]_vars

\* docs/architecture.md: "open - rejects all requests with circuit_open until
\* cooldown".  A waiter resumes without asking the breaker again.
NoDispatchWhileOpen ==
  [][\A r \in Requests :
       (pc[r] = "queued" /\ pc'[r] = Granted)
         => CheckPasses(breaker'[model[r]])]_vars

\* base-cli.connector.spec.ts: "semaphore was released despite error".  An
\* idle connector has every permit available.
PermitsReturned == (\A r \in Requests : pc[r] = "idle") => current = 0

=============================================================================
