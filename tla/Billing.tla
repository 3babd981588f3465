------------------------------ MODULE Billing ------------------------------
(***************************************************************************)
(* The credits of one API key: its balance, its reservations, its ledger   *)
(* and its request intents (BillingService), the execute() calls that open *)
(* and settle intents around a provider dispatch (ConnectorsService), and  *)
(* the hourly maintenance job that sweeps, purges and reconciles           *)
(* (BillingReconcilerService).                                             *)
(*                                                                         *)
(* Every step below is one database transaction or one statement.  The     *)
(* transactions run at Read Committed, but each one decides on a guarded   *)
(* UPDATE or under a row lock, so it is one atomic step; reverse() is the  *)
(* exception and has the module Reversal.  What a call or the job read     *)
(* earlier (a handle, a list of expired holds, a list of orphans) is kept  *)
(* in its own variable and may be stale when it is used.                   *)
(*                                                                         *)
(* Early returns that change nothing (insufficient credit, a replay, an    *)
(* in-flight conflict, a payload mismatch) are not steps.  Time is kept as *)
(* facts about rows: a hold is due, an intent is aged, a Request row is    *)
(* fresh, ripe (past the grace period) or stale (past the window).         *)
(***************************************************************************)
EXTENDS UnitSums

CONSTANTS
  Calls,            \* execute() calls that can be in progress at once
  Ids,              \* ids of RequestIntent rows, each used for one insert
  Rows,             \* ids of Request rows, each used for one insert
  Keys,             \* idempotency keys
  Deposits,         \* idempotency keys of credits, gifts and payments
  Amounts,          \* amounts a deposit may have
  Estimates,        \* what estimateRequestCost may answer
  Costs,            \* what one provider attempt may cost
  MaxAttempts,      \* CONNECTOR_MAX_RETRIES + 1
  TtlAttempts,      \* how many attempts at full length a hold's TTL covers
  Enforcement,      \* what billingEnforced may answer, call by call
  ReconcileEnabled, \* BILLING_RECONCILE_ENABLED
  None              \* no intent, no row

ASSUME BillingAssumption ==
  /\ Estimates \subseteq Nat
  /\ Costs \subseteq Nat
  /\ Amounts \subseteq Nat \ {0}
  /\ MaxAttempts \in Nat \ {0}
  /\ TtlAttempts \in Nat \ {0}
  /\ Enforcement \subseteq BOOLEAN
  /\ ReconcileEnabled \in BOOLEAN
  /\ None \notin Ids \cup Rows

VARIABLES
  balance,  \* credits_balance.balance_usd
  held,     \* credits_balance.held_usd
  ledger,   \* credits_ledger: a function from the idempotency keys posted
  intent,   \* request_intents, by id
  request,  \* the Request table, by id
  call,     \* the execute() calls
  job       \* the maintenance job

vars == <<balance, held, ledger, intent, request, call, job>>

NoIntent == [state |-> "none", key |-> None, hold |-> 0,
             due |-> FALSE, aged |-> FALSE]
NoRequest == [age |-> "none", cost |-> 0, chargeable |-> FALSE, id |-> None]
NoCall == [pc |-> "idle", id |-> None, hold |-> 0, reclaimed |-> FALSE,
           attempt |-> 0, recovered |-> 0]
NoJob == [pc |-> "idle", sweep |-> {}, orphans |-> {}]

-----------------------------------------------------------------------------
(* The ledger *)

IntentKey(i) == <<"intent", i>>                    \* ledgerKeyForIntent
IntentWriteOff(i) == <<"uncollectible", i>>        \* writeOffKeyForIntent
RequestKey(q) == <<"request", q>>
RequestWriteOff(q) == <<"uncollectible-request", q>>
DepositKey(d) == <<"deposit", d>>
ReversalKey(d) == <<"reversal", d>>
UnrecoveredKey(d) == <<"unrecovered", d>>

LedgerKeys ==
  {IntentKey(i) : i \in Ids} \cup {IntentWriteOff(i) : i \in Ids}
    \cup {RequestKey(q) : q \in Rows} \cup {RequestWriteOff(q) : q \in Rows}
    \cup {DepositKey(d) : d \in Deposits} \cup {ReversalKey(d) : d \in Deposits}
    \cup {UnrecoveredKey(d) : d \in Deposits}

Posted == DOMAIN ledger

\* The ledger l with one more row.
Post(l, k, amount, q) ==
  [x \in DOMAIN l \cup {k} |->
     IF x = k THEN [amount |-> amount, request |-> q] ELSE l[x]]

\* l with a row only when there is something to write off.
PostIfPositive(l, k, amount, q) ==
  IF amount > 0 THEN Post(l, k, amount, q) ELSE l

\* Mutant of Charge: the balance stops at zero and nothing is written off.
ChargeWithoutWriteOff(k, writeOff, amount, q) ==
  /\ k \notin Posted
  /\ ledger' = Post(ledger, k, -amount, q)
  /\ balance' = balance - AtMost(amount, balance)

\* chargeInTx: the charge in full, the part the balance cannot cover written
\* off, the balance down by the rest.  A key already posted aborts.
Charge(k, writeOff, amount, q) ==
  LET collectible == AtMost(amount, balance)
  IN  /\ k \notin Posted
      /\ ledger' = PostIfPositive(Post(ledger, k, -amount, q), writeOff,
                                  amount - collectible, q)
      /\ balance' = balance - collectible

-----------------------------------------------------------------------------
(* Intents *)

Live(i) == intent[i].state \notin {"none", "purged"}

\* openRequestIntent estimates only when billing is enforced.
Reservations == {h \in Estimates \cup {0} : \E enforced \in Enforcement :
                   IF enforced THEN h \in Estimates ELSE h = 0}

\* Mutant of CanReserve: credit already held counts as available.
CanReserveHeldCredit(h) == h > 0 => balance >= h

\* reserveInTx succeeds: a zero hold needs no reservation.
CanReserve(h) == h > 0 => balance - held >= h

\* releaseHoldInTx.
HeldAfterRelease(h) == AtLeast(held - h, 0)

\* Mutant of Release: the update is not guarded by the row's state.
ReleaseUnguarded(i, h, state) ==
  /\ intent' = [intent EXCEPT ![i].state = state]
  /\ held' = HeldAfterRelease(h)

\* The guarded update of releaseIntent and releaseIntentInTx, with the hold
\* the caller's handle carries: whoever moves the row off held moves the money.
Release(i, h, state) ==
  IF intent[i].state = "held"
  THEN /\ intent' = [intent EXCEPT ![i].state = state]
       /\ held' = HeldAfterRelease(h)
  ELSE UNCHANGED <<intent, held>>

\* openIntent inserts the row and reserves the estimate.
OpenIntent(c, i, k, h) ==
  /\ call[c].pc = "idle"
  /\ intent[i].state = "none"
  /\ \A j \in Ids : Live(j) => intent[j].key # k
  /\ CanReserve(h)
  /\ intent' = [intent EXCEPT ![i] = [state |-> "held", key |-> k, hold |-> h,
                                      due |-> FALSE, aged |-> FALSE]]
  /\ held' = held + h
  /\ call' = [call EXCEPT ![c] = [pc |-> "dispatch", id |-> i, hold |-> h,
                                  reclaimed |-> FALSE, attempt |-> 1,
                                  recovered |-> 0]]
  /\ UNCHANGED <<balance, ledger, request, job>>

\* resolveReplay reads an abandoned row under the key and decides to reclaim.
FindAbandoned(c, i, h) ==
  /\ call[c].pc = "idle"
  /\ intent[i].state \in {"released", "expired"}
  /\ call' = [call EXCEPT ![c] = [pc |-> "reclaim", id |-> i, hold |-> h,
                                  reclaimed |-> TRUE, attempt |-> 1,
                                  recovered |-> 0]]
  /\ UNCHANGED <<balance, held, ledger, intent, request, job>>

\* Mutant of Reclaim: the row is taken whatever state it has reached since.
ReclaimUnguarded(c) ==
  LET i == call[c].id
      h == call[c].hold
  IN  /\ call[c].pc = "reclaim"
      /\ CanReserve(h)
      /\ intent' = [intent EXCEPT ![i].state = "held", ![i].hold = h,
                                  ![i].due = FALSE]
      /\ held' = held + h
      /\ call' = [call EXCEPT ![c].pc = "dispatch"]
      /\ UNCHANGED <<balance, ledger, request, job>>

\* reclaimIntent's transaction.  created_at, and with it aged, stays.
Reclaim(c) ==
  LET i == call[c].id
      h == call[c].hold
  IN  /\ call[c].pc = "reclaim"
      /\ intent[i].state \in {"released", "expired"}
      /\ CanReserve(h)
      /\ intent' = [intent EXCEPT ![i].state = "held", ![i].hold = h,
                                  ![i].due = FALSE]
      /\ held' = held + h
      /\ call' = [call EXCEPT ![c].pc = "dispatch"]
      /\ UNCHANGED <<balance, ledger, request, job>>

\* Another caller was first, the row was purged, or the hold is rejected.
ReclaimRefused(c) ==
  /\ call[c].pc = "reclaim"
  /\ \/ intent[call[c].id].state \notin {"released", "expired"}
     \/ ~CanReserve(call[c].hold)
  /\ call' = [call EXCEPT ![c] = NoCall]
  /\ UNCHANGED <<balance, held, ledger, intent, request, job>>

\* Billing is dark and the caller sent no key: no intent.
OpenWithoutIntent(c) ==
  /\ FALSE \in Enforcement
  /\ call[c].pc = "idle"
  /\ call' = [call EXCEPT ![c] = [pc |-> "dispatch", id |-> None, hold |-> 0,
                                  reclaimed |-> FALSE, attempt |-> 1,
                                  recovered |-> 0]]
  /\ UNCHANGED <<balance, held, ledger, intent, request, job>>

-----------------------------------------------------------------------------
(* Dispatch and settlement *)

\* A retryable failure: what the attempt consumed is carried forward.
RetryAttempt(c, cost) ==
  /\ call[c].pc = "dispatch"
  /\ call[c].attempt < MaxAttempts
  /\ call' = [call EXCEPT ![c].attempt = @ + 1, ![c].recovered = @ + cost]
  /\ UNCHANGED <<balance, held, ledger, intent, request, job>>

InsertRequest(q, cost, chargeable, i) ==
  /\ request[q].age = "none"
  /\ request' = [request EXCEPT ![q] = [age |-> "fresh", cost |-> cost,
                                        chargeable |-> chargeable, id |-> i]]

\* persistAndSettle for an answer that is stored for replay: one transaction
\* writes the Request row and settles it.
Settle(c, q, cost, chargeable) ==
  LET i == call[c].id
      total == call[c].recovered + cost
      owed == IF chargeable THEN total ELSE 0
  IN  /\ call[c].pc = "dispatch"
      /\ InsertRequest(q, total, chargeable, i)
      /\ IF i = None
         THEN /\ Charge(RequestKey(q), RequestWriteOff(q), owed, q)
              /\ UNCHANGED <<held, intent>>
         ELSE IF intent[i].state = "held"
         THEN /\ intent' = [intent EXCEPT ![i].state = "completed"]
              /\ held' = HeldAfterRelease(call[c].hold)
              /\ Charge(IntentKey(i), IntentWriteOff(i), owed, q)
         ELSE UNCHANGED <<balance, held, ledger, intent>>
      /\ call' = [call EXCEPT ![c] = NoCall]
      /\ UNCHANGED job

\* Mutant of SettleRetryGranted: the aborted attempt is charged as well.
SettleRetryGrantedCharges(c, q, cost) ==
  LET i == call[c].id
  IN  /\ call[c].pc = "dispatch"
      /\ i # None
      /\ ~call[c].reclaimed
      /\ InsertRequest(q, cost, TRUE, i)
      /\ Release(i, call[c].hold, "released")
      /\ Charge(RequestKey(q), RequestWriteOff(q), cost, q)
      /\ call' = [call EXCEPT ![c] = NoCall]
      /\ UNCHANGED job

\* persistAndSettle for a timeout whose retry is granted: the row is recorded
\* and the intent released in the same transaction.  The row's cost source is
\* the unbillable estimate, unless an earlier attempt reported a cost.
SettleRetryGranted(c, q, cost) ==
  LET i == call[c].id
      recovered == call[c].recovered
  IN  /\ call[c].pc = "dispatch"
      /\ i # None
      /\ ~call[c].reclaimed
      /\ IF recovered > 0
         THEN InsertRequest(q, recovered, TRUE, i)
         ELSE InsertRequest(q, cost, FALSE, i)
      /\ Release(i, call[c].hold, "released")
      /\ call' = [call EXCEPT ![c] = NoCall]
      /\ UNCHANGED <<balance, ledger, job>>

\* The dispatch throws, or the settling transaction fails and rolls back: the
\* hold is handed back by releaseIntent.
GiveUp(c) ==
  LET i == call[c].id
  IN  /\ call[c].pc = "dispatch"
      /\ IF i = None THEN UNCHANGED <<held, intent>>
                     ELSE Release(i, call[c].hold, "released")
      /\ call' = [call EXCEPT ![c] = NoCall]
      /\ UNCHANGED <<balance, ledger, request, job>>

\* The process dies, or the release fails too: the handle is gone.
Abandon(c) ==
  /\ call[c].pc # "idle"
  /\ call' = [call EXCEPT ![c] = NoCall]
  /\ UNCHANGED <<balance, held, ledger, intent, request, job>>

-----------------------------------------------------------------------------
(* Maintenance *)

\* Mutant of SweepRead: expires_at > now instead of expires_at < now.
SweepReadUndue ==
  /\ job.pc = "idle"
  /\ job' = [job EXCEPT
       !.pc = "sweep",
       !.sweep = {[id |-> i, hold |-> intent[i].hold] :
                    i \in {j \in Ids : intent[j].state = "held"
                                         /\ ~intent[j].due}}]
  /\ UNCHANGED <<balance, held, ledger, intent, request, call>>

\* sweepExpiredIntents reads the expired holds and makes a handle of each.
SweepRead ==
  /\ job.pc = "idle"
  /\ job' = [job EXCEPT
       !.pc = "sweep",
       !.sweep = {[id |-> i, hold |-> intent[i].hold] :
                    i \in {j \in Ids : intent[j].state = "held"
                                         /\ intent[j].due}}]
  /\ UNCHANGED <<balance, held, ledger, intent, request, call>>

SweepOne(x) ==
  /\ job.pc = "sweep"
  /\ x \in job.sweep
  /\ Release(x.id, x.hold, "expired")
  /\ job' = [job EXCEPT !.sweep = @ \ {x}]
  /\ UNCHANGED <<balance, ledger, request, call>>

\* purgeSettledIntents: one DELETE over the whole table.
Purge ==
  /\ job.pc = "sweep"
  /\ job.sweep = {}
  /\ intent' = [i \in Ids |->
       IF /\ intent[i].state \in {"completed", "released", "expired"}
          /\ intent[i].aged
       THEN [intent[i] EXCEPT !.state = "purged"]
       ELSE intent[i]]
  /\ job' = [job EXCEPT !.pc = IF ReconcileEnabled THEN "scan" ELSE "idle"]
  /\ UNCHANGED <<balance, held, ledger, request, call>>

\* The sweep or the purge throws: the rest of the two is skipped.
MaintenanceFails ==
  /\ job.pc = "sweep"
  /\ job' = [job EXCEPT !.pc = IF ReconcileEnabled THEN "scan" ELSE "idle",
                        !.sweep = {}]
  /\ UNCHANGED <<balance, held, ledger, intent, request, call>>

\* Mutant of Unsettled: the anti-join looks for the request's own key only.
UnsettledByKey(q) ==
  /\ request[q].age = "ripe"
  /\ request[q].cost > 0
  /\ request[q].chargeable
  /\ RequestKey(q) \notin Posted

\* findUnsettled: the anti-join against the ledger.
Unsettled(q) ==
  /\ request[q].age = "ripe"
  /\ request[q].cost > 0
  /\ request[q].chargeable
  /\ \A k \in Posted : ledger[k].request # q

FindUnsettled ==
  /\ job.pc = "scan"
  /\ job' = [job EXCEPT !.pc = "reconcile",
                        !.orphans = {q \in Rows : Unsettled(q)}]
  /\ UNCHANGED <<balance, held, ledger, intent, request, call>>

\* settle absorbs a duplicate key; another failure leaves the row for later.
ReconcileOne(q) ==
  /\ job.pc = "reconcile"
  /\ q \in job.orphans
  /\ \/ Charge(RequestKey(q), RequestWriteOff(q), request[q].cost, q)
     \/ UNCHANGED <<balance, ledger>>
  /\ job' = [job EXCEPT !.orphans = @ \ {q}]
  /\ UNCHANGED <<held, intent, request, call>>

ReconcileDone ==
  /\ job.pc = "reconcile"
  /\ job.orphans = {}
  /\ job' = [job EXCEPT !.pc = "idle"]
  /\ UNCHANGED <<balance, held, ledger, intent, request, call>>

-----------------------------------------------------------------------------
(* Funds in and out *)

\* credit, gift and recordPayment all end in post(); a replayed key is a no-op.
Deposit(d, amount) ==
  /\ DepositKey(d) \notin Posted
  /\ ledger' = Post(ledger, DepositKey(d), amount, None)
  /\ balance' = balance + amount
  /\ UNCHANGED <<held, intent, request, call, job>>

\* Mutant of Reverse: the refund is taken out of held credit too.
ReverseHeldCredit(d) ==
  /\ DepositKey(d) \in Posted
  /\ ReversalKey(d) \notin Posted
  /\ LET amount == ledger[DepositKey(d)].amount
         recovered == AtMost(amount, balance)
     IN  /\ ledger' = PostIfPositive(
                        Post(ledger, ReversalKey(d), -amount, None),
                        UnrecoveredKey(d), amount - recovered, None)
         /\ balance' = balance - recovered
  /\ UNCHANGED <<held, intent, request, call, job>>

\* reverse() of a whole deposit: recovery stops at the spendable balance.
Reverse(d) ==
  /\ DepositKey(d) \in Posted
  /\ ReversalKey(d) \notin Posted
  /\ LET amount == ledger[DepositKey(d)].amount
         recovered == AtMost(amount, AtLeast(balance - held, 0))
     IN  /\ ledger' = PostIfPositive(
                        Post(ledger, ReversalKey(d), -amount, None),
                        UnrecoveredKey(d), amount - recovered, None)
         /\ balance' = balance - recovered
  /\ UNCHANGED <<held, intent, request, call, job>>

-----------------------------------------------------------------------------
(* Time *)

\* A hold's TTL passes: only if its owner is gone, or has been at it for more
\* attempts than the TTL covers.
HoldExpires(i) ==
  /\ intent[i].state = "held"
  /\ ~intent[i].due
  /\ \A c \in Calls : (call[c].pc = "dispatch" /\ call[c].id = i)
                        => call[c].attempt > TtlAttempts
  /\ intent' = [intent EXCEPT ![i].due = TRUE]
  /\ UNCHANGED <<balance, held, ledger, request, call, job>>

IntentAges(i) ==
  /\ Live(i)
  /\ ~intent[i].aged
  /\ intent' = [intent EXCEPT ![i].aged = TRUE]
  /\ UNCHANGED <<balance, held, ledger, request, call, job>>

\* Only the reconciler looks at the age of a Request row.
RequestAges(q) ==
  /\ ReconcileEnabled
  /\ \/ request[q].age = "fresh" /\ request' = [request EXCEPT ![q].age = "ripe"]
     \/ request[q].age = "ripe" /\ request' = [request EXCEPT ![q].age = "stale"]
  /\ UNCHANGED <<balance, held, ledger, intent, call, job>>

-----------------------------------------------------------------------------

Init ==
  /\ balance = 0
  /\ held = 0
  /\ ledger = [k \in {} |-> NoRequest]
  /\ intent = [i \in Ids |-> NoIntent]
  /\ request = [q \in Rows |-> NoRequest]
  /\ call = [c \in Calls |-> NoCall]
  /\ job = NoJob

CallStep(c) ==
  \/ \E i \in Ids, k \in Keys, h \in Reservations : OpenIntent(c, i, k, h)
  \/ \E i \in Ids, h \in Reservations : FindAbandoned(c, i, h)
  \/ Reclaim(c)
  \/ ReclaimRefused(c)
  \/ OpenWithoutIntent(c)
  \/ \E cost \in Costs : RetryAttempt(c, cost)
  \/ \E q \in Rows, cost \in Costs, chargeable \in BOOLEAN :
       Settle(c, q, cost, chargeable)
  \/ \E q \in Rows, cost \in Costs : SettleRetryGranted(c, q, cost)
  \/ GiveUp(c)
  \/ Abandon(c)

JobStep ==
  \/ SweepRead
  \/ \E x \in job.sweep : SweepOne(x)
  \/ Purge
  \/ MaintenanceFails
  \/ FindUnsettled
  \/ \E q \in job.orphans : ReconcileOne(q)
  \/ ReconcileDone

FundsStep ==
  \E d \in Deposits : Reverse(d) \/ \E amount \in Amounts : Deposit(d, amount)

TimeStep ==
  \/ \E i \in Ids : HoldExpires(i) \/ IntentAges(i)
  \/ \E q \in Rows : RequestAges(q)

Next == (\E c \in Calls : CallStep(c)) \/ JobStep \/ FundsStep \/ TimeStep

Spec == Init /\ [][Next]_vars

-----------------------------------------------------------------------------
(* Properties *)

IntentStates == {"none", "held", "completed", "released", "expired", "purged"}

Handles == [id : Ids, hold : Nat]

\* Type invariant.
TypeOK ==
  /\ balance \in Nat
  /\ held \in Nat
  /\ Posted \subseteq LedgerKeys
  /\ ledger \in [Posted -> [amount : Int, request : Rows \cup {None}]]
  /\ intent \in [Ids -> [state : IntentStates, key : Keys \cup {None},
                         hold : Nat, due : BOOLEAN, aged : BOOLEAN]]
  /\ request \in [Rows -> [age : {"none", "fresh", "ripe", "stale"},
                           cost : Nat, chargeable : BOOLEAN,
                           id : Ids \cup {None}]]
  /\ call \in [Calls -> [pc : {"idle", "reclaim", "dispatch"},
                         id : Ids \cup {None}, hold : Nat,
                         reclaimed : BOOLEAN, attempt : Nat, recovered : Nat]]
  /\ job.pc \in {"idle", "sweep", "scan", "reconcile"}
  /\ job.sweep \subseteq Handles
  /\ job.orphans \subseteq Rows

Gains(l) == [k \in DOMAIN l |-> l[k].amount]
Losses(l) == [k \in DOMAIN l |-> 0 - l[k].amount]
LedgerSum(l) == Total(DOMAIN l, Gains(l)) - Total(DOMAIN l, Losses(l))

\* The comment of chargeInTx: "balance_usd = SUM(amount_usd) and balance_usd
\* >= 0" at once, whatever a charge or a reversal exceeds.
Books == balance = LedgerSum(ledger) /\ balance >= 0

HeldIds == {i \in Ids : intent[i].state = "held"}
Holds == [i \in Ids |-> intent[i].hold]

\* held_usd is exactly what the intents in state held reserved: no
\* interleaving of settle, release, sweep and reclaim frees a hold twice or
\* leaves funds frozen with no intent to free them.
HoldsBacked == held = Total(HeldIds, Holds)

\* An intent is completed exactly when its charge is posted, so a key that is
\* reclaimed was never charged and its settlement cannot meet a posted key
\* (which would abort the transaction that records the request).
CompletedIsCharged ==
  \A i \in Ids :
    /\ intent[i].state = "completed" => IntentKey(i) \in Posted
    /\ IntentKey(i) \in Posted => intent[i].state \in {"completed", "purged"}

ChargesOf(q) ==
  {k \in Posted : ledger[k].request = q /\ k \in
     {RequestKey(q)} \cup {IntentKey(i) : i \in Ids}}

\* A request is charged at most once, by the call that made it or by the
\* reconciler, although the two use different ledger keys.
RequestChargedOnce == \A q \in Rows : Cardinality(ChargesOf(q)) <= 1

\* "one provider call, one ledger row, however many times the client
\* re-POSTs": of all requests made under one intent at most one costs money.
OneChargePerKey ==
  \A i \in Ids :
    Cardinality({q \in Rows : /\ request[q].id = i
                              /\ \E k \in ChargesOf(q) : ledger[k].amount < 0})
      <= 1

\* No charge so far exceeded the hold that was reserved for it.
NoOverrun ==
  /\ \A i \in Ids : IntentKey(i) \in Posted
                       => ledger[IntentKey(i)].amount + intent[i].hold >= 0
  /\ \A q \in Rows : RequestKey(q) \in Posted
                       => ledger[RequestKey(q)].amount = 0

\* The point of the hold: while no charge overruns its estimate, concurrent
\* calls and refunds never reserve or spend the same credit twice, so every
\* hold is covered and nothing is written off.
HoldsCovered ==
  NoOverrun => /\ held <= balance
               /\ \A i \in Ids : IntentWriteOff(i) \notin Posted

\* Posted rows are never changed or removed, and a completed intent stays
\* completed until it is purged, whatever stale handle a sweeper or a slow
\* call still carries.
SettledIsFinal ==
  [][/\ \A k \in Posted : k \in DOMAIN ledger' /\ ledger'[k] = ledger[k]
     /\ \A i \in Ids : intent[i].state = "completed"
                          => intent'[i].state \in {"completed", "purged"}]_vars

\* The account as its owner sees it.
Reserved == [i \in HeldIds |-> intent[i].hold]
Closed == {i \in Ids : IntentKey(i) \in Posted}
BillOf(q) == 0 - ledger[CHOOSE k \in ChargesOf(q) : TRUE].amount
Bill == [q \in {r \in Rows : ChargesOf(r) # {}} |-> BillOf(q)]
Paid == [d \in {e \in Deposits : DepositKey(e) \in Posted} |-> ledger[DepositKey(d)].amount]
Refunded == {d \in Deposits : ReversalKey(d) \in Posted}

Account == INSTANCE Settlement
             WITH reserved <- Reserved, closed <- Closed, bill <- Bill,
                  paid <- Paid, refunded <- Refunded

\* Every step of a call, of the maintenance job or of the funds is one step of
\* the account Settlement promises, or does not show in it: holds are exactly
\* the open reservations although releases go by a handle read earlier, and no
\* request is billed twice although two parties bill it under two keys.
ImplementsSettlement == Account!Spec

\* What ends a dispatch whose process lives on.
Finish(c) ==
  \/ \E q \in Rows, cost \in Costs, chargeable \in BOOLEAN :
       Settle(c, q, cost, chargeable)
  \/ \E q \in Rows, cost \in Costs : SettleRetryGranted(c, q, cost)
  \/ GiveUp(c)

\* Provider attempts are bounded by timeouts, the job runs every hour, time
\* passes, and database failures do not strike the same row forever.
Fairness ==
  /\ \A c \in Calls : WF_vars(Reclaim(c) \/ ReclaimRefused(c))
                         /\ WF_vars(Finish(c))
  /\ \A i \in Ids : WF_vars(HoldExpires(i))
  /\ WF_vars(SweepRead) /\ WF_vars(Purge)
  /\ WF_vars(FindUnsettled) /\ WF_vars(ReconcileDone)
  /\ \A q \in Rows : WF_vars(ReconcileOne(q))
  /\ \A i \in Ids, h \in Reservations : SF_vars(SweepOne([id |-> i, hold |-> h]))

FairSpec == Spec /\ Fairness

\* A hold whose owner died is given back: no intent stays held forever.
FundsNotFrozen ==
  \A i \in Ids : intent[i].state = "held" ~> intent[i].state # "held"

=============================================================================
