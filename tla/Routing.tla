------------------------------ MODULE Routing ------------------------------
(***************************************************************************)
(* The loops around a connector call, from the inside out: the output      *)
(* guard's repair loop (OutputGuardMiddleware.wrapExecute), the retry loop *)
(* of ConnectorsService.execute with the usage it carries forward, and the *)
(* two chains that call it once per hop: runFailoverChain, and the cascade *)
(* with its in-memory daily budget for the paid tier.                      *)
(*                                                                         *)
(* A connector call is one step that takes some time and reports some      *)
(* cost; what happens inside it is the subject of ConnectorLane, and what  *)
(* is done with the metered cost that of Billing.  Time is per chain.  No  *)
(* route streams today, so a chunk is never sent and is left out.          *)
(***************************************************************************)
EXTENDS UnitSums, Sequences

CONSTANTS
  Chains,         \* client requests in progress at once
  Candidates,     \* the candidate list: a tier and a transport type each
  Kinds,          \* the routes in use: "direct", "failover", "cascade"
  Guarded,        \* the requests that may carry output_format
  Deadline,       \* CHAIN_DEADLINE_MS
  OwnTimeout,     \* the per-attempt budget of a connector
  QueueTimeout,   \* CONNECTOR_QUEUE_TIMEOUT_MS
  MaxBackoff,     \* the longest pause between two attempts
  MaxAttempts,    \* CONNECTOR_MAX_RETRIES + 1
  GuardAttempts,  \* OUTPUT_GUARD_MAX_RETRIES + 1
  MaxCost,        \* the most one provider call reports
  Budget          \* CASCADE_PAID_DAILY_BUDGET_USD

ASSUME RoutingAssumption ==
  /\ IsFiniteSet(Chains)
  /\ Candidates \in Seq([tier : {"free", "paid"}, type : {"api", "cli"}])
  /\ Candidates # <<>>
  /\ Kinds \subseteq {"direct", "failover", "cascade"}
  /\ Guarded \subseteq Chains
  /\ {Deadline, OwnTimeout, MaxAttempts, GuardAttempts} \subseteq Nat \ {0}
  /\ {QueueTimeout, MaxBackoff, MaxCost, Budget} \subseteq Nat

VARIABLES
  chain,   \* the requests
  daily,   \* dailyPaidCostUsd
  newDay   \* budgetResetDate is not today's UTC date any more

vars == <<chain, daily, newDay>>

Hops == 1 .. Len(Candidates)
CallCosts == 0 .. MaxCost

\* The attempts execute() makes of one connector: a failover hop sends
\* maxRetries 0.
Attempts(kind) == IF kind = "failover" THEN 1 ELSE MaxAttempts

Paid(r) == r.kind = "cascade" /\ Candidates[r.hop].tier = "paid"

Idle ==
  [pc |-> "idle", kind |-> "direct", guarded |-> FALSE, hop |-> 1,
   elapsed |-> 0, timeout |-> 0, attempt |-> 1, guard |-> 1,
   recovered |-> 0, spent |-> 0, unmetered |-> 0, cliTimedOut |-> FALSE]

\* A request that has been answered; its loops' variables are gone.
Ended(r) ==
  [r EXCEPT !.pc = "idle", !.hop = 1, !.timeout = 0, !.attempt = 1, !.guard = 1,
            !.recovered = 0]

Remaining(r) == Deadline - r.elapsed

\* Mutant of CapHopTimeout: the time left does not count.
CapHopTimeoutOwn(own, remaining) == own

CapHopTimeout(own, remaining) == AtLeast(1, AtMost(own, remaining))

-----------------------------------------------------------------------------
(* Entering a chain and its hops. *)

\* resetDailyBudgetIfNeeded, which only the entry of a cascade calls.
ResetDailyBudgetIfNeeded(kind) ==
  IF kind = "cascade"
  THEN /\ daily' = IF newDay THEN 0 ELSE daily
       /\ newDay' = FALSE
  ELSE UNCHANGED <<daily, newDay>>

\* A chain starts at its first candidate; a direct call names its connector.
\* The OpenAI-compatible route has no output_format.
Start(c, kind, guarded, hop) ==
  /\ chain[c].pc = "idle"
  /\ guarded => c \in Guarded /\ kind # "failover"
  /\ kind # "direct" => hop = 1
  /\ ResetDailyBudgetIfNeeded(kind)
  /\ chain' = [chain EXCEPT ![c] =
       [Idle EXCEPT !.pc = IF kind = "direct" THEN "call" ELSE "hop",
                    !.kind = kind, !.guarded = guarded, !.hop = hop,
                    !.timeout = IF kind = "direct" THEN OwnTimeout ELSE 0]]

\* The key's policy leaves no candidate: an answer without any hop, given
\* after the reset.
Refuse(c, kind) ==
  /\ chain[c].pc = "idle"
  /\ ResetDailyBudgetIfNeeded(kind)
  /\ UNCHANGED chain

Midnight ==
  /\ newDay' = TRUE
  /\ UNCHANGED <<chain, daily>>

DeadlineSpent(r) == Remaining(r) < 1

\* Mutant of BudgetSpent: the limit is not looked at.
BudgetSpentIgnored(r) == FALSE

BudgetSpent(r) == Paid(r) /\ daily >= Budget

\* ChainDeadlineError, or CascadeBudgetExceededError.
StopBeforeHop(c) ==
  /\ chain[c].pc = "hop"
  /\ DeadlineSpent(chain[c]) \/ BudgetSpent(chain[c])
  /\ chain' = [chain EXCEPT ![c] = Ended(@)]
  /\ UNCHANGED <<daily, newDay>>

Dispatch(c) ==
  /\ chain[c].pc = "hop"
  /\ ~DeadlineSpent(chain[c])
  /\ ~BudgetSpent(chain[c])
  /\ chain' = [chain EXCEPT ![c] =
       [@ EXCEPT !.pc = "call", !.attempt = 1, !.guard = 1,
                 !.timeout = CapHopTimeout(OwnTimeout, Remaining(chain[c])),
                 !.recovered = 0, !.unmetered = 0]]
  /\ UNCHANGED <<daily, newDay>>

-----------------------------------------------------------------------------
(* One connector call and what is done with its response. *)

\* What a connector call can end with, how long it can have taken, its wait for
\* a permit included, and what it can report.  Transient stands for the
\* RETRYABLE_ERRORS.  A timeout need not be ours: a CLI's own message that it
\* timed out is classified the same.
Transient == "transient"
Errors == {Transient, "queue_timeout", "circuit_open", "timeout", "abort"}

CallTimes(timeout) == 0 .. QueueTimeout + timeout

FailureTimes(e, timeout) ==
  IF e = "queue_timeout" THEN {QueueTimeout}
  ELSE IF e = "circuit_open" THEN {0} ELSE CallTimes(timeout)

Reports(e) ==
  IF e \in {"timeout", "queue_timeout", "circuit_open"} THEN {0} ELSE CallCosts

\* The record after a call that took t and reported cost.  Only a chain has a
\* clock: nothing measures a direct request as a whole.
After(r, t, cost) ==
  [r EXCEPT !.elapsed = IF r.kind = "direct" THEN 0 ELSE @ + t,
            !.spent = @ + cost]

\* The usage of the response execute() returns: the last response's own and
\* what the retried attempts reported.
Metered(r, cost) == r.recovered + cost

\* The record once the response is metered: what of the calls' reported usage
\* it does not contain is kept in unmetered.
Settled(r, t, cost) ==
  [After(r, t, cost) EXCEPT !.unmetered = r.spent + cost - Metered(r, cost),
                            !.spent = 0]

\* The attempt succeeds and the guard, if there is one, accepts the answer.
\* The cascade adds the whole request's cost to the day.
CallSucceeds(c, t, cost) ==
  /\ chain[c].pc = "call"
  /\ chain' = [chain EXCEPT ![c] = Ended(Settled(@, t, cost))]
  /\ daily' = IF Paid(chain[c]) THEN daily + Metered(chain[c], cost) ELSE daily
  /\ UNCHANGED newDay

\* The guard cannot repair the answer and asks again with a correction
\* prompt: lastResponse is overwritten by the next answer.
GuardRejects(c, t, cost) ==
  /\ chain[c].pc = "call"
  /\ chain[c].guarded
  /\ chain[c].guard < GuardAttempts
  /\ chain' = [chain EXCEPT ![c] =
       [After(@, t, cost) EXCEPT !.guard = chain[c].guard + 1]]
  /\ UNCHANGED <<daily, newDay>>

\* Mutant of TimeoutAdvances: a timeout advances on every transport.
TimeoutAdvancesAlways(type) == TRUE

TimeoutAdvances(type) == type = "api"

\* chainShouldAdvance.
ChainShouldAdvance(e, type) ==
  \/ e \in {Transient, "queue_timeout", "circuit_open"}
  \/ e = "timeout" /\ TimeoutAdvances(type)

\* Where a request goes when its call has not succeeded: the next hop, or out.
NextHop(r, advance) ==
  IF r.kind # "direct" /\ advance /\ r.hop < Len(Candidates)
  THEN [r EXCEPT !.pc = "hop", !.hop = @ + 1]
  ELSE Ended(r)

\* The last answer the guard asked for is no better: guard_exhausted, which
\* no loop retries.
GuardExhausted(c, t, cost) ==
  /\ chain[c].pc = "call"
  /\ chain[c].guarded
  /\ chain[c].guard = GuardAttempts
  /\ chain' = [chain EXCEPT ![c] = NextHop(Settled(@, t, cost), FALSE)]
  /\ UNCHANGED <<daily, newDay>>

\* Mutants of RetryCall: the usage of the retried attempt is not carried
\* forward; one attempt too many.
RetryCallForgets(c, t, cost, pause) ==
  /\ chain[c].pc = "call"
  /\ chain[c].attempt < Attempts(chain[c].kind)
  /\ chain' = [chain EXCEPT ![c] =
       [After(@, t + pause, cost) EXCEPT !.attempt = @ + 1, !.guard = 1]]
  /\ UNCHANGED <<daily, newDay>>

RetryCallOnceMore(c, t, cost, pause) ==
  /\ chain[c].pc = "call"
  /\ chain[c].attempt <= Attempts(chain[c].kind)
  /\ chain' = [chain EXCEPT ![c] =
       [After(@, t + pause, cost) EXCEPT
          !.attempt = chain[c].attempt + 1, !.guard = 1,
          !.recovered = chain[c].recovered + cost]]
  /\ UNCHANGED <<daily, newDay>>

\* A retryable error with attempts left: carry the usage forward, back off,
\* and call again; a guard starts over.
RetryCall(c, t, cost, pause) ==
  /\ chain[c].pc = "call"
  /\ chain[c].attempt < Attempts(chain[c].kind)
  /\ chain' = [chain EXCEPT ![c] =
       [After(@, t + pause, cost) EXCEPT
          !.attempt = chain[c].attempt + 1, !.guard = 1,
          !.recovered = chain[c].recovered + cost]]
  /\ UNCHANGED <<daily, newDay>>

\* execute() returns an error: settle it, then advance or stop.
CallFails(c, e, t, cost) ==
  LET r == chain[c]
      type == Candidates[r.hop].type
  IN /\ r.pc = "call"
     /\ e = Transient => r.attempt = Attempts(r.kind)
     /\ chain' = [chain EXCEPT ![c] =
          [NextHop(Settled(r, t, cost), ChainShouldAdvance(e, type))
             EXCEPT !.cliTimedOut = @ \/ (e = "timeout" /\ type = "cli")]]
     /\ UNCHANGED <<daily, newDay>>

\* execute() throws: no response, so nothing is metered; both chains go on.
CallThrows(c, t) ==
  /\ chain[c].pc = "call"
  /\ chain' = [chain EXCEPT ![c] =
       [NextHop(After(@, t, 0), TRUE) EXCEPT !.spent = 0]]
  /\ UNCHANGED <<daily, newDay>>

-----------------------------------------------------------------------------

Init ==
  /\ chain = [c \in Chains |-> Idle]
  /\ daily = 0
  /\ newDay = FALSE

CallReturns(c) ==
  \/ \E t \in CallTimes(chain[c].timeout) :
       \/ CallThrows(c, t)
       \/ \E cost \in CallCosts :
            \/ CallSucceeds(c, t, cost)
            \/ GuardRejects(c, t, cost)
            \/ GuardExhausted(c, t, cost)
            \/ \E pause \in 0 .. MaxBackoff : RetryCall(c, t, cost, pause)
  \/ \E e \in Errors : \E t \in FailureTimes(e, chain[c].timeout), cost \in Reports(e) :
       CallFails(c, e, t, cost)

Advance(c) == StopBeforeHop(c) \/ Dispatch(c)

Next ==
  \/ Midnight
  \/ \E c \in Chains :
       \/ \E kind \in Kinds :
            \/ \E guarded \in BOOLEAN, hop \in Hops : Start(c, kind, guarded, hop)
            \/ Refuse(c, kind)
       \/ Advance(c)
       \/ CallReturns(c)

Spec == Init /\ [][Next]_vars

-----------------------------------------------------------------------------
(* Properties. *)

\* Type invariant.
TypeOK ==
  /\ chain \in [Chains -> [pc : {"idle", "hop", "call"}, kind : {"direct", "failover", "cascade"},
                           guarded : BOOLEAN, hop : Hops, elapsed : Nat, timeout : Nat,
                           attempt : 1 .. MaxAttempts, guard : 1 .. GuardAttempts,
                           recovered : Nat, spent : Nat, unmetered : Nat,
                           cliTimedOut : BOOLEAN]]
  /\ daily \in Nat
  /\ newDay \in BOOLEAN

\* What a request is metered for is what its provider calls reported, the
\* attempts the retry loop threw away included (execute(), the merge of
\* recovered into the final usage).
EverythingMetered ==
  \A c \in Chains : chain[c].unmetered = 0

\* The same, of requests without an output guard.
UnguardedMetered ==
  \A c \in Chains : ~chain[c].guarded => chain[c].unmetered = 0

\* The most a hop can add to the day.
HopCost == MaxAttempts * MaxCost

\* The cascade compares the daily paid cost with its limit before a hop and
\* adds to it after: every chain that has passed the check when the limit is
\* reached can still add one hop, and no more than that.
BudgetOvershoot ==
  daily <= AtLeast(Budget - 1, 0) + Cardinality(Chains) * HopCost

\* The connector calls of one hop.
HopCalls(r) == Attempts(r.kind) * (IF r.guarded THEN GuardAttempts ELSE 1)

\* The deadline of a chain caps each connector call of a hop, not the wait
\* for a permit, the pauses and the repeated calls: a chain ends by then.
ChainOvershoot ==
  \A c \in Chains :
    LET r == chain[c]
    IN r.kind # "direct" =>
         r.elapsed <= Deadline + (HopCalls(r) - 1) * AtMost(OwnTimeout, Deadline)
                       + HopCalls(r) * QueueTimeout
                       + (Attempts(r.kind) - 1) * MaxBackoff

\* A CLI hop that timed out may have run tools: its chain sends the prompt to
\* no further connector (allowTimeoutAdvance of both routers).
StopsAfterCliTimeout ==
  \A c \in Chains : chain[c].cliTimedOut => chain[c].pc = "idle"

=============================================================================
