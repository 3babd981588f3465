--------------------------- MODULE RoutingProofs ---------------------------
(***************************************************************************)
(* What the loops around a connector guarantee for any number of requests, *)
(* any candidate list and any limits.                                      *)
(*                                                                         *)
(* Sound is the inductive invariant of one request: usage carried forward  *)
(* is usage spent, in an unguarded request the two are equal, and neither  *)
(* survives the call.  It gives the type invariant, UnguardedMetered and   *)
(* StopsAfterCliTimeout.                                                   *)
(*                                                                         *)
(* The daily budget needs an invariant of all requests together: what the  *)
(* day has cost, plus a whole hop for every request in flight on a paid    *)
(* hop, stays within the bound.  A request joins only while the day is     *)
(* below the limit, and a success moves its hop's share from the second    *)
(* term to the first.                                                      *)
(***************************************************************************)
EXTENDS Routing, FiniteSetTheorems, TLAPS

Records ==
  [pc : {"idle", "hop", "call"}, kind : {"direct", "failover", "cascade"},
   guarded : BOOLEAN, hop : Hops, elapsed : Nat, timeout : Nat,
   attempt : 1 .. MaxAttempts, guard : 1 .. GuardAttempts,
   recovered : Nat, spent : Nat, unmetered : Nat, cliTimedOut : BOOLEAN]

Sound(r) ==
  /\ r \in Records
  /\ r.pc # "call" => r.spent = 0
  /\ r.pc = "call" => r.recovered <= r.spent
  /\ r.pc = "call" => r.recovered <= (r.attempt - 1) * MaxCost
  /\ r.pc = "call" /\ ~r.guarded => r.recovered = r.spent
  /\ ~r.guarded => r.unmetered = 0
  /\ r.cliTimedOut => r.pc = "idle"

AllSound == \A c \in Chains : Sound(chain[c])

\* The constants the records are started with are in their domains.
LEMMA Ones ==
  /\ 1 \in Hops /\ 1 \in 1 .. MaxAttempts /\ 1 \in 1 .. GuardAttempts
  /\ 0 \in Nat /\ MaxCost \in Nat /\ OwnTimeout \in Nat
  BY RoutingAssumption DEF RoutingAssumption, Hops

\* An answered request.
LEMMA EndedRecord ==
  ASSUME NEW r \in Records
  PROVE  /\ Ended(r) \in Records
         /\ Ended(r).pc = "idle"
         /\ Ended(r).guarded = r.guarded
         /\ Ended(r).spent = r.spent
         /\ Ended(r).unmetered = r.unmetered
         /\ Ended(r).cliTimedOut = r.cliTimedOut
  BY Ones, Zenon DEF Records, Ended

\* A request after one connector call.
LEMMA AfterRecord ==
  ASSUME NEW r \in Records, NEW t \in Nat, NEW cost \in Nat
  PROVE  /\ After(r, t, cost) \in Records
         /\ After(r, t, cost).pc = r.pc
         /\ After(r, t, cost).kind = r.kind
         /\ After(r, t, cost).hop = r.hop
         /\ After(r, t, cost).guarded = r.guarded
         /\ After(r, t, cost).attempt = r.attempt
         /\ After(r, t, cost).guard = r.guard
         /\ After(r, t, cost).recovered = r.recovered
         /\ After(r, t, cost).spent = r.spent + cost
         /\ After(r, t, cost).unmetered = r.unmetered
         /\ After(r, t, cost).cliTimedOut = r.cliTimedOut
<1>1. /\ (IF r.kind = "direct" THEN 0 ELSE r.elapsed + t) \in Nat
      /\ r.spent + cost \in Nat
  BY DEF Records
<1>2. QED
  BY <1>1, Zenon DEF After, Records

\* A request whose response has been metered: only what was not carried
\* forward is missing.
LEMMA SettledRecord ==
  ASSUME NEW r \in Records, NEW t \in Nat, NEW cost \in Nat, r.recovered <= r.spent
  PROVE  /\ Settled(r, t, cost) \in Records
         /\ Settled(r, t, cost).guarded = r.guarded
         /\ Settled(r, t, cost).hop = r.hop
         /\ Settled(r, t, cost).spent = 0
         /\ Settled(r, t, cost).unmetered = r.spent - r.recovered
         /\ Settled(r, t, cost).cliTimedOut = r.cliTimedOut
<1>1. /\ r.spent + cost - Metered(r, cost) = r.spent - r.recovered
      /\ r.spent - r.recovered \in Nat
  BY DEF Metered, Records
<1> DEFINE a == After(r, t, cost)
           u == r.spent - r.recovered
<1>2. Settled(r, t, cost) = [a EXCEPT !.unmetered = u, !.spent = 0]
  BY <1>1, Zenon DEF Settled
<1>3. /\ a \in Records /\ a.guarded = r.guarded /\ a.hop = r.hop
      /\ a.cliTimedOut = r.cliTimedOut
  BY AfterRecord
<1>4. u \in Nat
  BY <1>1
<1> HIDE DEF a, u
<1>5. /\ Settled(r, t, cost) \in Records
      /\ Settled(r, t, cost).guarded = r.guarded
      /\ Settled(r, t, cost).hop = r.hop
      /\ Settled(r, t, cost).spent = 0
      /\ Settled(r, t, cost).unmetered = u
      /\ Settled(r, t, cost).cliTimedOut = r.cliTimedOut
  BY <1>2, <1>3, <1>4, Ones, Zenon DEF Records
<1>6. QED
  BY <1>5 DEF u

\* A request whose call has not succeeded.
LEMMA NextHopRecord ==
  ASSUME NEW r \in Records, NEW a \in BOOLEAN
  PROVE  /\ NextHop(r, a) \in Records
         /\ NextHop(r, a).pc # "call"
         /\ NextHop(r, a).pc # "idle" => a
         /\ NextHop(r, a).guarded = r.guarded
         /\ NextHop(r, a).spent = r.spent
         /\ NextHop(r, a).unmetered = r.unmetered
         /\ NextHop(r, a).cliTimedOut = r.cliTimedOut
<1>1. r.hop < Len(Candidates) => r.hop + 1 \in Hops
  <2>1. r.hop \in Hops
    BY DEF Records
  <2>2. Len(Candidates) \in Nat
    BY RoutingAssumption DEF RoutingAssumption
  <2> QED
    BY <2>1, <2>2, SMT DEF Hops
<1>2. ASSUME r.kind # "direct" /\ a /\ r.hop < Len(Candidates)
      PROVE  /\ NextHop(r, a) \in Records
             /\ NextHop(r, a).pc = "hop"
             /\ NextHop(r, a).guarded = r.guarded
             /\ NextHop(r, a).spent = r.spent
             /\ NextHop(r, a).unmetered = r.unmetered
             /\ NextHop(r, a).cliTimedOut = r.cliTimedOut
  BY <1>1, <1>2, Zenon DEF NextHop, Records
<1>3. ASSUME ~(r.kind # "direct" /\ a /\ r.hop < Len(Candidates))
      PROVE  NextHop(r, a) = Ended(r)
  BY <1>3 DEF NextHop
<1>4. QED
  BY <1>2, <1>3, EndedRecord, Zenon

-----------------------------------------------------------------------------
(* One lemma per action: the request that moves stays sound. *)

\* A request that starts has spent and carried nothing.
LEMMA StartSound ==
  ASSUME NEW c \in Chains, chain \in [Chains -> Records],
         NEW kind \in Kinds, NEW guarded \in BOOLEAN, NEW hop \in Hops,
         Start(c, kind, guarded, hop)
  PROVE  Sound(chain'[c])
<1>1. kind \in {"direct", "failover", "cascade"}
  BY RoutingAssumption DEF RoutingAssumption
<1> DEFINE n == [pc |-> IF kind = "direct" THEN "call" ELSE "hop", kind |-> kind,
                 guarded |-> guarded, hop |-> hop, elapsed |-> 0,
                 timeout |-> IF kind = "direct" THEN OwnTimeout ELSE 0,
                 attempt |-> 1, guard |-> 1, recovered |-> 0, spent |-> 0,
                 unmetered |-> 0, cliTimedOut |-> FALSE]
<1>2. chain'[c] = n
  BY DEF Start, Idle
<1>3. n \in Records
  BY <1>1, Ones DEF Records
<1>4. QED
  BY <1>2, <1>3, Ones DEF Sound

\* execute() begins a hop with recovered at zero.
LEMMA DispatchSound ==
  ASSUME NEW c \in Chains, chain \in [Chains -> Records], Sound(chain[c]), Dispatch(c)
  PROVE  /\ Sound(chain'[c])
         /\ chain'[c].kind = chain[c].kind
         /\ chain'[c].hop = chain[c].hop
<1> DEFINE r == chain[c]
           cap == CapHopTimeout(OwnTimeout, Remaining(r))
           n == [r EXCEPT !.pc = "call", !.attempt = 1, !.guard = 1,
                          !.timeout = cap, !.recovered = 0, !.unmetered = 0]
<1>1. chain'[c] = n
  BY DEF Dispatch
<1>2. r \in Records
  OBVIOUS
<1>3. cap \in Nat
  BY <1>2, Ones, RoutingAssumption
     DEF RoutingAssumption, CapHopTimeout, Remaining, AtLeast, AtMost, Records
<1>4. /\ n \in Records
      /\ n.pc = "call" /\ n.kind = r.kind /\ n.hop = r.hop
      /\ n.guarded = r.guarded /\ n.attempt = 1 /\ n.recovered = 0
      /\ n.spent = r.spent /\ n.unmetered = 0 /\ n.cliTimedOut = r.cliTimedOut
  <2> HIDE DEF cap
  <2> QED
    BY <1>2, <1>3, Ones, Zenon DEF Records
<1>5. r.spent = 0 /\ r.cliTimedOut = FALSE
  BY <1>2 DEF Dispatch, Sound, Records
<1> HIDE DEF n
<1>6. QED
  BY <1>1, <1>4, <1>5, Ones DEF Sound

\* A success ends the request with everything metered.
LEMMA CallSucceedsSound ==
  ASSUME NEW c \in Chains, chain \in [Chains -> Records], Sound(chain[c]),
         NEW t \in Nat, NEW cost \in Nat, CallSucceeds(c, t, cost)
  PROVE  /\ Sound(chain'[c])
         /\ chain'[c].pc = "idle"
<1> DEFINE r == chain[c]
           s == Settled(r, t, cost)
<1>1. chain'[c] = Ended(s)
  BY DEF CallSucceeds
<1>2. r \in Records /\ r.recovered <= r.spent /\ (~r.guarded => r.recovered = r.spent)
  BY DEF CallSucceeds, Sound
<1>3. /\ s \in Records /\ s.guarded = r.guarded /\ s.spent = 0
      /\ s.unmetered = r.spent - r.recovered
  BY <1>2, SettledRecord
<1> HIDE DEF s
<1>4. /\ Ended(s) \in Records /\ Ended(s).pc = "idle"
      /\ Ended(s).guarded = s.guarded /\ Ended(s).spent = s.spent
      /\ Ended(s).unmetered = s.unmetered
  BY <1>3, EndedRecord
<1>5. QED
  BY <1>1, <1>2, <1>3, <1>4 DEF Sound, Records

\* A guarded request may spend what it does not carry.
LEMMA GuardRejectsSound ==
  ASSUME NEW c \in Chains, chain \in [Chains -> Records], Sound(chain[c]),
         NEW t \in Nat, NEW cost \in Nat, GuardRejects(c, t, cost)
  PROVE  /\ Sound(chain'[c])
         /\ chain'[c].kind = chain[c].kind
         /\ chain'[c].hop = chain[c].hop
<1> DEFINE r == chain[c]
           a == After(r, t, cost)
           n == [a EXCEPT !.guard = r.guard + 1]
<1>1. r \in Records /\ r.pc = "call" /\ r.guarded /\ r.guard < GuardAttempts
  BY DEF GuardRejects
<1>2. /\ a \in Records /\ a.pc = r.pc /\ a.kind = r.kind /\ a.hop = r.hop
      /\ a.guarded = r.guarded /\ a.attempt = r.attempt /\ a.guard = r.guard
      /\ a.recovered = r.recovered /\ a.spent = r.spent + cost
      /\ a.unmetered = r.unmetered /\ a.cliTimedOut = r.cliTimedOut
  <2> HIDE DEF r
  <2> QED
    BY <1>1, AfterRecord, ZenonT(60)
<1>3. chain'[c] = n
  BY DEF GuardRejects
<1>4. r.guard + 1 \in 1 .. GuardAttempts
  <2>1. r.guard \in 1 .. GuardAttempts /\ GuardAttempts \in Nat
    BY <1>1, RoutingAssumption DEF RoutingAssumption, Records
  <2> HIDE DEF r, a
  <2> QED
    BY <1>1, <1>2, <2>1
<1> HIDE DEF a
<1>5. /\ n \in Records /\ n.pc = a.pc /\ n.kind = a.kind /\ n.hop = a.hop
      /\ n.guarded = a.guarded /\ n.attempt = a.attempt
      /\ n.recovered = a.recovered /\ n.spent = a.spent
      /\ n.unmetered = a.unmetered /\ n.cliTimedOut = a.cliTimedOut
  BY <1>2, <1>4, Zenon DEF Records
<1> HIDE DEF n
<1>6. QED
  BY <1>1, <1>2, <1>3, <1>5 DEF Sound, Records

\* guard_exhausted ends the request.
LEMMA GuardExhaustedSound ==
  ASSUME NEW c \in Chains, chain \in [Chains -> Records], Sound(chain[c]),
         NEW t \in Nat, NEW cost \in Nat, GuardExhausted(c, t, cost)
  PROVE  /\ Sound(chain'[c])
         /\ chain'[c].pc # "call"
<1> DEFINE r == chain[c]
           s == Settled(r, t, cost)
           n == NextHop(s, FALSE)
<1>1. chain'[c] = n
  BY DEF GuardExhausted
<1>2. r \in Records /\ r.recovered <= r.spent /\ r.guarded
  BY DEF GuardExhausted, Sound
<1>3. s \in Records /\ s.guarded = r.guarded /\ s.spent = 0
  BY <1>2, SettledRecord
<1> HIDE DEF s
<1>4. /\ n \in Records /\ n.pc = "idle" /\ n.guarded = s.guarded /\ n.spent = s.spent
  BY <1>3, NextHopRecord, Zenon
<1> HIDE DEF n
<1>5. QED
  BY <1>1, <1>2, <1>3, <1>4 DEF Sound

\* A retried attempt is spent and carried alike.
LEMMA RetryCallSound ==
  ASSUME NEW c \in Chains, chain \in [Chains -> Records], Sound(chain[c]),
         NEW t \in Nat, NEW cost \in CallCosts, NEW pause \in Nat,
         RetryCall(c, t, cost, pause)
  PROVE  /\ Sound(chain'[c])
         /\ chain'[c].kind = chain[c].kind
         /\ chain'[c].hop = chain[c].hop
<1> DEFINE r == chain[c]
           a == After(r, t + pause, cost)
           n == [a EXCEPT !.attempt = r.attempt + 1, !.guard = 1,
                          !.recovered = r.recovered + cost]
<1>1. r \in Records /\ r.pc = "call" /\ r.attempt < Attempts(r.kind)
  BY DEF RetryCall
<1>2. cost \in Nat /\ cost <= MaxCost /\ t + pause \in Nat
  BY Ones DEF CallCosts
<1>3. /\ a \in Records /\ a.pc = r.pc /\ a.kind = r.kind /\ a.hop = r.hop
      /\ a.guarded = r.guarded /\ a.attempt = r.attempt
      /\ a.recovered = r.recovered /\ a.spent = r.spent + cost
      /\ a.unmetered = r.unmetered /\ a.cliTimedOut = r.cliTimedOut
  <2> HIDE DEF r
  <2> QED
    BY <1>1, <1>2, AfterRecord, ZenonT(60)
<1>4. chain'[c] = n
  BY DEF RetryCall
<1>5. /\ r.attempt + 1 \in 1 .. MaxAttempts
      /\ r.recovered + cost \in Nat
  <2>1. /\ r.attempt \in 1 .. MaxAttempts /\ MaxAttempts \in Nat \ {0}
        /\ r.recovered \in Nat
    BY <1>1, RoutingAssumption DEF RoutingAssumption, Records
  <2>2. Attempts(r.kind) \in {1, MaxAttempts}
    BY DEF Attempts
  <2> HIDE DEF r, a
  <2> QED
    BY <1>1, <1>2, <1>3, <2>1, <2>2
<1> HIDE DEF a
<1>6. /\ n \in Records /\ n.pc = a.pc /\ n.kind = a.kind /\ n.hop = a.hop
      /\ n.guarded = a.guarded /\ n.attempt = r.attempt + 1
      /\ n.recovered = r.recovered + cost /\ n.spent = a.spent
      /\ n.unmetered = a.unmetered /\ n.cliTimedOut = a.cliTimedOut
  BY <1>3, <1>5, Ones, Zenon DEF Records
<1> HIDE DEF n
<1>7. r.recovered + cost <= (r.attempt + 1 - 1) * MaxCost
  <2>1. r.recovered <= (r.attempt - 1) * MaxCost /\ r.attempt \in Nat
    BY <1>1 DEF Sound, Records
  <2>2. (r.attempt + 1 - 1) * MaxCost = (r.attempt - 1) * MaxCost + MaxCost
    BY <2>1, Ones
  <2>3. (r.attempt - 1) * MaxCost \in Int
    BY <2>1, Ones
  <2>4. QED
    BY <1>1, <1>2, <2>1, <2>2, <2>3, Ones DEF Records
<1>8. r.recovered <= r.spent /\ (~r.guarded => r.recovered = r.spent)
      /\ (~r.guarded => r.unmetered = 0) /\ ~r.cliTimedOut
  BY <1>1 DEF Sound
<1>9. QED
  BY <1>1, <1>2, <1>3, <1>4, <1>6, <1>7, <1>8 DEF Sound, Records

\* A failed hop moves on, but not after a timeout of a CLI hop.
LEMMA CallFailsSound ==
  ASSUME NEW c \in Chains, chain \in [Chains -> Records], Sound(chain[c]),
         NEW e \in Errors, NEW t \in Nat, NEW cost \in Nat, CallFails(c, e, t, cost)
  PROVE  /\ Sound(chain'[c])
         /\ chain'[c].pc # "call"
<1> DEFINE r == chain[c]
           type == Candidates[r.hop].type
           s == Settled(r, t, cost)
           advance == ChainShouldAdvance(e, type)
           h == NextHop(s, advance)
           bad == h.cliTimedOut \/ (e = "timeout" /\ type = "cli")
           n == [h EXCEPT !.cliTimedOut = bad]
<1>1. chain'[c] = n
  BY DEF CallFails
<1>2. /\ r \in Records /\ r.recovered <= r.spent /\ ~r.cliTimedOut
      /\ (~r.guarded => r.recovered = r.spent)
  BY DEF CallFails, Sound
<1>3. /\ s \in Records /\ s.guarded = r.guarded /\ s.spent = 0
      /\ s.unmetered = r.spent - r.recovered /\ s.cliTimedOut = r.cliTimedOut
  BY <1>2, SettledRecord
<1>4. advance \in BOOLEAN /\ (e = "timeout" /\ type = "cli" => ~advance)
  BY DEF ChainShouldAdvance, TimeoutAdvances, Transient
<1> HIDE DEF s, advance
<1>5. /\ h \in Records /\ h.pc # "call" /\ (h.pc # "idle" => advance)
      /\ h.guarded = s.guarded /\ h.spent = s.spent /\ h.unmetered = s.unmetered
      /\ h.cliTimedOut = s.cliTimedOut
  BY <1>3, <1>4, NextHopRecord, Zenon
<1> HIDE DEF h
<1>6. bad \in BOOLEAN /\ (bad => h.pc = "idle")
  BY <1>2, <1>3, <1>4, <1>5, Zenon DEF Records
<1> HIDE DEF bad
<1>7. /\ n \in Records /\ n.pc = h.pc /\ n.guarded = h.guarded /\ n.spent = h.spent
      /\ n.unmetered = h.unmetered /\ n.cliTimedOut = bad
  BY <1>5, <1>6, Zenon DEF Records
<1> HIDE DEF n
<1>8. QED
  BY <1>1, <1>2, <1>3, <1>5, <1>6, <1>7 DEF Sound, Records

\* A throwing hop moves on with nothing left to meter.
LEMMA CallThrowsSound ==
  ASSUME NEW c \in Chains, chain \in [Chains -> Records], Sound(chain[c]),
         NEW t \in Nat, CallThrows(c, t)
  PROVE  /\ Sound(chain'[c])
         /\ chain'[c].pc # "call"
<1> DEFINE r == chain[c]
           a == After(r, t, 0)
           h == NextHop(a, TRUE)
           n == [h EXCEPT !.spent = 0]
<1>1. chain'[c] = n
  BY DEF CallThrows
<1>2. /\ r \in Records /\ ~r.cliTimedOut /\ (~r.guarded => r.unmetered = 0)
  BY DEF CallThrows, Sound
<1>3. /\ a \in Records /\ a.guarded = r.guarded /\ a.unmetered = r.unmetered
      /\ a.cliTimedOut = r.cliTimedOut
  BY <1>2, AfterRecord
<1> HIDE DEF a
<1>4. /\ h \in Records /\ h.pc # "call" /\ h.guarded = a.guarded
      /\ h.unmetered = a.unmetered /\ h.cliTimedOut = a.cliTimedOut
  BY <1>3, NextHopRecord
<1> HIDE DEF h
<1>5. /\ n \in Records /\ n.pc = h.pc /\ n.guarded = h.guarded /\ n.spent = 0
      /\ n.unmetered = h.unmetered /\ n.cliTimedOut = h.cliTimedOut
  BY <1>4, Ones, Zenon DEF Records
<1> HIDE DEF n
<1>6. QED
  BY <1>1, <1>2, <1>3, <1>4, <1>5 DEF Sound

-----------------------------------------------------------------------------
(* Every step keeps every request sound. *)

\* The type invariant, with the records named.
LEMMA TypeIsRecords == TypeOK <=> /\ chain \in [Chains -> Records]
                                  /\ daily \in Nat
                                  /\ newDay \in BOOLEAN
  BY Zenon DEF TypeOK, Records

\* The requests in flight on a paid hop of a cascade.
InFlight == {c \in Chains : chain[c].pc = "call" /\ Paid(chain[c])}

\* A step of request c: no other request moves, and c does not join InFlight.
Step(c) ==
  /\ chain' = [chain EXCEPT ![c] = chain'[c]]
  /\ Sound(chain'[c])
  /\ \/ chain'[c].pc # "call"
     \/ ~Paid(chain'[c])
     \/ /\ chain[c].pc = "call"
        /\ chain'[c].kind = chain[c].kind
        /\ chain'[c].hop = chain[c].hop

\* If the request that moves stays sound, all do.
LEMMA StepSound ==
  ASSUME chain \in [Chains -> Records], AllSound, NEW c \in Chains,
         chain' = [chain EXCEPT ![c] = chain'[c]], Sound(chain'[c])
  PROVE  chain' \in [Chains -> Records] /\ AllSound'
<1>1. \A d \in Chains \ {c} : chain'[d] = chain[d]
  OBVIOUS
<1>2. \A d \in Chains : Sound(chain'[d])
  BY <1>1 DEF AllSound
<1>3. chain'[c] \in Records
  BY DEF Sound
<1>4. QED
  BY <1>2, <1>3 DEF AllSound, Sound

\* Such a step leaves no more requests in flight.
LEMMA StepInFlight ==
  ASSUME chain \in [Chains -> Records], NEW c \in Chains, Step(c)
  PROVE  InFlight' \subseteq InFlight
<1>1. \A d \in Chains \ {c} : chain'[d] = chain[d]
  BY DEF Step
<1>2. c \in InFlight' => c \in InFlight
  BY DEF Step, InFlight, Paid
<1>3. QED
  BY <1>1, <1>2 DEF InFlight, Paid

\* Times and costs are natural numbers.
LEMMA CallDomains ==
  ASSUME chain \in [Chains -> Records], NEW c \in Chains
  PROVE  /\ CallTimes(chain[c].timeout) \subseteq Nat
         /\ CallCosts \subseteq Nat
         /\ \A e \in Errors : /\ FailureTimes(e, chain[c].timeout) \subseteq Nat
                              /\ Reports(e) \subseteq Nat
<1>1. chain[c].timeout \in Nat /\ QueueTimeout \in Nat /\ MaxCost \in Nat
  BY RoutingAssumption DEF RoutingAssumption, Records
<1>2. QED
  BY <1>1 DEF CallTimes, CallCosts, FailureTimes, Reports, Errors

\* A call that returns without success changes the day no more than it
\* disturbs the requests.
LEMMA CallReturnsStep ==
  ASSUME TypeOK, AllSound, NEW c \in Chains, CallReturns(c)
  PROVE  /\ Step(c)
         /\ \/ daily' = daily
            \/ \E t \in Nat, cost \in CallCosts : CallSucceeds(c, t, cost)
<1>1. chain \in [Chains -> Records] /\ Sound(chain[c])
  BY TypeIsRecords DEF AllSound
<1>2. ASSUME NEW t \in CallTimes(chain[c].timeout), CallThrows(c, t)
      PROVE  Step(c) /\ daily' = daily
  <2>1. t \in Nat
    BY <1>1, CallDomains
  <2>2. Sound(chain'[c]) /\ chain'[c].pc # "call"
    BY <1>1, <1>2, <2>1, CallThrowsSound
  <2>3. QED
    BY <1>1, <1>2, <2>2 DEF CallThrows, Step
<1>3. ASSUME NEW t \in CallTimes(chain[c].timeout), NEW cost \in CallCosts,
             CallSucceeds(c, t, cost)
      PROVE  Step(c) /\ t \in Nat
  <2>1. t \in Nat /\ cost \in Nat
    BY <1>1, CallDomains
  <2>2. Sound(chain'[c]) /\ chain'[c].pc = "idle"
    BY <1>1, <1>3, <2>1, CallSucceedsSound
  <2>3. QED
    BY <1>1, <1>3, <2>1, <2>2 DEF CallSucceeds, Step
<1>4. ASSUME NEW t \in CallTimes(chain[c].timeout), NEW cost \in CallCosts,
             GuardRejects(c, t, cost)
      PROVE  Step(c) /\ daily' = daily
  <2>1. t \in Nat /\ cost \in Nat
    BY <1>1, CallDomains
  <2>2. /\ Sound(chain'[c]) /\ chain'[c].kind = chain[c].kind
        /\ chain'[c].hop = chain[c].hop
    BY <1>1, <1>4, <2>1, GuardRejectsSound
  <2>3. QED
    BY <1>1, <1>4, <2>2 DEF GuardRejects, Step
<1>5. ASSUME NEW t \in CallTimes(chain[c].timeout), NEW cost \in CallCosts,
             GuardExhausted(c, t, cost)
      PROVE  Step(c) /\ daily' = daily
  <2>1. t \in Nat /\ cost \in Nat
    BY <1>1, CallDomains
  <2>2. Sound(chain'[c]) /\ chain'[c].pc # "call"
    BY <1>1, <1>5, <2>1, GuardExhaustedSound
  <2>3. QED
    BY <1>1, <1>5, <2>2 DEF GuardExhausted, Step
<1>6. ASSUME NEW t \in CallTimes(chain[c].timeout), NEW cost \in CallCosts,
             NEW pause \in 0 .. MaxBackoff, RetryCall(c, t, cost, pause)
      PROVE  Step(c) /\ daily' = daily
  <2>1. t \in Nat /\ pause \in Nat
    BY <1>1, CallDomains, RoutingAssumption DEF RoutingAssumption
  <2>2. /\ Sound(chain'[c]) /\ chain'[c].kind = chain[c].kind
        /\ chain'[c].hop = chain[c].hop
    BY <1>1, <1>6, <2>1, RetryCallSound
  <2>3. QED
    BY <1>1, <1>6, <2>2 DEF RetryCall, Step
<1>7. ASSUME NEW e \in Errors, NEW t \in FailureTimes(e, chain[c].timeout),
             NEW cost \in Reports(e), CallFails(c, e, t, cost)
      PROVE  Step(c) /\ daily' = daily
  <2>1. t \in Nat /\ cost \in Nat
    BY <1>1, CallDomains
  <2>2. Sound(chain'[c]) /\ chain'[c].pc # "call"
    BY <1>1, <1>7, <2>1, CallFailsSound
  <2>3. QED
    BY <1>1, <1>7, <2>2 DEF CallFails, Step
<1>8. QED
  BY <1>2, <1>3, <1>4, <1>5, <1>6, <1>7 DEF CallReturns

\* The part of the state that is typed by its own assignments.
LEMMA DayTyped ==
  ASSUME TypeOK, AllSound, Next
  PROVE  daily' \in Nat /\ newDay' \in BOOLEAN
<1>1. chain \in [Chains -> Records] /\ daily \in Nat /\ newDay \in BOOLEAN
  BY TypeIsRecords
<1>2. CASE Midnight
  BY <1>1, <1>2 DEF Midnight
<1>3. ASSUME NEW c \in Chains, NEW kind \in Kinds,
             \/ \E guarded \in BOOLEAN, hop \in Hops : Start(c, kind, guarded, hop)
             \/ Refuse(c, kind)
      PROVE  daily' \in Nat /\ newDay' \in BOOLEAN
  BY <1>1, <1>3, Ones DEF Start, Refuse, ResetDailyBudgetIfNeeded
<1>4. ASSUME NEW c \in Chains, Advance(c)
      PROVE  daily' \in Nat /\ newDay' \in BOOLEAN
  BY <1>1, <1>4 DEF Advance, StopBeforeHop, Dispatch
<1>5. ASSUME NEW c \in Chains, CallReturns(c)
      PROVE  daily' \in Nat /\ newDay' \in BOOLEAN
  <2>1. newDay' = newDay
    BY <1>5 DEF CallReturns, CallThrows, CallSucceeds, GuardRejects, GuardExhausted,
                RetryCall, CallFails
  <2>2. ASSUME NEW t \in Nat, NEW cost \in CallCosts, CallSucceeds(c, t, cost)
        PROVE  daily' \in Nat
    <3>1. cost \in Nat /\ chain[c].recovered \in Nat
      BY <1>1, CallDomains DEF Records
    <3>2. QED
      BY <1>1, <2>2, <3>1 DEF CallSucceeds, Metered
  <2>3. QED
    BY <1>1, <1>5, <2>1, <2>2, CallReturnsStep
<1>6. QED
  BY <1>2, <1>3, <1>4, <1>5 DEF Next

\* The inductive step for one request's soundness.
LEMMA NextSound ==
  ASSUME TypeOK, AllSound, Next
  PROVE  TypeOK' /\ AllSound'
<1>1. chain \in [Chains -> Records] /\ daily' \in Nat /\ newDay' \in BOOLEAN
  BY TypeIsRecords, DayTyped
<1>2. SUFFICES chain' \in [Chains -> Records] /\ AllSound'
  BY <1>1 DEF TypeOK, Records
<1>3. ASSUME chain' = chain
      PROVE  chain' \in [Chains -> Records] /\ AllSound'
  BY <1>1, <1>3 DEF AllSound
<1>4. ASSUME NEW c \in Chains, NEW kind \in Kinds, NEW guarded \in BOOLEAN,
             NEW hop \in Hops, Start(c, kind, guarded, hop)
      PROVE  chain' \in [Chains -> Records] /\ AllSound'
  <2>1. Sound(chain'[c])
    BY <1>1, <1>4, StartSound
  <2>2. chain' = [chain EXCEPT ![c] = chain'[c]]
    BY <1>1, <1>4 DEF Start
  <2>3. QED
    BY <1>1, <2>1, <2>2, StepSound
<1>5. ASSUME NEW c \in Chains, StopBeforeHop(c)
      PROVE  chain' \in [Chains -> Records] /\ AllSound'
  <2>1. chain' = [chain EXCEPT ![c] = chain'[c]] /\ chain'[c] = Ended(chain[c])
    BY <1>1, <1>5 DEF StopBeforeHop
  <2>2. chain[c] \in Records /\ Sound(chain[c]) /\ chain[c].pc = "hop"
    BY <1>1, <1>5 DEF AllSound, StopBeforeHop
  <2>3. Sound(Ended(chain[c]))
    BY <2>2, EndedRecord DEF Sound
  <2>4. QED
    BY <1>1, <2>1, <2>3, StepSound
<1>6. ASSUME NEW c \in Chains, Dispatch(c)
      PROVE  chain' \in [Chains -> Records] /\ AllSound'
  <2>1. Sound(chain'[c])
    BY <1>1, <1>6, DispatchSound DEF AllSound
  <2>2. chain' = [chain EXCEPT ![c] = chain'[c]]
    BY <1>1, <1>6 DEF Dispatch
  <2>3. QED
    BY <1>1, <2>1, <2>2, StepSound
<1>7. ASSUME NEW c \in Chains, CallReturns(c)
      PROVE  chain' \in [Chains -> Records] /\ AllSound'
  BY <1>1, <1>7, CallReturnsStep, StepSound DEF Step
<1>8. QED
  BY <1>3, <1>4, <1>5, <1>6, <1>7 DEF Next, Midnight, Refuse, Advance

\* Every reachable request is sound.
LEMMA SoundInvariant == Spec => [](TypeOK /\ AllSound)
<1>1. Init => TypeOK /\ AllSound
  <2> SUFFICES ASSUME Init PROVE TypeOK /\ AllSound
    OBVIOUS
  <2>1. /\ Idle \in Records /\ Idle.pc = "idle" /\ Idle.spent = 0
        /\ Idle.unmetered = 0 /\ Idle.cliTimedOut = FALSE
    BY Ones DEF Idle, Records
  <2>2. Sound(Idle)
    BY <2>1 DEF Sound
  <2>3. chain \in [Chains -> Records] /\ \A c \in Chains : chain[c] = Idle
    BY <2>1 DEF Init
  <2>4. QED
    BY <2>2, <2>3, TypeIsRecords DEF Init, AllSound
<1>2. TypeOK /\ AllSound /\ [Next]_vars => TypeOK' /\ AllSound'
  <2> SUFFICES ASSUME TypeOK, AllSound, [Next]_vars PROVE TypeOK' /\ AllSound'
    OBVIOUS
  <2>1. CASE Next
    BY <2>1, NextSound
  <2>2. CASE UNCHANGED vars
    BY <2>2 DEF vars, TypeOK, AllSound
  <2>3. QED
    BY <2>1, <2>2
<1>3. QED
  BY <1>1, <1>2, PTL DEF Spec

\* For any requests, candidates and limits: the state is typed, an unguarded
\* request is metered for all its calls reported, and a chain stops at the CLI
\* hop that timed out.
THEOREM RoutingSound == Spec => [](TypeOK /\ UnguardedMetered /\ StopsAfterCliTimeout)
<1>1. AllSound => UnguardedMetered /\ StopsAfterCliTimeout
  BY DEF AllSound, Sound, UnguardedMetered, StopsAfterCliTimeout
<1>2. QED
  BY <1>1, SoundInvariant, PTL

\* The same for the chain alone: once a CLI candidate has timed out, no later
\* candidate of that chain is dispatched.
THEOREM CliTimeoutStops == Spec => []StopsAfterCliTimeout
BY RoutingSound, PTL

-----------------------------------------------------------------------------
(* The daily budget. *)

\* Multiplication by a natural number is monotonic.
LEMMA TimesMonotonic ==
  ASSUME NEW a \in Nat, NEW b \in Nat, NEW h \in Nat, a <= b
  PROVE  /\ a * h \in Nat
         /\ b * h \in Nat
         /\ a * h <= b * h
         /\ (a + 1) * h = a * h + h
<1>1. PICK k \in Nat : b = a + k
  <2>1. b - a \in Nat /\ b = a + (b - a)
    OBVIOUS
  <2>2. QED
    BY <2>1
<1>2. (a + k) * h = a * h + k * h /\ k * h \in Nat /\ a * h \in Nat
  OBVIOUS
<1>3. (a + 1) * h = a * h + h
  OBVIOUS
<1>4. QED
  BY <1>1, <1>2, <1>3

Ceiling == AtLeast(Budget - 1, 0) + Cardinality(Chains) * HopCost

\* Every request in flight on a paid hop has a whole hop's share set aside.
BudgetReserved == daily + Cardinality(InFlight) * HopCost <= Ceiling

\* The terms of the budget's bound are natural numbers.
LEMMA BudgetTypes ==
  /\ HopCost \in Nat /\ Budget \in Nat /\ IsFiniteSet(Chains)
  /\ Cardinality(Chains) \in Nat
  /\ AtLeast(Budget - 1, 0) \in Nat
  /\ Cardinality(Chains) * HopCost \in Nat
  /\ IsFiniteSet(InFlight) /\ Cardinality(InFlight) \in Nat
  /\ Cardinality(InFlight) <= Cardinality(Chains)
<1>1. HopCost \in Nat /\ Budget \in Nat /\ IsFiniteSet(Chains)
  <2>1. MaxAttempts \in Nat /\ MaxCost \in Nat /\ Budget \in Nat /\ IsFiniteSet(Chains)
    BY RoutingAssumption DEF RoutingAssumption
  <2>2. QED
    BY <2>1 DEF HopCost
<1>2. Cardinality(Chains) \in Nat
  BY <1>1, FS_CardinalityType
<1>3. AtLeast(Budget - 1, 0) \in Nat
  BY <1>1 DEF AtLeast
<1>4. Cardinality(Chains) * HopCost \in Nat
  BY <1>1, <1>2
<1>5. InFlight \subseteq Chains
  BY DEF InFlight
<1>6. QED
  BY <1>1, <1>2, <1>3, <1>4, <1>5, FS_Subset, FS_CardinalityType

\* Fewer requests in flight and no dearer day.
LEMMA BudgetKept ==
  ASSUME BudgetReserved, daily \in Nat, daily' \in Nat, daily' <= daily,
         InFlight' \subseteq InFlight
  PROVE  BudgetReserved'
<1>1. IsFiniteSet(InFlight') /\ Cardinality(InFlight') <= Cardinality(InFlight)
      /\ Cardinality(InFlight') \in Nat
  BY BudgetTypes, FS_Subset, FS_CardinalityType
<1>2. /\ Cardinality(InFlight') * HopCost <= Cardinality(InFlight) * HopCost
      /\ Cardinality(InFlight') * HopCost \in Nat
      /\ Cardinality(InFlight) * HopCost \in Nat
  BY <1>1, BudgetTypes, TimesMonotonic
<1>3. QED
  BY <1>2, BudgetTypes DEF BudgetReserved, Ceiling

\* A success spends no more than the share set aside for it.
LEMMA SuccessKeepsBudget ==
  ASSUME TypeOK, AllSound, BudgetReserved, NEW c \in Chains, Step(c),
         NEW t \in Nat, NEW cost \in CallCosts, CallSucceeds(c, t, cost)
  PROVE  BudgetReserved'
<1> DEFINE r == chain[c]
<1>1. chain \in [Chains -> Records] /\ daily \in Nat /\ Sound(r) /\ r.pc = "call"
  BY TypeIsRecords DEF AllSound, CallSucceeds
<1>2. InFlight' \subseteq InFlight
  BY <1>1, StepInFlight
<1>3. CASE ~Paid(r)
  BY <1>1, <1>2, <1>3, BudgetKept DEF CallSucceeds
<1>4. CASE Paid(r)
  <2>1. /\ cost \in Nat /\ cost <= MaxCost /\ MaxCost \in Nat /\ MaxAttempts \in Nat
        /\ r.recovered \in Nat /\ r.recovered <= (r.attempt - 1) * MaxCost
        /\ r.attempt \in 1 .. MaxAttempts
    BY <1>1, Ones, RoutingAssumption DEF RoutingAssumption, CallCosts, Sound, Records
  <2>2. Metered(r, cost) \in Nat /\ Metered(r, cost) <= HopCost
    <3>1. /\ (r.attempt - 1) * MaxCost \in Nat
          /\ (r.attempt - 1 + 1) * MaxCost = (r.attempt - 1) * MaxCost + MaxCost
          /\ r.attempt * MaxCost <= MaxAttempts * MaxCost
          /\ r.attempt - 1 + 1 = r.attempt
      <4>1. r.attempt - 1 \in Nat /\ r.attempt \in Nat /\ r.attempt <= MaxAttempts
            /\ r.attempt - 1 <= MaxAttempts /\ r.attempt - 1 + 1 = r.attempt
        BY <2>1
      <4>2. QED
        BY <2>1, <4>1, TimesMonotonic
    <3> DEFINE x == (r.attempt - 1) * MaxCost
               y == r.attempt * MaxCost
               z == MaxAttempts * MaxCost
    <3>2. x \in Nat /\ y = x + MaxCost /\ y <= z /\ r.recovered <= x
      BY <2>1, <3>1
    <3>3. z \in Nat
      BY <2>1
    <3> HIDE DEF x, y, z
    <3>4. r.recovered + cost \in Nat /\ r.recovered + cost <= z
      BY <2>1, <3>2, <3>3
    <3>5. QED
      BY <3>4 DEF z, Metered, HopCost
  <2>3. c \in InFlight
    BY <1>1, <1>4 DEF InFlight
  <2>4. c \notin InFlight'
    <3>1. chain'[c].pc = "idle"
      BY <1>1, CallDomains, CallSucceedsSound
    <3>2. QED
      BY <3>1 DEF InFlight
  <2>5. /\ IsFiniteSet(InFlight \ {c})
        /\ Cardinality(InFlight \ {c}) = Cardinality(InFlight) - 1
    BY <2>3, BudgetTypes, FS_RemoveElement
  <2>6. /\ Cardinality(InFlight') <= Cardinality(InFlight) - 1
        /\ Cardinality(InFlight') \in Nat
    <3>1. InFlight' \subseteq InFlight \ {c}
      BY <1>2, <2>4
    <3>2. QED
      BY <2>5, <3>1, FS_Subset, FS_CardinalityType
  <2>7. daily' = daily + Metered(r, cost)
    BY <1>4 DEF CallSucceeds
  <2> DEFINE n == Cardinality(InFlight)
             m == Cardinality(InFlight')
  <2>8. n \in Nat /\ m \in Nat /\ m + 1 <= n /\ HopCost \in Nat
    BY <2>6, BudgetTypes
  <2>9. /\ m * HopCost \in Nat /\ n * HopCost \in Nat /\ (m + 1) * HopCost <= n * HopCost
        /\ (m + 1) * HopCost = m * HopCost + HopCost
    <3> HIDE DEF n, m
    <3>1. m + 1 \in Nat /\ m <= m + 1
      BY <2>8
    <3>2. QED
      BY <2>8, <3>1, TimesMonotonic
  <2>10. daily + n * HopCost <= Ceiling /\ Ceiling \in Nat
    BY BudgetTypes DEF BudgetReserved, Ceiling
  <2>11. daily' + m * HopCost <= Ceiling
    <3> DEFINE p == m * HopCost
               q == n * HopCost
    <3>1. p \in Nat /\ q \in Nat /\ p + HopCost <= q
      BY <2>9
    <3>2. daily + q <= Ceiling
      BY <2>10
    <3> HIDE DEF p, q
    <3>3. daily' + p <= Ceiling
      BY <1>1, <2>2, <2>7, <2>8, <2>10, <3>1, <3>2
    <3>4. QED
      BY <3>3 DEF p
  <2>12. QED
    BY <2>11 DEF BudgetReserved, Ceiling
<1>5. QED
  BY <1>3, <1>4

\* A dispatch to a paid hop happens below the limit only.
LEMMA DispatchKeepsBudget ==
  ASSUME TypeOK, AllSound, BudgetReserved, NEW c \in Chains, Dispatch(c)
  PROVE  BudgetReserved'
<1>1. chain \in [Chains -> Records] /\ daily \in Nat /\ daily' = daily
  BY TypeIsRecords DEF Dispatch
<1>2. /\ chain' = [chain EXCEPT ![c] = chain'[c]] /\ Sound(chain'[c])
      /\ chain'[c].kind = chain[c].kind /\ chain'[c].hop = chain[c].hop
  BY <1>1, DispatchSound DEF Dispatch, AllSound
<1>3. CASE ~Paid(chain[c])
  <2>1. Step(c)
    BY <1>2, <1>3 DEF Step, Paid
  <2>2. QED
    BY <1>1, <2>1, StepInFlight, BudgetKept
<1>4. CASE Paid(chain[c])
  <2>1. daily <= AtLeast(Budget - 1, 0)
    BY <1>1, <1>4, BudgetTypes DEF Dispatch, BudgetSpent, AtLeast
  <2>2. /\ Cardinality(InFlight') \in Nat
        /\ Cardinality(InFlight') <= Cardinality(Chains)
    <3>1. InFlight' \subseteq Chains
      BY DEF InFlight
    <3>2. QED
      BY <3>1, BudgetTypes, FS_Subset, FS_CardinalityType
  <2>3. /\ Cardinality(InFlight') * HopCost <= Cardinality(Chains) * HopCost
        /\ Cardinality(InFlight') * HopCost \in Nat
    BY <2>2, BudgetTypes, TimesMonotonic
  <2>4. QED
    BY <1>1, <2>1, <2>3, BudgetTypes DEF BudgetReserved, Ceiling
<1>5. QED
  BY <1>3, <1>4

\* The inductive step for the daily budget.
LEMMA NextKeepsBudget ==
  ASSUME TypeOK, AllSound, BudgetReserved, Next
  PROVE  BudgetReserved'
<1>1. chain \in [Chains -> Records] /\ daily \in Nat /\ daily' \in Nat
  BY TypeIsRecords, DayTyped
<1>2. CASE Midnight
  BY <1>1, <1>2, BudgetKept DEF Midnight, InFlight, Paid
<1>3. ASSUME NEW c \in Chains, NEW kind \in Kinds, Refuse(c, kind)
      PROVE  BudgetReserved'
  <2>1. daily' <= daily /\ InFlight' = InFlight
    BY <1>1, <1>3 DEF Refuse, ResetDailyBudgetIfNeeded, InFlight, Paid
  <2>2. QED
    BY <1>1, <2>1, BudgetKept
<1>4. ASSUME NEW c \in Chains, NEW kind \in Kinds, NEW guarded \in BOOLEAN,
             NEW hop \in Hops, Start(c, kind, guarded, hop)
      PROVE  BudgetReserved'
  <2>1. daily' <= daily
    BY <1>1, <1>4 DEF Start, ResetDailyBudgetIfNeeded
  <2>2. chain' = [chain EXCEPT ![c] = chain'[c]] /\ Sound(chain'[c])
    BY <1>1, <1>4, StartSound DEF Start
  <2>3. chain'[c].pc # "call" \/ ~Paid(chain'[c])
    BY <1>1, <1>4 DEF Start, Idle, Paid
  <2>4. QED
    BY <1>1, <2>1, <2>2, <2>3, StepInFlight, BudgetKept DEF Step
<1>5. ASSUME NEW c \in Chains, StopBeforeHop(c)
      PROVE  BudgetReserved'
  <2>1. daily' = daily /\ InFlight' \subseteq InFlight
    <3>1. \A d \in Chains \ {c} : chain'[d] = chain[d]
      BY <1>1, <1>5 DEF StopBeforeHop
    <3>2. chain'[c] = Ended(chain[c]) /\ chain[c] \in Records
      BY <1>1, <1>5 DEF StopBeforeHop
    <3>3. chain'[c].pc = "idle"
      BY <3>2, EndedRecord
    <3>4. QED
      BY <1>5, <3>1, <3>3 DEF StopBeforeHop, InFlight, Paid
  <2>2. QED
    BY <1>1, <2>1, BudgetKept
<1>6. ASSUME NEW c \in Chains, CallReturns(c)
      PROVE  BudgetReserved'
  <2>1. Step(c)
    BY <1>6, CallReturnsStep
  <2>2. CASE daily' = daily
    BY <1>1, <2>1, <2>2, StepInFlight, BudgetKept
  <2>3. CASE \E t \in Nat, cost \in CallCosts : CallSucceeds(c, t, cost)
    BY <2>1, <2>3, SuccessKeepsBudget
  <2>4. QED
    BY <1>6, <2>2, <2>3, CallReturnsStep
<1>7. QED
  BY <1>2, <1>3, <1>4, <1>5, <1>6, DispatchKeepsBudget DEF Next, Advance

\* For any requests, candidates and limits: however the checks and the
\* additions of concurrent cascades interleave, and whenever midnight falls,
\* the day's paid cost passes its limit by at most one hop per request.
THEOREM BudgetSafe == Spec => []BudgetOvershoot
<1>1. Init => BudgetReserved
  <2> SUFFICES ASSUME Init PROVE BudgetReserved
    OBVIOUS
  <2>1. InFlight = {} /\ daily = 0
    BY DEF Init, InFlight, Idle
  <2>2. Cardinality(InFlight) * HopCost = 0
    BY <2>1, BudgetTypes, FS_EmptySet
  <2>3. QED
    BY <2>1, <2>2, BudgetTypes DEF BudgetReserved, Ceiling
<1>2. TypeOK /\ AllSound /\ BudgetReserved /\ [Next]_vars => BudgetReserved'
  <2> SUFFICES ASSUME TypeOK, AllSound, BudgetReserved, [Next]_vars PROVE BudgetReserved'
    OBVIOUS
  <2>1. CASE Next
    BY <2>1, NextKeepsBudget
  <2>2. CASE UNCHANGED vars
    BY <2>2 DEF vars, BudgetReserved, Ceiling, InFlight, Paid
  <2>3. QED
    BY <2>1, <2>2
<1>3. TypeOK /\ BudgetReserved => BudgetOvershoot
  <2> SUFFICES ASSUME TypeOK, BudgetReserved PROVE BudgetOvershoot
    OBVIOUS
  <2>1. daily \in Nat /\ Cardinality(InFlight) * HopCost \in Nat
    BY BudgetTypes, TypeIsRecords
  <2>2. QED
    BY <2>1, BudgetTypes DEF BudgetReserved, Ceiling, BudgetOvershoot
<1>4. Spec => [](TypeOK /\ AllSound)
  BY SoundInvariant
<1>5. QED
  BY <1>1, <1>2, <1>3, <1>4, PTL DEF Spec

-----------------------------------------------------------------------------
(* The deadline of a chain. *)

\* One connector call's budget within a chain.
Short == AtMost(OwnTimeout, Deadline)

GuardCalls(r) == IF r.guarded THEN GuardAttempts ELSE 1

\* The connector calls a hop has behind it, at most.
CallsMade(r) == (r.attempt - 1) * GuardCalls(r) + (r.guard - 1)

\* ChainOvershoot, of one request.
ChainBound(r) ==
  Deadline + (HopCalls(r) - 1) * Short + HopCalls(r) * QueueTimeout
    + (Attempts(r.kind) - 1) * MaxBackoff

\* A call of a chain began its hop early enough for one call, and has been at
\* it no longer than the calls and the pauses it has behind it.
InHop(r) ==
  /\ r.attempt <= Attempts(r.kind)
  /\ r.guard <= GuardCalls(r)
  /\ r.timeout <= Short
  /\ r.elapsed + r.timeout <= Deadline
       + CallsMade(r) * (QueueTimeout + r.timeout)
       + (r.attempt - 1) * MaxBackoff

Timely(r) ==
  r.kind # "direct" => /\ r.elapsed <= ChainBound(r)
                       /\ r.pc = "call" => InHop(r)

AllTimely == \A c \in Chains : Timely(chain[c])

\* The numbers of the bound.
LEMMA TimeTypes ==
  ASSUME NEW r \in Records
  PROVE  /\ Deadline \in Nat /\ Deadline >= 1 /\ OwnTimeout >= 1 /\ OwnTimeout \in Nat
         /\ Short \in Nat /\ QueueTimeout \in Nat /\ MaxBackoff \in Nat
         /\ Attempts(r.kind) \in Nat /\ Attempts(r.kind) >= 1
         /\ Attempts(r.kind) <= MaxAttempts
         /\ GuardCalls(r) \in Nat /\ GuardCalls(r) >= 1
         /\ r.elapsed \in Nat /\ r.timeout \in Nat
         /\ r.attempt \in Nat /\ r.attempt >= 1 /\ r.guard \in Nat /\ r.guard >= 1
         /\ HopCalls(r) = Attempts(r.kind) * GuardCalls(r)
<1>1. /\ Deadline \in Nat \ {0} /\ OwnTimeout \in Nat \ {0} /\ MaxAttempts \in Nat \ {0}
      /\ GuardAttempts \in Nat \ {0} /\ QueueTimeout \in Nat /\ MaxBackoff \in Nat
  BY RoutingAssumption DEF RoutingAssumption
<1>2. Attempts(r.kind) \in {1, MaxAttempts} /\ GuardCalls(r) \in {1, GuardAttempts}
  BY DEF Attempts, GuardCalls
<1>3. Short \in Nat
  BY <1>1 DEF Short, AtMost
<1>4. /\ r.elapsed \in Nat /\ r.timeout \in Nat
      /\ r.attempt \in 1 .. MaxAttempts /\ r.guard \in 1 .. GuardAttempts
  BY DEF Records
<1>5. HopCalls(r) = Attempts(r.kind) * GuardCalls(r)
  BY DEF HopCalls, GuardCalls
<1> QED
  BY <1>1, <1>2, <1>3, <1>4, <1>5

\* A call within a hop ends within the bound.
LEMMA HopArithmetic ==
  ASSUME NEW a \in Nat, NEW A \in Nat, 1 <= a, a <= A,
         NEW g \in Nat, NEW G \in Nat, 1 <= g, g <= G,
         NEW Q \in Nat, NEW T \in Nat, NEW S \in Nat, T <= S,
         NEW B \in Nat, NEW D \in Nat, NEW e \in Nat, NEW t \in Nat, t <= Q + T,
         e + T <= D + ((a - 1) * G + (g - 1)) * (Q + T) + (a - 1) * B
  PROVE  e + t <= D + (A * G - 1) * S + A * G * Q + (A - 1) * B
<1> DEFINE m == (a - 1) * G
           n == m + (g - 1)
           H == A * G
<1>1. m \in Nat /\ a * G = m + G /\ a * G <= H /\ H \in Nat
  <2>1. a - 1 \in Nat /\ a - 1 + 1 = a /\ a - 1 <= a
    OBVIOUS
  <2>2. (a - 1) * G \in Nat /\ (a - 1 + 1) * G = (a - 1) * G + G
    BY <2>1, TimesMonotonic
  <2>3. a * G <= A * G /\ A * G \in Nat
    BY TimesMonotonic
  <2> QED
    BY <2>1, <2>2, <2>3
<1> HIDE DEF m, H
<1>2. n \in Nat /\ n + 1 <= H /\ H - 1 \in Nat /\ n <= H - 1
  BY <1>1
<1> DEFINE k == n * (Q + T)
           nQ == n * Q
           nT == n * T
           p == (a - 1) * B
<1>3. e + T <= D + k + p
  BY DEF m
<1> HIDE DEF n
<1>4. k = nQ + nT /\ nQ \in Nat /\ nT \in Nat
  BY <1>2
<1>5. nT <= (H - 1) * S /\ (H - 1) * S \in Nat
  <2>1. nT <= n * S /\ n * S \in Nat
    <3>1. T * n <= S * n /\ T * n = nT /\ S * n = n * S
      BY <1>2, TimesMonotonic
    <3>2. n * S \in Nat
      BY <1>2
    <3> QED
      BY <3>1, <3>2
  <2>2. n * S <= (H - 1) * S /\ (H - 1) * S \in Nat
    BY <1>2, TimesMonotonic
  <2> HIDE DEF nT
  <2> QED
    BY <1>4, <2>1, <2>2
<1>6. nQ + Q <= H * Q /\ H * Q \in Nat
  <2>1. (n + 1) * Q = nQ + Q
    BY <1>2, TimesMonotonic
  <2>2. (n + 1) * Q <= H * Q /\ H * Q \in Nat
    BY <1>1, <1>2, TimesMonotonic
  <2> QED
    BY <2>1, <2>2
<1>7. p <= (A - 1) * B /\ p \in Nat /\ (A - 1) * B \in Nat
  BY TimesMonotonic
<1> DEFINE x == (H - 1) * S
           y == H * Q
           z == (A - 1) * B
<1>8. nT <= x /\ x \in Nat /\ nQ + Q <= y /\ y \in Nat /\ p <= z /\ z \in Nat
  BY <1>5, <1>6, <1>7
<1> HIDE DEF k, nQ, nT, p, x, y, z
<1>9. e + t <= D + x + y + z
  BY <1>3, <1>4, <1>7, <1>8
<1> QED
  BY <1>9 DEF x, y, z, H

\* A chain in a call has not overrun its bound, and will not have when the call
\* ends.
LEMMA CallEndsInTime ==
  ASSUME NEW r \in Records, InHop(r), NEW t \in Nat, t <= QueueTimeout + r.timeout
  PROVE  r.elapsed + t <= ChainBound(r)
<1>1. /\ r.attempt <= Attempts(r.kind)
      /\ r.guard <= GuardCalls(r)
      /\ r.timeout <= Short
      /\ r.elapsed + r.timeout <= Deadline
           + ((r.attempt - 1) * GuardCalls(r) + (r.guard - 1)) * (QueueTimeout + r.timeout)
           + (r.attempt - 1) * MaxBackoff
  BY DEF InHop, CallsMade
<1> DEFINE a == r.attempt
           A == Attempts(r.kind)
           g == r.guard
           G == GuardCalls(r)
           T == r.timeout
           e == r.elapsed
<1>2. /\ a \in Nat /\ A \in Nat /\ 1 <= a /\ a <= A
      /\ g \in Nat /\ G \in Nat /\ 1 <= g /\ g <= G
      /\ QueueTimeout \in Nat /\ T \in Nat /\ Short \in Nat /\ T <= Short
      /\ MaxBackoff \in Nat /\ Deadline \in Nat /\ e \in Nat
      /\ t <= QueueTimeout + T
      /\ e + T <= Deadline + ((a - 1) * G + (g - 1)) * (QueueTimeout + T)
                    + (a - 1) * MaxBackoff
  BY <1>1, TimeTypes
<1> HIDE DEF a, A, g, G, T, e
<1>3. e + t <= Deadline + (A * G - 1) * Short + A * G * QueueTimeout
                 + (A - 1) * MaxBackoff
  BY <1>2, HopArithmetic
<1>4. HopCalls(r) = A * G
  BY TimeTypes DEF A, G
<1> QED
  BY <1>3, <1>4 DEF e, A, ChainBound

\* A request that is not in a call is timely if its clock is within the bound.
LEMMA TimelyWaiting ==
  ASSUME NEW r \in Records, NEW n, n.pc # "call",
         n.kind = r.kind, n.guarded = r.guarded,
         r.kind # "direct" => n.elapsed <= ChainBound(r)
  PROVE  Timely(n)
  BY DEF Timely, ChainBound, HopCalls

\* What Ended, NextHop and After leave alone, and what they do to the clock.
LEMMA LeavingRecord ==
  ASSUME NEW r \in Records, NEW advance \in BOOLEAN
  PROVE  /\ Ended(r).pc = "idle" /\ Ended(r).kind = r.kind
         /\ Ended(r).guarded = r.guarded /\ Ended(r).elapsed = r.elapsed
         /\ NextHop(r, advance).pc # "call" /\ NextHop(r, advance).kind = r.kind
         /\ NextHop(r, advance).guarded = r.guarded
         /\ NextHop(r, advance).elapsed = r.elapsed
<1>1. /\ Ended(r).pc = "idle" /\ Ended(r).kind = r.kind
      /\ Ended(r).guarded = r.guarded /\ Ended(r).elapsed = r.elapsed
  BY DEF Ended, Records
<1> DEFINE m == [r EXCEPT !.pc = "hop", !.hop = @ + 1]
<1>2. m.pc = "hop" /\ m.kind = r.kind /\ m.guarded = r.guarded /\ m.elapsed = r.elapsed
  BY DEF Records
<1>3. NextHop(r, advance) = m \/ NextHop(r, advance) = Ended(r)
  BY DEF NextHop
<1> HIDE DEF m
<1> QED
  BY <1>1, <1>2, <1>3

LEMMA AfterClock ==
  ASSUME NEW r \in Records, NEW t \in Nat, NEW cost \in Nat
  PROVE  /\ After(r, t, cost).timeout = r.timeout
         /\ r.kind # "direct" => After(r, t, cost).elapsed = r.elapsed + t
  BY DEF After, Records

LEMMA SettledClock ==
  ASSUME NEW r \in Records, NEW t \in Nat, NEW cost \in Nat
  PROVE  /\ Settled(r, t, cost).kind = r.kind
         /\ Settled(r, t, cost).guarded = r.guarded
         /\ r.kind # "direct" => Settled(r, t, cost).elapsed = r.elapsed + t
<1> DEFINE a == After(r, t, cost)
           u == r.spent + cost - Metered(r, cost)
<1>1. a \in Records /\ a.kind = r.kind /\ a.guarded = r.guarded
      /\ (r.kind # "direct" => a.elapsed = r.elapsed + t)
  BY AfterRecord, AfterClock
<1>2. Settled(r, t, cost) = [a EXCEPT !.unmetered = u, !.spent = 0]
  BY DEF Settled
<1> HIDE DEF a, u
<1> QED
  BY <1>1, <1>2 DEF Records

\* A chain that starts has its whole deadline.
LEMMA StartTimely ==
  ASSUME NEW c \in Chains, chain \in [Chains -> Records],
         NEW kind \in Kinds, NEW guarded \in BOOLEAN, NEW hop \in Hops,
         Start(c, kind, guarded, hop), chain'[c] \in Records
  PROVE  Timely(chain'[c])
<1> DEFINE n == chain'[c]
<1>1. /\ n.kind = kind /\ n.elapsed = 0
      /\ kind # "direct" => n.pc = "hop"
  BY DEF Start, Idle
<1>2. 0 <= ChainBound(n)
  <2> DEFINE H == HopCalls(n)
             A == Attempts(n.kind)
             G == GuardCalls(n)
  <2>1. /\ A \in Nat /\ A >= 1 /\ G \in Nat /\ G >= 1 /\ H = A * G
        /\ Short \in Nat /\ QueueTimeout \in Nat /\ MaxBackoff \in Nat /\ Deadline \in Nat
    BY TimeTypes
  <2> HIDE DEF A, G
  <2>2. H \in Nat /\ H >= 1
    <3>1. 1 * G <= A * G /\ A * G \in Nat
      BY <2>1, TimesMonotonic
    <3> QED
      BY <2>1, <3>1
  <2> HIDE DEF H
  <2>3. (H - 1) * Short \in Nat /\ H * QueueTimeout \in Nat /\ (A - 1) * MaxBackoff \in Nat
    BY <2>1, <2>2
  <2>4. 0 <= Deadline + (H - 1) * Short + H * QueueTimeout + (A - 1) * MaxBackoff
    BY <2>1, <2>3
  <2> QED
    BY <2>4 DEF ChainBound, H, A
<1> QED
  BY <1>1, <1>2 DEF Timely

\* A hop is dispatched with time left, and its calls get no more than that.
LEMMA DispatchTimely ==
  ASSUME NEW c \in Chains, chain \in [Chains -> Records], Timely(chain[c]), Dispatch(c)
  PROVE  Timely(chain'[c])
<1> DEFINE r == chain[c]
           cap == CapHopTimeout(OwnTimeout, Remaining(r))
           n == [r EXCEPT !.pc = "call", !.attempt = 1, !.guard = 1,
                          !.timeout = cap, !.recovered = 0, !.unmetered = 0]
<1>1. chain'[c] = n /\ r \in Records /\ ~(Remaining(r) < 1)
  BY DEF Dispatch, DeadlineSpent
<1>2. /\ Deadline \in Nat /\ OwnTimeout \in Nat /\ OwnTimeout >= 1 /\ r.elapsed \in Nat
      /\ Attempts(r.kind) >= 1 /\ GuardCalls(r) >= 1 /\ GuardCalls(r) \in Nat
      /\ QueueTimeout \in Nat /\ MaxBackoff \in Nat
  BY TimeTypes
<1>3. cap \in Nat /\ cap <= Short /\ r.elapsed + cap <= Deadline
  BY <1>1, <1>2 DEF CapHopTimeout, Remaining, AtLeast, AtMost, Short
<1> HIDE DEF cap
<1>4. /\ n.kind = r.kind /\ n.guarded = r.guarded /\ n.elapsed = r.elapsed
      /\ n.pc = "call" /\ n.attempt = 1 /\ n.guard = 1 /\ n.timeout = cap
  BY <1>1 DEF Records
<1> HIDE DEF n
<1>5. ChainBound(n) = ChainBound(r) /\ GuardCalls(n) = GuardCalls(r)
  BY <1>4 DEF ChainBound, HopCalls, GuardCalls
<1>6. CallsMade(n) = 0
  BY <1>2, <1>4, <1>5 DEF CallsMade
<1>7. n.elapsed + n.timeout <= Deadline + CallsMade(n) * (QueueTimeout + n.timeout)
                                 + (n.attempt - 1) * MaxBackoff
  BY <1>2, <1>3, <1>4, <1>6
<1> QED
  BY <1>1, <1>2, <1>3, <1>4, <1>5, <1>7 DEF Timely, InHop

\* One call more, and perhaps a pause.
LEMMA OneMoreCall ==
  ASSUME NEW m \in Nat, NEW n \in Nat, m + 1 <= n, NEW L \in Nat, NEW T \in Nat,
         NEW D \in Nat, NEW e \in Nat, NEW t \in Nat, t <= L,
         NEW pause \in Nat, NEW b \in Nat, NEW p \in Nat, b + pause <= p,
         e + T <= D + m * L + b
  PROVE  e + (t + pause) + T <= D + n * L + p
<1> DEFINE x == m * L
           y == n * L
<1>1. (m + 1) * L = x + L /\ x \in Nat /\ y \in Nat /\ (m + 1) * L <= y
  BY TimesMonotonic
<1>2. e + T <= D + x + b /\ x + L <= y
  BY <1>1
<1> HIDE DEF x, y
<1>3. e + (t + pause) + T <= D + y + p
  BY <1>1, <1>2
<1> QED
  BY <1>3 DEF y

\* A repeated call keeps the chain timely: the guard asks again, or the retry
\* loop does after a pause.
LEMMA CallAgain ==
  ASSUME NEW r \in Records, NEW n \in Records, Timely(r), r.pc = "call", n.pc = "call",
         n.kind = r.kind, n.guarded = r.guarded, n.timeout = r.timeout,
         NEW t \in Nat, t <= QueueTimeout + r.timeout, NEW pause \in Nat,
         r.kind # "direct" => n.elapsed = r.elapsed + (t + pause),
         n.attempt <= Attempts(r.kind), n.guard <= GuardCalls(r),
         \/ n.attempt = r.attempt /\ n.guard = r.guard + 1 /\ pause = 0
         \/ n.attempt = r.attempt + 1 /\ n.guard = 1 /\ pause <= MaxBackoff
  PROVE  Timely(n)
<1> SUFFICES ASSUME r.kind # "direct" PROVE Timely(n)
  BY DEF Timely
<1> DEFINE a == r.attempt
           g == r.guard
           G == GuardCalls(r)
           T == r.timeout
           L == QueueTimeout + T
           m == CallsMade(r)
           k == CallsMade(n)
           b == (a - 1) * MaxBackoff
           p == (n.attempt - 1) * MaxBackoff
<1>0. /\ r.guard <= GuardCalls(r) /\ r.timeout <= Short
      /\ r.elapsed + T <= Deadline + m * L + b
  BY DEF Timely, InHop
<1>1. /\ a \in Nat /\ a >= 1 /\ g \in Nat /\ g >= 1 /\ g <= G /\ G \in Nat
      /\ QueueTimeout \in Nat /\ T \in Nat /\ MaxBackoff \in Nat /\ Deadline \in Nat
      /\ r.elapsed \in Nat /\ n.attempt \in Nat /\ n.guard \in Nat
  BY <1>0, TimeTypes
<1>2. GuardCalls(n) = G /\ ChainBound(n) = ChainBound(r)
  BY DEF GuardCalls, ChainBound, HopCalls
<1>3. m = (a - 1) * G + (g - 1) /\ k = (n.attempt - 1) * G + (n.guard - 1)
  BY <1>2 DEF CallsMade
<1>4. (a - 1) * G \in Nat /\ b \in Nat /\ L \in Nat
  BY <1>1
<1>5. /\ a - 1 + 1 = a
      /\ a * G = (a - 1) * G + G
      /\ a * MaxBackoff = b + MaxBackoff
  <2>1. a - 1 \in Nat /\ a - 1 + 1 = a /\ a - 1 <= a
    BY <1>1
  <2>2. /\ (a - 1 + 1) * G = (a - 1) * G + G
        /\ (a - 1 + 1) * MaxBackoff = (a - 1) * MaxBackoff + MaxBackoff
    <3> HIDE DEF a, G
    <3> QED
      BY <1>1, <2>1, TimesMonotonic
  <2> QED
    BY <2>1, <2>2
<1>6. m \in Nat /\ k \in Nat /\ m + 1 <= k /\ p \in Nat /\ b + pause <= p
  <2> DEFINE u == (a - 1) * G
  <2>1. CASE n.attempt = a /\ n.guard = g + 1 /\ pause = 0
    <3>1. k = u + g /\ m = u + (g - 1) /\ p = b
      BY <1>1, <1>3, <2>1
    <3>2. u \in Nat
      BY <1>4
    <3> HIDE DEF u, m, k, p, b, a, g
    <3> QED
      BY <1>1, <1>4, <2>1, <3>1, <3>2
  <2>2. CASE n.attempt = a + 1 /\ n.guard = 1 /\ pause <= MaxBackoff
    <3>1. n.attempt - 1 = a /\ n.guard - 1 = 0
      BY <1>1, <2>2
    <3>2. k = a * G + 0 /\ p = a * MaxBackoff
      BY <1>3, <3>1
    <3>3. k = u + G + 0 /\ m = u + (g - 1) /\ p = b + MaxBackoff /\ u \in Nat
      BY <1>3, <1>4, <1>5, <3>2
    <3> HIDE DEF u, m, k, p, b, a, g, G
    <3> QED
      BY <1>1, <1>4, <2>2, <3>3
  <2> QED
    BY <2>1, <2>2
<1>7. r.elapsed + (t + pause) + T <= Deadline + k * L + p
  <2>1. /\ t <= L /\ r.elapsed + T <= Deadline + m * L + b
        /\ Deadline \in Nat /\ r.elapsed \in Nat /\ T \in Nat /\ L \in Nat
    BY <1>0, <1>1, <1>4
  <2> HIDE DEF m, k, b, p, L, T
  <2> QED
    BY <1>4, <1>6, <2>1, OneMoreCall
<1>8. InHop(n)
  BY <1>0, <1>2, <1>7 DEF InHop
<1>9. n.elapsed <= ChainBound(n)
  <2>1. /\ 0 \in Nat /\ n.elapsed \in Nat /\ n.timeout \in Nat
        /\ 0 <= QueueTimeout + n.timeout
    BY <1>1, TimeTypes
  <2>2. n.elapsed + 0 <= ChainBound(n)
    BY <1>8, <2>1, CallEndsInTime
  <2> QED
    BY <2>1, <2>2
<1> QED
  BY <1>8, <1>9 DEF Timely

\* How long a call can take.
LEMMA CallDuration ==
  ASSUME NEW r \in Records
  PROVE  /\ \A t \in CallTimes(r.timeout) : t \in Nat /\ t <= QueueTimeout + r.timeout
         /\ \A e \in Errors : \A t \in FailureTimes(e, r.timeout) :
              t \in Nat /\ t <= QueueTimeout + r.timeout
<1>1. r.timeout \in Nat /\ QueueTimeout \in Nat
  BY TimeTypes
<1> QED
  BY <1>1 DEF CallTimes, FailureTimes

\* A connector call that returns leaves its request timely.
LEMMA ReturnTimely ==
  ASSUME TypeOK, AllSound, NEW c \in Chains, Timely(chain[c]), CallReturns(c)
  PROVE  Timely(chain'[c])
<1> DEFINE r == chain[c]
           Took(t) == t \in Nat /\ t <= QueueTimeout + r.timeout
<1>0. /\ chain \in [Chains -> Records] /\ r \in Records
      /\ chain' \in [Chains -> Records] /\ chain'[c] \in Records
  <2>1. chain \in [Chains -> Records] /\ Step(c)
    BY TypeIsRecords, CallReturnsStep
  <2> QED
    BY <2>1, StepSound DEF Step
<1>1. /\ \A t \in CallTimes(r.timeout) : Took(t)
      /\ \A e \in Errors : \A t \in FailureTimes(e, r.timeout) : Took(t)
      /\ CallCosts \subseteq Nat
      /\ \A e \in Errors : Reports(e) \subseteq Nat
  BY <1>0, CallDuration, CallDomains
<1>2. r.pc = "call"
  BY DEF CallReturns, CallThrows, CallSucceeds, GuardRejects, GuardExhausted, RetryCall,
         CallFails
\* The request leaves the hop at the end of its call.
<1>3. ASSUME NEW n, n.pc # "call", n.kind = r.kind, n.guarded = r.guarded,
             NEW t, Took(t), r.kind # "direct" => n.elapsed = r.elapsed + t
      PROVE  Timely(n)
  <2>1. r.kind # "direct" => r.elapsed + t <= ChainBound(r)
    BY <1>0, <1>2, <1>3, CallEndsInTime DEF Timely
  <2> QED
    BY <1>0, <1>3, <2>1, TimelyWaiting
<1>4. ASSUME NEW t, Took(t), CallThrows(c, t) PROVE Timely(chain'[c])
  <2> DEFINE a == After(r, t, 0)
             h == NextHop(a, TRUE)
             n == [h EXCEPT !.spent = 0]
  <2>1. chain'[c] = n
    BY <1>0, <1>4 DEF CallThrows
  <2>2. /\ a \in Records /\ a.kind = r.kind /\ a.guarded = r.guarded
        /\ r.kind # "direct" => a.elapsed = r.elapsed + t
    BY <1>0, <1>4, AfterRecord, AfterClock
  <2> HIDE DEF a
  <2>3. /\ h \in Records /\ h.pc # "call" /\ h.kind = a.kind
        /\ h.guarded = a.guarded /\ h.elapsed = a.elapsed
    BY <2>2, NextHopRecord, LeavingRecord
  <2> HIDE DEF h
  <2>4. n.pc = h.pc /\ n.kind = h.kind /\ n.guarded = h.guarded /\ n.elapsed = h.elapsed
    BY <2>3 DEF Records
  <2> HIDE DEF n
  <2> QED
    BY <1>3, <1>4, <2>1, <2>2, <2>3, <2>4
<1>5. ASSUME NEW t, Took(t), NEW cost \in Nat,
             CallSucceeds(c, t, cost) \/ GuardExhausted(c, t, cost)
      PROVE  Timely(chain'[c])
  <2> DEFINE s == Settled(r, t, cost)
  <2>1. chain'[c] = Ended(s) \/ chain'[c] = NextHop(s, FALSE)
    BY <1>0, <1>5 DEF CallSucceeds, GuardExhausted
  <2>2. s \in Records
    BY <1>0, <1>2, <1>5, SettledRecord DEF AllSound, Sound
  <2>3. /\ s.kind = r.kind /\ s.guarded = r.guarded
        /\ r.kind # "direct" => s.elapsed = r.elapsed + t
    BY <1>0, <1>5, SettledClock
  <2> HIDE DEF s
  <2>4. /\ chain'[c].pc # "call" /\ chain'[c].kind = s.kind
        /\ chain'[c].guarded = s.guarded /\ chain'[c].elapsed = s.elapsed
    BY <2>1, <2>2, LeavingRecord
  <2> QED
    BY <1>3, <1>5, <2>3, <2>4
<1>6. ASSUME NEW e \in Errors, NEW t, Took(t), NEW cost \in Nat, CallFails(c, e, t, cost)
      PROVE  Timely(chain'[c])
  <2> DEFINE s == Settled(r, t, cost)
             type == Candidates[r.hop].type
             advance == ChainShouldAdvance(e, type)
             h == NextHop(s, advance)
             bad == h.cliTimedOut \/ (e = "timeout" /\ type = "cli")
             n == [h EXCEPT !.cliTimedOut = bad]
  <2>1. chain'[c] = n
    BY <1>0, <1>6 DEF CallFails
  <2>2. s \in Records
    BY <1>0, <1>2, <1>6, SettledRecord DEF AllSound, Sound
  <2>3. /\ s.kind = r.kind /\ s.guarded = r.guarded
        /\ r.kind # "direct" => s.elapsed = r.elapsed + t
    BY <1>0, <1>6, SettledClock
  <2>4. advance \in BOOLEAN
    BY DEF ChainShouldAdvance
  <2> HIDE DEF s, advance
  <2>5. /\ h \in Records /\ h.pc # "call" /\ h.kind = s.kind
        /\ h.guarded = s.guarded /\ h.elapsed = s.elapsed
    BY <2>2, <2>4, NextHopRecord, LeavingRecord
  <2> HIDE DEF h, bad
  <2>6. n.pc = h.pc /\ n.kind = h.kind /\ n.guarded = h.guarded /\ n.elapsed = h.elapsed
    BY <2>5 DEF Records
  <2> HIDE DEF n
  <2> QED
    BY <1>3, <1>6, <2>1, <2>3, <2>5, <2>6
<1>7. ASSUME NEW t, Took(t), NEW cost \in Nat, GuardRejects(c, t, cost)
      PROVE  Timely(chain'[c])
  <2> DEFINE a == After(r, t, cost)
             n == [a EXCEPT !.guard = r.guard + 1]
  <2>1. chain'[c] = n /\ r.guarded /\ r.guard < GuardAttempts
    BY <1>0, <1>7 DEF GuardRejects
  <2>2. /\ a \in Records /\ a.pc = r.pc /\ a.kind = r.kind /\ a.guarded = r.guarded
        /\ a.attempt = r.attempt /\ a.timeout = r.timeout
        /\ r.kind # "direct" => a.elapsed = r.elapsed + t
    BY <1>0, <1>7, AfterRecord, AfterClock
  <2> HIDE DEF a
  <2>3. /\ n.pc = "call" /\ n.kind = r.kind /\ n.guarded = r.guarded
        /\ n.attempt = r.attempt /\ n.guard = r.guard + 1 /\ n.timeout = r.timeout
        /\ r.kind # "direct" => n.elapsed = r.elapsed + t
    BY <1>2, <2>2 DEF Records
  <2>4. r.guard + 1 <= GuardCalls(r)
    <3>1. r.guard \in Nat /\ GuardAttempts \in Nat
      BY <1>0, TimeTypes, RoutingAssumption DEF RoutingAssumption
    <3> QED
      BY <2>1, <3>1 DEF GuardCalls
  <2> HIDE DEF n
  <2>5. r.kind # "direct" => n.attempt <= Attempts(r.kind)
    BY <1>2, <2>3 DEF Timely, InHop
  <2>6. r.kind # "direct" => n.elapsed = r.elapsed + (t + 0)
    BY <1>7, <2>3
  <2>7. CASE r.kind = "direct"
    BY <2>1, <2>3, <2>7 DEF Timely
  <2>8. CASE r.kind # "direct"
    BY <1>0, <1>2, <1>7, <2>1, <2>3, <2>4, <2>5, <2>6, <2>8, CallAgain
  <2> QED
    BY <2>7, <2>8
<1>8. ASSUME NEW t, Took(t), NEW cost \in Nat, NEW pause \in 0 .. MaxBackoff,
             RetryCall(c, t, cost, pause)
      PROVE  Timely(chain'[c])
  <2> DEFINE a == After(r, t + pause, cost)
             n == [a EXCEPT !.attempt = r.attempt + 1, !.guard = 1,
                            !.recovered = r.recovered + cost]
  <2>0. pause \in Nat /\ pause <= MaxBackoff /\ t + pause \in Nat
    BY <1>8
  <2>1. chain'[c] = n /\ r.attempt < Attempts(r.kind)
    BY <1>0, <1>8 DEF RetryCall
  <2>2. /\ a \in Records /\ a.pc = r.pc /\ a.kind = r.kind /\ a.guarded = r.guarded
        /\ a.timeout = r.timeout
        /\ r.kind # "direct" => a.elapsed = r.elapsed + (t + pause)
    <3> DEFINE d == t + pause
    <3>1. d \in Nat /\ r \in Records
      BY <1>0, <2>0
    <3> HIDE DEF d, r
    <3>2. /\ After(r, d, cost) \in Records /\ After(r, d, cost).pc = r.pc
          /\ After(r, d, cost).kind = r.kind /\ After(r, d, cost).guarded = r.guarded
      BY <1>8, <3>1, AfterRecord
    <3>3. /\ After(r, d, cost).timeout = r.timeout
          /\ r.kind # "direct" => After(r, d, cost).elapsed = r.elapsed + d
      BY <1>8, <3>1, AfterClock
    <3> QED
      BY <3>2, <3>3 DEF d
  <2> HIDE DEF a
  <2>3. /\ n.pc = "call" /\ n.kind = r.kind /\ n.guarded = r.guarded
        /\ n.attempt = r.attempt + 1 /\ n.guard = 1 /\ n.timeout = r.timeout
        /\ r.kind # "direct" => n.elapsed = r.elapsed + (t + pause)
    BY <1>2, <2>2 DEF Records
  <2>4. r.attempt + 1 <= Attempts(r.kind) /\ 1 <= GuardCalls(r)
    BY <1>0, <2>1, TimeTypes
  <2> HIDE DEF n
  <2> QED
    BY <1>0, <1>2, <1>8, <2>0, <2>1, <2>3, <2>4, CallAgain
<1> HIDE DEF Took
<1> QED
  BY <1>1, <1>4, <1>5, <1>6, <1>7, <1>8 DEF CallReturns

\* The inductive step for the clocks of the chains.
LEMMA NextTimely ==
  ASSUME TypeOK, AllSound, AllTimely, Next
  PROVE  AllTimely'
<1>0. /\ chain \in [Chains -> Records] /\ chain' \in [Chains -> Records]
  BY TypeIsRecords, NextSound DEF TypeOK, Records
<1>1. ASSUME NEW c \in Chains, chain' = [chain EXCEPT ![c] = chain'[c]], Timely(chain'[c])
      PROVE  AllTimely'
  <2>1. \A d \in Chains \ {c} : chain'[d] = chain[d]
    BY <1>0, <1>1
  <2>2. \A d \in Chains : Timely(chain'[d])
    BY <1>1, <2>1 DEF AllTimely
  <2> QED
    BY <2>2 DEF AllTimely, Timely, InHop, ChainBound, CallsMade, GuardCalls, HopCalls
<1>2. ASSUME NEW c \in Chains, NEW kind \in Kinds, NEW guarded \in BOOLEAN,
             NEW hop \in Hops, Start(c, kind, guarded, hop)
      PROVE  AllTimely'
  <2>1. Timely(chain'[c])
    BY <1>0, <1>2, StartTimely
  <2> QED
    BY <1>0, <1>1, <1>2, <2>1 DEF Start
<1>3. ASSUME NEW c \in Chains, StopBeforeHop(c) PROVE AllTimely'
  <2>1. chain'[c] = Ended(chain[c]) /\ chain[c] \in Records /\ Timely(chain[c])
    BY <1>0, <1>3 DEF StopBeforeHop, AllTimely
  <2>2. Timely(Ended(chain[c]))
    <3>1. /\ Ended(chain[c]).pc # "call" /\ Ended(chain[c]).kind = chain[c].kind
          /\ Ended(chain[c]).guarded = chain[c].guarded
          /\ Ended(chain[c]).elapsed = chain[c].elapsed
      BY <2>1, LeavingRecord
    <3>2. chain[c].kind # "direct" => chain[c].elapsed <= ChainBound(chain[c])
      BY <2>1 DEF Timely
    <3> QED
      BY <2>1, <3>1, <3>2, TimelyWaiting
  <2> QED
    BY <1>0, <1>1, <1>3, <2>1, <2>2 DEF StopBeforeHop
<1>4. ASSUME NEW c \in Chains, Dispatch(c) PROVE AllTimely'
  <2>1. Timely(chain'[c])
    BY <1>0, <1>4, DispatchTimely DEF AllTimely
  <2> QED
    BY <1>0, <1>1, <1>4, <2>1 DEF Dispatch
<1>5. ASSUME NEW c \in Chains, CallReturns(c) PROVE AllTimely'
  <2>1. Timely(chain'[c])
    BY <1>5, ReturnTimely DEF AllTimely
  <2>2. chain' = [chain EXCEPT ![c] = chain'[c]]
    BY <1>5, CallReturnsStep DEF Step
  <2> QED
    BY <1>1, <2>1, <2>2
<1>6. CASE UNCHANGED chain
  BY <1>6 DEF AllTimely, Timely, InHop, ChainBound, CallsMade, GuardCalls, HopCalls
<1> QED
  BY <1>2, <1>3, <1>4, <1>5, <1>6 DEF Next, Midnight, Refuse, Advance

\* For any requests, candidates and limits: the deadline caps each connector
\* call of a chain, not the waits, the pauses and the repeated calls, and with
\* those a chain has ended by the bound of ChainOvershoot.
THEOREM DeadlineSafe == Spec => []ChainOvershoot
<1>1. Init => AllTimely
  <2> SUFFICES ASSUME Init PROVE AllTimely
    OBVIOUS
  <2>1. \A c \in Chains : chain[c].kind = "direct"
    BY DEF Init, Idle
  <2> QED
    BY <2>1 DEF AllTimely, Timely
<1>2. TypeOK /\ AllSound /\ AllTimely /\ [Next]_vars => AllTimely'
  <2> SUFFICES ASSUME TypeOK, AllSound, AllTimely, [Next]_vars PROVE AllTimely'
    OBVIOUS
  <2>1. CASE Next
    BY <2>1, NextTimely
  <2>2. CASE UNCHANGED vars
    BY <2>2 DEF vars, AllTimely, Timely, InHop, ChainBound, CallsMade, GuardCalls, HopCalls
  <2> QED
    BY <2>1, <2>2
<1>3. AllTimely => ChainOvershoot
  BY DEF AllTimely, Timely, ChainBound, Short, ChainOvershoot
<1>4. Spec => [](TypeOK /\ AllSound)
  BY SoundInvariant
<1> QED
  BY <1>1, <1>2, <1>3, <1>4, PTL DEF Spec

=============================================================================
