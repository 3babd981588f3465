---------------------------- MODULE BillingProofs ----------------------------
(***************************************************************************)
(* The account of one API key, for any number of calls, intents, requests, *)
(* deposits, estimates and costs: the books balance, a completed intent is *)
(* a charged one, a request is charged once, what is posted is final.      *)
(* Under a condition on the configuration, which the code leaves to the    *)
(* operator, holds are backed by intents and covered by the balance, and   *)
(* every step is a step of the account that Settlement promises.           *)
(* The last part is about the refunds of one deposit (Reversal), whose     *)
(* transaction is not atomic.                                              *)
(***************************************************************************)
EXTENDS Billing, Reversal, FiniteSetTheorems, FunctionTheorems, TLAPS

-----------------------------------------------------------------------------
(* What Total computes, for every finite set: nothing over the empty set,    *)
(* one summand more with one element more, one less with one less, and never *)
(* less than one of its summands. The proofs count the pairs of Units with   *)
(* the theorems on cardinalities, so that no induction is needed.            *)

\* The pairs that one element contributes.
Column(x, n) == {x} \X (1 .. n)

\* An element contributes its summand, and nothing when that is negative.
LEMMA ColumnSize ==
  ASSUME NEW x, NEW n \in Int
  PROVE  /\ IsFiniteSet(Column(x, n))
         /\ Cardinality(Column(x, n)) = AtLeast(n, 0)
<1>1. /\ IsFiniteSet({x})
      /\ Cardinality({x}) = 1
  BY FS_Singleton
<1>2. /\ IsFiniteSet(1 .. n)
      /\ Cardinality(1 .. n) = IF 1 > n THEN 0 ELSE n - 1 + 1
  BY FS_Interval
<1>3. /\ IsFiniteSet({x} \X (1 .. n))
      /\ Cardinality({x} \X (1 .. n)) = 1 * Cardinality(1 .. n)
  BY <1>1, <1>2, FS_Product
<1>4. Cardinality(1 .. n) = AtLeast(n, 0)
  BY <1>2 DEF AtLeast
<1>5. AtLeast(n, 0) \in Nat
  BY DEF AtLeast
<1> QED
  BY <1>3, <1>4, <1>5 DEF Column

\* A total over a finite set is a natural number.
LEMMA TotalType ==
  ASSUME NEW S, IsFiniteSet(S), NEW f, \A x \in S : f[x] \in Int
  PROVE  /\ IsFiniteSet(Units(S, f))
         /\ Total(S, f) \in Nat
<1> DEFINE T == {Column(x, f[x]) : x \in S}
           g == [x \in S |-> Column(x, f[x])]
<1>1. g \in [S -> T] /\ \A t \in T : \E x \in S : g[x] = t
  OBVIOUS
<1>2. g \in Surjection(S, T)
  BY <1>1 DEF Surjection
<1>3. IsFiniteSet(T)
  BY <1>2, FS_Surjection
<1>4. \A t \in T : IsFiniteSet(t)
  BY ColumnSize
<1>5. IsFiniteSet(UNION T)
  BY <1>3, <1>4, FS_UNION
<1>6. UNION T = Units(S, f)
  BY DEF Units, Column
<1> QED
  BY <1>5, <1>6, FS_CardinalityType DEF Total

\* Two families that agree on the set have the same total over it.
LEMMA TotalSame ==
  ASSUME NEW S, NEW f, NEW g, \A x \in S : f[x] = g[x]
  PROVE  Total(S, f) = Total(S, g)
<1>1. {{x} \X (1 .. f[x]) : x \in S} = {{x} \X (1 .. g[x]) : x \in S}
  OBVIOUS
<1> QED
  BY <1>1 DEF Total, Units

\* Over the empty set there is nothing to add up.
LEMMA TotalEmpty ==
  ASSUME NEW f
  PROVE  Total({}, f) = 0
<1>1. Units({}, f) = {}
  BY DEF Units
<1> QED
  BY <1>1, FS_EmptySet DEF Total

\* One element more adds its summand, the others being as they were.
LEMMA TotalAdd ==
  ASSUME NEW S, IsFiniteSet(S), NEW f, \A x \in S : f[x] \in Int,
         NEW e, e \notin S, NEW g, g[e] \in Int, \A x \in S : g[x] = f[x]
  PROVE  Total(S \cup {e}, g) = Total(S, f) + AtLeast(g[e], 0)
<1>1. Units(S \cup {e}, g) = Units(S, f) \cup Column(e, g[e])
  <2>1. \A p : p \in Units(S \cup {e}, g)
                 <=> \E x \in S \cup {e} : p \in Column(x, g[x])
    BY DEF Units, Column
  <2>2. \A p : p \in Units(S, f) <=> \E x \in S : p \in Column(x, f[x])
    BY DEF Units, Column
  <2> QED
    BY <2>1, <2>2
<1>2. Units(S, f) \cap Column(e, g[e]) = {}
  BY DEF Units, Column
<1>3. IsFiniteSet(Units(S, f)) /\ Cardinality(Units(S, f)) \in Nat
  BY TotalType DEF Total
<1>4. /\ IsFiniteSet(Column(e, g[e]))
      /\ Cardinality(Column(e, g[e])) = AtLeast(g[e], 0)
  BY ColumnSize
<1>5. Cardinality(Units(S, f) \cup Column(e, g[e]))
        = Cardinality(Units(S, f)) + Cardinality(Column(e, g[e]))
            - Cardinality(Units(S, f) \cap Column(e, g[e]))
  BY <1>3, <1>4, FS_Union
<1>6. Cardinality(Units(S, f) \cap Column(e, g[e])) = 0
  BY <1>2, FS_EmptySet
<1>7. AtLeast(g[e], 0) \in Nat
  BY DEF AtLeast
<1>8. Cardinality(Units(S, f) \cup Column(e, g[e]))
        = Cardinality(Units(S, f)) + AtLeast(g[e], 0)
  BY <1>3, <1>4, <1>5, <1>6, <1>7
<1> QED
  BY <1>1, <1>8, Zenon DEF Total

\* One element less takes its summand away, the others being as they were.
LEMMA TotalRemove ==
  ASSUME NEW S, IsFiniteSet(S), NEW f, \A x \in S : f[x] \in Int,
         NEW e \in S, NEW g, \A x \in S \ {e} : g[x] = f[x]
  PROVE  Total(S, f) = Total(S \ {e}, g) + AtLeast(f[e], 0)
<1>1. IsFiniteSet(S \ {e})
  BY FS_RemoveElement
<1>2. (S \ {e}) \cup {e} = S
  OBVIOUS
<1>3. Total((S \ {e}) \cup {e}, f) = Total(S \ {e}, g) + AtLeast(f[e], 0)
  BY <1>1, TotalAdd
<1> QED
  BY <1>2, <1>3

\* No summand exceeds the total.
LEMMA TotalBound ==
  ASSUME NEW S, IsFiniteSet(S), NEW f, \A x \in S : f[x] \in Int, NEW e \in S
  PROVE  f[e] <= Total(S, f)
<1>1. Total(S, f) = Total(S \ {e}, f) + AtLeast(f[e], 0)
  BY TotalRemove
<1>2. IsFiniteSet(S \ {e})
  BY FS_RemoveElement
<1>3. Total(S \ {e}, f) \in Nat
  BY <1>2, TotalType
<1> QED
  BY <1>1, <1>3 DEF AtLeast

-----------------------------------------------------------------------------
(* Ledger keys *)

\* Two ledger keys are equal only if they are of one kind and of one thing.
LEMMA KeysDiffer ==
  ASSUME NEW x, NEW y
  PROVE  /\ IntentKey(x) = IntentKey(y) => x = y
         /\ IntentWriteOff(x) = IntentWriteOff(y) => x = y
         /\ RequestKey(x) = RequestKey(y) => x = y
         /\ RequestWriteOff(x) = RequestWriteOff(y) => x = y
         /\ DepositKey(x) = DepositKey(y) => x = y
         /\ ReversalKey(x) = ReversalKey(y) => x = y
         /\ UnrecoveredKey(x) = UnrecoveredKey(y) => x = y
         /\ IntentKey(x) \notin {IntentWriteOff(y), RequestKey(y),
              RequestWriteOff(y), DepositKey(y), ReversalKey(y), UnrecoveredKey(y)}
         /\ IntentWriteOff(x) \notin {RequestKey(y), RequestWriteOff(y),
              DepositKey(y), ReversalKey(y), UnrecoveredKey(y)}
         /\ RequestKey(x) \notin {RequestWriteOff(y), DepositKey(y),
              ReversalKey(y), UnrecoveredKey(y)}
         /\ RequestWriteOff(x) \notin {DepositKey(y), ReversalKey(y), UnrecoveredKey(y)}
         /\ DepositKey(x) \notin {ReversalKey(y), UnrecoveredKey(y)}
         /\ ReversalKey(x) # UnrecoveredKey(y)
  BY DEF IntentKey, IntentWriteOff, RequestKey, RequestWriteOff, DepositKey,
         ReversalKey, UnrecoveredKey

\* The keys the code posts are the keys of the model's ledger.
LEMMA KeysTyped ==
  /\ \A i \in Ids : IntentKey(i) \in LedgerKeys /\ IntentWriteOff(i) \in LedgerKeys
  /\ \A q \in Rows : RequestKey(q) \in LedgerKeys /\ RequestWriteOff(q) \in LedgerKeys
  /\ \A d \in Deposits : /\ DepositKey(d) \in LedgerKeys
                         /\ ReversalKey(d) \in LedgerKeys
                         /\ UnrecoveredKey(d) \in LedgerKeys
  BY DEF LedgerKeys

-----------------------------------------------------------------------------
(* One row more *)

\* What the ledger looks like after one row was posted.
LEMMA PostShape ==
  ASSUME NEW l, NEW k, NEW amount, NEW q
  PROVE  /\ DOMAIN Post(l, k, amount, q) = DOMAIN l \cup {k}
         /\ Post(l, k, amount, q)[k] = [amount |-> amount, request |-> q]
         /\ \A x \in DOMAIN l \ {k} : Post(l, k, amount, q)[x] = l[x]
  BY DEF Post

Amounted(l) == \A k \in DOMAIN l : l[k].amount \in Int

\* A new row adds its amount to the sum of the ledger.
LEMMA PostSum ==
  ASSUME NEW l, IsFiniteSet(DOMAIN l), Amounted(l),
         NEW k, k \notin DOMAIN l, NEW amount \in Int, NEW q
  PROVE  /\ IsFiniteSet(DOMAIN Post(l, k, amount, q))
         /\ Amounted(Post(l, k, amount, q))
         /\ LedgerSum(l) \in Int
         /\ LedgerSum(Post(l, k, amount, q)) = LedgerSum(l) + amount
<1> DEFINE m == Post(l, k, amount, q)
           S == DOMAIN l
           fg == Gains(l)
           gg == Gains(m)
           fl == Losses(l)
           gl == Losses(m)
<1>1. DOMAIN m = S \cup {k}
  BY PostShape
<1>2. IsFiniteSet(DOMAIN m)
  BY <1>1, FS_AddElement
<1>3. m[k].amount = amount /\ \A x \in S : m[x] = l[x]
  BY DEF Post
<1>4. Amounted(m)
  BY <1>1, <1>3 DEF Amounted
<1>5. /\ \A x \in S : fg[x] \in Int
      /\ \A x \in S : gg[x] = fg[x]
      /\ gg[k] \in Int
  BY <1>1, <1>3 DEF Gains, Amounted
<1>6. /\ \A x \in S : fl[x] \in Int
      /\ \A x \in S : gl[x] = fl[x]
      /\ gl[k] \in Int
  BY <1>1, <1>3 DEF Losses, Amounted
<1>7. gg[k] = amount /\ gl[k] = 0 - amount
  BY <1>1, <1>3 DEF Gains, Losses
<1>8. LedgerSum(l) = Total(S, fg) - Total(S, fl)
  BY DEF LedgerSum
<1>9. LedgerSum(m) = Total(S \cup {k}, gg) - Total(S \cup {k}, gl)
  BY <1>1 DEF LedgerSum
<1> HIDE DEF S, fg, gg, fl, gl, m
<1>10. IsFiniteSet(S) /\ k \notin S
  BY DEF S
<1>11. Total(S, fg) \in Nat /\ Total(S, fl) \in Nat
  BY <1>5, <1>6, <1>10, TotalType
<1>12. Total(S \cup {k}, gg) = Total(S, fg) + AtLeast(gg[k], 0)
  BY <1>5, <1>10, TotalAdd, Z3
<1>13. Total(S \cup {k}, gl) = Total(S, fl) + AtLeast(gl[k], 0)
  BY <1>6, <1>10, TotalAdd, Z3
<1>14. AtLeast(gg[k], 0) - AtLeast(gl[k], 0) = amount
       /\ AtLeast(gg[k], 0) \in Int /\ AtLeast(gl[k], 0) \in Int
  BY <1>7 DEF AtLeast
<1>15. LedgerSum(m) = LedgerSum(l) + amount
  BY <1>8, <1>9, <1>11, <1>12, <1>13, <1>14
<1> QED
  BY <1>2, <1>4, <1>8, <1>11, <1>15 DEF m

\* The ledger and the balance as far as types go.
LedgerTyped ==
  /\ balance \in Nat
  /\ Posted \subseteq LedgerKeys
  /\ ledger \in [Posted -> [amount : Int, request : Rows \cup {None}]]
  /\ IsFiniteSet(Posted)

\* A charge or a reversal: the amount in full under k, what was not covered
\* written off under w, the balance down by what was covered.
Posting(k, w, amount, covered, q) ==
  /\ ledger' = PostIfPositive(Post(ledger, k, -amount, q), w, amount - covered, q)
  /\ balance' = balance - covered

\* A posting under two new keys keeps the books and what was posted before.
LEMMA PostingKeeps ==
  ASSUME LedgerTyped, Books,
         NEW k \in LedgerKeys, NEW w \in LedgerKeys, k # w,
         k \notin Posted, w \notin Posted,
         NEW amount \in Nat, NEW covered \in Nat,
         covered <= amount, covered <= balance,
         NEW q \in Rows \cup {None}, Posting(k, w, amount, covered, q)
  PROVE  /\ LedgerTyped'
         /\ Books'
         /\ Posted' = Posted \cup {k} \cup (IF amount > covered THEN {w} ELSE {})
         /\ ledger'[k] = [amount |-> -amount, request |-> q]
         /\ w \in Posted' => ledger'[w] = [amount |-> amount - covered, request |-> q]
         /\ \A x \in Posted : ledger'[x] = ledger[x]
<1> DEFINE charged == Post(ledger, k, -amount, q)
           settled == Post(charged, w, amount - covered, q)
<1>1. /\ DOMAIN charged = Posted \cup {k}
      /\ charged[k] = [amount |-> -amount, request |-> q]
      /\ \A x \in Posted : charged[x] = ledger[x]
  BY DEF Post, Posted
<1>2. /\ DOMAIN settled = Posted \cup {k, w}
      /\ settled[w] = [amount |-> amount - covered, request |-> q]
      /\ \A x \in Posted \cup {k} : settled[x] = charged[x]
  BY <1>1 DEF Post, Posted
<1>3. /\ IsFiniteSet(DOMAIN ledger) /\ Amounted(ledger)
      /\ k \notin DOMAIN ledger /\ -amount \in Int
  BY DEF LedgerTyped, Posted, Amounted
<1>4. /\ IsFiniteSet(DOMAIN charged)
      /\ Amounted(charged)
      /\ LedgerSum(ledger) \in Int
      /\ LedgerSum(charged) = LedgerSum(ledger) + (-amount)
  BY <1>3, PostSum
<1>5. w \notin DOMAIN charged /\ amount - covered \in Int
  BY <1>1
<1>6. /\ IsFiniteSet(DOMAIN settled)
      /\ Amounted(settled)
      /\ LedgerSum(settled) = LedgerSum(charged) + (amount - covered)
  BY <1>4, <1>5, PostSum
<1>7. balance \in Nat /\ balance' = balance - covered /\ balance' \in Nat
  BY DEF LedgerTyped, Posting
<1>8. \A x \in Posted : ledger[x] \in [amount : Int, request : Rows \cup {None}]
  BY DEF LedgerTyped
<1>9. CASE amount > covered
  <2>1. ledger' = settled
    BY <1>9 DEF Posting, PostIfPositive
  <2>2. Posted' = Posted \cup {k, w}
    BY <1>2, <2>1 DEF Posted
  <2>3. /\ ledger'[k] = [amount |-> -amount, request |-> q]
        /\ ledger'[w] = [amount |-> amount - covered, request |-> q]
        /\ \A x \in Posted : ledger'[x] = ledger[x]
    BY <1>1, <1>2, <2>1
  <2>4. \A x \in Posted' : ledger'[x] \in [amount : Int, request : Rows \cup {None}]
    BY <1>8, <2>2, <2>3
  <2>5. ledger' \in [Posted' -> [amount : Int, request : Rows \cup {None}]]
    <3>1. settled = [x \in DOMAIN settled |-> settled[x]]
      BY DEF Post
    <3>2. ledger' = [x \in Posted' |-> ledger'[x]]
      BY <2>1, <3>1 DEF Posted
    <3> QED
      BY <2>4, <3>2
  <2>6. LedgerTyped'
    BY <1>6, <1>7, <2>1, <2>2, <2>5 DEF LedgerTyped, Posted
  <2>7. Books'
    BY <1>4, <1>6, <1>7, <2>1 DEF Books
  <2> QED
    BY <1>9, <2>2, <2>3, <2>6, <2>7
<1>10. CASE ~(amount > covered)
  <2>1. ledger' = charged
    BY <1>10 DEF Posting, PostIfPositive
  <2>2. Posted' = Posted \cup {k}
    BY <1>1, <2>1 DEF Posted
  <2>3. /\ ledger'[k] = [amount |-> -amount, request |-> q]
        /\ \A x \in Posted : ledger'[x] = ledger[x]
    BY <1>1, <2>1
  <2>4. \A x \in Posted' : ledger'[x] \in [amount : Int, request : Rows \cup {None}]
    BY <1>8, <2>2, <2>3
  <2>5. ledger' \in [Posted' -> [amount : Int, request : Rows \cup {None}]]
    <3>1. charged = [x \in DOMAIN charged |-> charged[x]]
      BY DEF Post
    <3>2. ledger' = [x \in Posted' |-> ledger'[x]]
      BY <2>1, <3>1 DEF Posted
    <3> QED
      BY <2>4, <3>2
  <2>6. LedgerTyped'
    BY <1>4, <1>7, <2>1, <2>2, <2>5 DEF LedgerTyped, Posted
  <2>7. amount = covered
    BY <1>10
  <2>8. Books'
    BY <1>4, <1>7, <2>1, <2>7 DEF Books
  <2> QED
    BY <1>10, <2>2, <2>3, <2>6, <2>8
<1> QED
  BY <1>9, <1>10

\* A deposit is one row more and as much balance more.
LEMMA DepositKeeps ==
  ASSUME LedgerTyped, Books, NEW d \in Deposits, NEW amount \in Nat,
         Deposit(d, amount)
  PROVE  /\ LedgerTyped'
         /\ Books'
         /\ Posted' = Posted \cup {DepositKey(d)}
         /\ ledger'[DepositKey(d)] = [amount |-> amount, request |-> None]
         /\ \A x \in Posted : ledger'[x] = ledger[x]
<1> DEFINE k == DepositKey(d)
           m == Post(ledger, k, amount, None)
<1>1. k \notin Posted /\ ledger' = m /\ balance' = balance + amount
  BY DEF Deposit
<1>2. /\ DOMAIN m = Posted \cup {k}
      /\ m[k] = [amount |-> amount, request |-> None]
      /\ \A x \in Posted : m[x] = ledger[x]
  BY <1>1 DEF Post, Posted
<1>3. /\ IsFiniteSet(DOMAIN ledger) /\ Amounted(ledger)
      /\ k \notin DOMAIN ledger /\ amount \in Int
  BY <1>1 DEF LedgerTyped, Posted, Amounted
<1>4. /\ IsFiniteSet(DOMAIN m)
      /\ LedgerSum(ledger) \in Int
      /\ LedgerSum(m) = LedgerSum(ledger) + amount
  BY <1>3, PostSum
<1>5. Posted' = Posted \cup {k}
  BY <1>1, <1>2 DEF Posted
<1>6. \A x \in Posted' : ledger'[x] \in [amount : Int, request : Rows \cup {None}]
  BY <1>1, <1>2, <1>5 DEF LedgerTyped
<1>7. ledger' \in [Posted' -> [amount : Int, request : Rows \cup {None}]]
  <2>1. m = [x \in DOMAIN m |-> m[x]]
    BY DEF Post
  <2>2. ledger' = [x \in Posted' |-> ledger'[x]]
    BY <1>1, <2>1 DEF Posted
  <2> QED
    BY <1>6, <2>2
<1>8. k \in LedgerKeys
  BY KeysTyped
<1>9. balance' \in Nat
  BY <1>1 DEF LedgerTyped
<1>10. LedgerTyped'
  BY <1>1, <1>4, <1>5, <1>7, <1>8, <1>9 DEF LedgerTyped, Posted
<1>11. Books'
  BY <1>1, <1>4, <1>9 DEF Books
<1> QED
  BY <1>1, <1>2, <1>5, <1>10, <1>11

-----------------------------------------------------------------------------
(* Types *)

IntentRecords == [state : IntentStates, key : Keys \cup {None}, hold : Nat,
                  due : BOOLEAN, aged : BOOLEAN]
RequestRecords == [age : {"none", "fresh", "ripe", "stale"}, cost : Nat,
                   chargeable : BOOLEAN, id : Ids \cup {None}]
CallRecords == [pc : {"idle", "reclaim", "dispatch"}, id : Ids \cup {None},
                hold : Nat, reclaimed : BOOLEAN, attempt : Nat, recovered : Nat]
JobRecords == [pc : {"idle", "sweep", "scan", "reconcile"},
               sweep : SUBSET Handles, orphans : SUBSET Rows]

\* The tables, the calls and the job as far as types go: TypeOK, and that a
\* call that reclaims has an intent to reclaim.
TablesTyped ==
  /\ held \in Nat
  /\ intent \in [Ids -> IntentRecords]
  /\ request \in [Rows -> RequestRecords]
  /\ call \in [Calls -> CallRecords]
  /\ job \in JobRecords
  /\ \A c \in Calls : call[c].pc = "reclaim" => call[c].id \in Ids

LEMMA TypedImpliesTypeOK == LedgerTyped /\ TablesTyped => TypeOK
  BY DEF LedgerTyped, TablesTyped, TypeOK, IntentRecords, RequestRecords,
         CallRecords, JobRecords

\* The numbers of the configuration are natural numbers.
LEMMA Configured ==
  /\ Reservations \subseteq Nat
  /\ Costs \subseteq Nat
  /\ MaxAttempts \in Nat
  /\ \A amount \in Amounts : amount \in Nat
  /\ None \notin Ids /\ None \notin Rows
<1>1. Reservations \subseteq Estimates \cup {0}
  BY DEF Reservations
<1> QED
  BY <1>1, BillingAssumption DEF BillingAssumption

\* What Release does to the intents and the held amount.
LEMMA ReleaseTyped ==
  ASSUME held \in Nat, intent \in [Ids -> IntentRecords],
         NEW i \in Ids, NEW h \in Nat, NEW state \in {"released", "expired"},
         Release(i, h, state)
  PROVE  held' \in Nat /\ intent' \in [Ids -> IntentRecords]
<1>1. HeldAfterRelease(h) \in Nat
  BY DEF HeldAfterRelease, AtLeast
<1>2. [intent EXCEPT ![i].state = state] \in [Ids -> IntentRecords]
  BY DEF IntentRecords, IntentStates
<1> QED
  BY <1>1, <1>2 DEF Release

\* A call that tries again is the same call, one attempt and its cost later.
LEMMA Retried ==
  ASSUME call \in [Calls -> CallRecords], NEW c \in Calls, NEW cost \in Nat,
         RetryAttempt(c, cost)
  PROVE  /\ call' \in [Calls -> CallRecords]
         /\ \A d \in Calls : /\ call'[d].pc = call[d].pc
                             /\ call'[d].id = call[d].id
                             /\ call'[d].hold = call[d].hold
<1> DEFINE a == call[c].attempt + 1
           b == call[c].recovered + cost
           r == [call[c] EXCEPT !.attempt = a]
           s == [r EXCEPT !.recovered = b]
<1>1. call[c] \in CallRecords /\ a \in Nat /\ b \in Nat
  BY DEF CallRecords
<1>2. call' = [call EXCEPT ![c] = s]
  BY DEF RetryAttempt
<1> HIDE DEF a, b
<1>3. /\ r \in CallRecords
      /\ r.pc = call[c].pc /\ r.id = call[c].id /\ r.hold = call[c].hold
  BY <1>1 DEF CallRecords
<1> HIDE DEF r
<1>4. s \in CallRecords /\ s.pc = r.pc /\ s.id = r.id /\ s.hold = r.hold
  BY <1>1, <1>3 DEF CallRecords
<1> HIDE DEF s
<1>5. call' \in [Calls -> CallRecords]
  BY <1>2, <1>4
<1>6. \A d \in Calls : call'[d] = IF d = c THEN s ELSE call[d]
  BY <1>2
<1> QED
  BY <1>3, <1>4, <1>5, <1>6

\* A call's steps keep the types.
LEMMA CallTyped ==
  ASSUME TablesTyped, NEW c \in Calls, CallStep(c)
  PROVE  TablesTyped'
<1> USE DEF TablesTyped
<1>0. NoCall \in CallRecords /\ NoCall.pc = "idle"
  BY DEF NoCall, CallRecords
<1>1. ASSUME NEW i \in Ids, NEW k \in Keys, NEW h \in Reservations,
             OpenIntent(c, i, k, h)
      PROVE  TablesTyped'
  <2>1. h \in Nat
    BY Configured
  <2> QED
    BY <1>1, <2>1 DEF OpenIntent, IntentRecords, IntentStates, CallRecords
<1>2. ASSUME NEW i \in Ids, NEW h \in Reservations, FindAbandoned(c, i, h)
      PROVE  TablesTyped'
  <2>1. h \in Nat
    BY Configured
  <2> QED
    BY <1>2, <2>1 DEF FindAbandoned, CallRecords
<1>3. ASSUME Reclaim(c) PROVE TablesTyped'
  <2>1. call[c].id \in Ids /\ call[c].hold \in Nat
    BY <1>3 DEF Reclaim, CallRecords
  <2>2. intent' \in [Ids -> IntentRecords]
    BY <1>3, <2>1 DEF Reclaim, IntentRecords, IntentStates
  <2>3. held' \in Nat
    BY <1>3, <2>1 DEF Reclaim
  <2>4. call' \in [Calls -> CallRecords] /\ \A d \in Calls \ {c} : call'[d] = call[d]
    BY <1>3 DEF Reclaim, CallRecords
  <2>5. call'[c].pc = "dispatch"
    BY <1>3 DEF Reclaim, CallRecords
  <2> QED
    BY <1>3, <2>2, <2>3, <2>4, <2>5 DEF Reclaim
<1>4. ASSUME ReclaimRefused(c) \/ Abandon(c) PROVE TablesTyped'
  BY <1>0, <1>4 DEF ReclaimRefused, Abandon
<1>5. ASSUME OpenWithoutIntent(c) PROVE TablesTyped'
  BY <1>5 DEF OpenWithoutIntent, CallRecords
<1>6. ASSUME NEW cost \in Costs, RetryAttempt(c, cost) PROVE TablesTyped'
  <2>1. cost \in Nat
    BY Configured
  <2>2. /\ call' \in [Calls -> CallRecords]
        /\ \A d \in Calls : call'[d].pc = call[d].pc /\ call'[d].id = call[d].id
    BY <1>6, <2>1, Retried
  <2> QED
    BY <1>6, <2>2 DEF RetryAttempt
<1>7. ASSUME NEW q \in Rows, NEW cost \in Costs, NEW chargeable \in BOOLEAN,
             Settle(c, q, cost, chargeable)
      PROVE  TablesTyped'
  <2> DEFINE i == call[c].id
             total == call[c].recovered + cost
  <2>1. total \in Nat /\ i \in Ids \cup {None} /\ call[c].hold \in Nat
    BY Configured DEF CallRecords
  <2>2. request' \in [Rows -> RequestRecords]
    BY <1>7, <2>1 DEF Settle, InsertRequest, RequestRecords
  <2>3. call' = [call EXCEPT ![c] = NoCall] /\ UNCHANGED job
    BY <1>7 DEF Settle
  <2>4. \/ UNCHANGED <<held, intent>>
        \/ /\ i \in Ids
           /\ intent' = [intent EXCEPT ![i].state = "completed"]
           /\ held' = HeldAfterRelease(call[c].hold)
    BY <1>7, <2>1 DEF Settle
  <2>5. held' \in Nat /\ intent' \in [Ids -> IntentRecords]
    BY <2>1, <2>4 DEF HeldAfterRelease, AtLeast, IntentRecords, IntentStates
  <2> QED
    BY <1>0, <2>2, <2>3, <2>5
<1>8. ASSUME NEW q \in Rows, NEW cost \in Costs, SettleRetryGranted(c, q, cost)
      PROVE  TablesTyped'
  <2> DEFINE i == call[c].id
             recovered == call[c].recovered
  <2>1. /\ cost \in Nat /\ recovered \in Nat
        /\ i \in Ids /\ call[c].hold \in Nat
    BY <1>8, Configured DEF SettleRetryGranted, CallRecords
  <2>2. InsertRequest(q, recovered, TRUE, i) \/ InsertRequest(q, cost, FALSE, i)
    BY <1>8 DEF SettleRetryGranted
  <2>3. request' \in [Rows -> RequestRecords]
    <3>1. ASSUME NEW n \in Nat, NEW b \in BOOLEAN, InsertRequest(q, n, b, i)
          PROVE  request' \in [Rows -> RequestRecords]
      BY <2>1, <3>1 DEF InsertRequest, RequestRecords
    <3> QED
      BY <2>1, <2>2, <3>1
  <2>4. held' \in Nat /\ intent' \in [Ids -> IntentRecords]
    BY <1>8, <2>1, ReleaseTyped DEF SettleRetryGranted
  <2> QED
    BY <1>0, <1>8, <2>3, <2>4 DEF SettleRetryGranted
<1>9. ASSUME GiveUp(c) PROVE TablesTyped'
  <2>1. call[c].id \in Ids \cup {None} /\ call[c].hold \in Nat
    BY DEF CallRecords
  <2>2. held' \in Nat /\ intent' \in [Ids -> IntentRecords]
    BY <1>9, <2>1, ReleaseTyped DEF GiveUp
  <2> QED
    BY <1>0, <1>9, <2>2 DEF GiveUp
<1> QED
  BY <1>1, <1>2, <1>3, <1>4, <1>5, <1>6, <1>7, <1>8, <1>9 DEF CallStep

\* So do the steps of the job.
LEMMA JobTyped ==
  ASSUME TablesTyped, JobStep
  PROVE  TablesTyped'
<1> USE DEF TablesTyped
<1>1. CASE SweepRead
  <2>1. \A i \in Ids : [id |-> i, hold |-> intent[i].hold] \in Handles
    BY DEF IntentRecords, Handles
  <2> DEFINE due == {[id |-> i, hold |-> intent[i].hold] :
                       i \in {j \in Ids : intent[j].state = "held" /\ intent[j].due}}
             r == [job EXCEPT !.pc = "sweep"]
  <2>2. due \in SUBSET Handles
    BY <2>1
  <2>3. job' = [r EXCEPT !.sweep = due] /\ UNCHANGED <<held, intent, request, call>>
    BY <1>1 DEF SweepRead
  <2>4. r \in JobRecords
    BY DEF JobRecords
  <2> HIDE DEF due, r
  <2>5. job' \in JobRecords
    BY <2>2, <2>3, <2>4 DEF JobRecords
  <2> QED
    BY <2>3, <2>5
<1>2. ASSUME NEW x \in job.sweep, SweepOne(x) PROVE TablesTyped'
  <2>1. x \in Handles /\ x.id \in Ids /\ x.hold \in Nat
    BY DEF JobRecords, Handles
  <2>2. held' \in Nat /\ intent' \in [Ids -> IntentRecords]
    BY <1>2, <2>1, ReleaseTyped DEF SweepOne
  <2> QED
    BY <1>2, <2>2 DEF SweepOne, JobRecords
<1>3. CASE Purge
  <2>1. \A i \in Ids : [intent[i] EXCEPT !.state = "purged"] \in IntentRecords
    BY DEF IntentRecords, IntentStates
  <2>2. intent' \in [Ids -> IntentRecords]
    BY <1>3, <2>1 DEF Purge
  <2> QED
    BY <1>3, <2>2 DEF Purge, JobRecords
<1>4. CASE MaintenanceFails
  BY <1>4 DEF MaintenanceFails, JobRecords
<1>5. CASE FindUnsettled
  BY <1>5 DEF FindUnsettled, JobRecords
<1>6. ASSUME NEW q \in job.orphans, ReconcileOne(q) PROVE TablesTyped'
  BY <1>6 DEF ReconcileOne, JobRecords
<1>7. CASE ReconcileDone
  BY <1>7 DEF ReconcileDone, JobRecords
<1> QED
  BY <1>1, <1>2, <1>3, <1>4, <1>5, <1>6, <1>7 DEF JobStep

\* Deposits and refunds do not touch the tables, and time only marks rows.
LEMMA FundsTimeTyped ==
  ASSUME TablesTyped, FundsStep \/ TimeStep
  PROVE  TablesTyped'
<1> USE DEF TablesTyped
<1>1. CASE FundsStep
  BY <1>1 DEF FundsStep, Reverse, Deposit
<1>2. ASSUME NEW i \in Ids, HoldExpires(i) \/ IntentAges(i) PROVE TablesTyped'
  <2>1. /\ [intent EXCEPT ![i].due = TRUE] \in [Ids -> IntentRecords]
        /\ [intent EXCEPT ![i].aged = TRUE] \in [Ids -> IntentRecords]
    BY DEF IntentRecords
  <2> QED
    BY <1>2, <2>1 DEF HoldExpires, IntentAges
<1>3. ASSUME NEW q \in Rows, RequestAges(q) PROVE TablesTyped'
  BY <1>3 DEF RequestAges, RequestRecords
<1> QED
  BY <1>1, <1>2, <1>3 DEF TimeStep

-----------------------------------------------------------------------------
(* What a step does to the ledger *)

\* persistAndSettle completes an intent and charges it.
SettlesIntent(i, q, owed) ==
  /\ intent[i].state = "held"
  /\ intent' = [intent EXCEPT ![i].state = "completed"]
  /\ request[q].age = "none"
  /\ request' = [request EXCEPT ![q] = request'[q]]
  /\ request'[q].age = "fresh" /\ request'[q].id = i
  /\ UNCHANGED job
  /\ IntentKey(i) \notin Posted
  /\ Posting(IntentKey(i), IntentWriteOff(i), owed, AtMost(owed, balance), q)

\* persistAndSettle without an intent charges the request it inserts.
SettlesRequest(q, owed) ==
  /\ request[q].age = "none"
  /\ request' = [request EXCEPT ![q] = request'[q]]
  /\ request'[q].age = "fresh" /\ request'[q].id = None
  /\ UNCHANGED <<held, intent, job>>
  /\ RequestKey(q) \notin Posted
  /\ Posting(RequestKey(q), RequestWriteOff(q), owed, AtMost(owed, balance), q)

\* The reconciler charges a request on its list.
Reconciles(q, owed) ==
  /\ q \in job.orphans
  /\ job' = [job EXCEPT !.orphans = @ \ {q}]
  /\ UNCHANGED <<held, intent, request>>
  /\ RequestKey(q) \notin Posted
  /\ Posting(RequestKey(q), RequestWriteOff(q), owed, AtMost(owed, balance), q)

\* reverse() recovers what is spendable and writes off the rest.
Refunds(d, amount, recovered) ==
  /\ DepositKey(d) \in Posted /\ amount = ledger[DepositKey(d)].amount
  /\ recovered = AtMost(amount, AtLeast(balance - held, 0))
  /\ recovered <= balance
  /\ recovered > 0 => held <= balance - recovered
  /\ UNCHANGED <<held, intent, request, job>>
  /\ ReversalKey(d) \notin Posted
  /\ Posting(ReversalKey(d), UnrecoveredKey(d), amount, recovered, None)

LedgerStep ==
  \/ UNCHANGED <<balance, ledger>>
  \/ \E i \in Ids, q \in Rows, owed \in Nat : SettlesIntent(i, q, owed)
  \/ \E q \in Rows, owed \in Nat : SettlesRequest(q, owed) \/ Reconciles(q, owed)
  \/ \E d \in Deposits, amount, recovered \in Nat :
       recovered <= amount /\ Refunds(d, amount, recovered)
  \/ \E d \in Deposits, amount \in Amounts : Deposit(d, amount)

\* A charge is a posting of what the balance covers.
LEMMA ChargePosts ==
  ASSUME NEW k, NEW w, NEW amount, NEW q, Charge(k, w, amount, q)
  PROVE  /\ k \notin Posted
         /\ Posting(k, w, amount, AtMost(amount, balance), q)
  BY DEF Charge, Posting

\* Deposits are posted with the amounts they may have.
DepositsPositive ==
  \A d \in Deposits : DepositKey(d) \in Posted => ledger[DepositKey(d)].amount \in Nat

\* Every step that touches the ledger is one of the five.
LEMMA LedgerSteps ==
  ASSUME LedgerTyped, TablesTyped, DepositsPositive, Next
  PROVE  LedgerStep
<1>1. ASSUME NEW c \in Calls, CallStep(c), ~ UNCHANGED <<balance, ledger>>
      PROVE  LedgerStep
  <2>1. PICK q \in Rows, cost \in Costs, chargeable \in BOOLEAN :
               Settle(c, q, cost, chargeable)
    BY <1>1 DEF CallStep, OpenIntent, FindAbandoned, Reclaim, ReclaimRefused,
            OpenWithoutIntent, RetryAttempt, SettleRetryGranted, GiveUp, Abandon
  <2> DEFINE i == call[c].id
             total == call[c].recovered + cost
             owed == IF chargeable THEN total ELSE 0
  <2>2. call[c] \in CallRecords
    BY DEF TablesTyped
  <2>3. total \in Nat /\ i \in Ids \cup {None}
    BY <2>2, Configured DEF CallRecords
  <2>4. owed \in Nat
    BY <2>3
  <2>5. InsertRequest(q, total, chargeable, i) /\ UNCHANGED job
    BY <2>1 DEF Settle
  <2>6. /\ request[q].age = "none"
        /\ request' = [request EXCEPT ![q] = request'[q]]
        /\ request'[q].age = "fresh" /\ request'[q].id = i
    BY <2>5 DEF InsertRequest, TablesTyped
  <2>7. CASE i = None
    <3>1. /\ Charge(RequestKey(q), RequestWriteOff(q), owed, q)
          /\ UNCHANGED <<held, intent>>
      BY <2>1, <2>7 DEF Settle
    <3>2. SettlesRequest(q, owed)
      BY <2>5, <2>6, <2>7, <3>1, ChargePosts DEF SettlesRequest
    <3> QED
      BY <2>4, <3>2 DEF LedgerStep
  <2>8. CASE i # None
    <3>1. i \in Ids
      BY <2>3, <2>8
    <3>2. /\ intent[i].state = "held"
          /\ intent' = [intent EXCEPT ![i].state = "completed"]
          /\ Charge(IntentKey(i), IntentWriteOff(i), owed, q)
      BY <1>1, <2>1, <2>8 DEF Settle
    <3>3. SettlesIntent(i, q, owed)
      BY <2>5, <2>6, <3>2, ChargePosts DEF SettlesIntent
    <3> QED
      BY <2>4, <3>1, <3>3 DEF LedgerStep
  <2> QED
    BY <2>7, <2>8
<1>2. ASSUME JobStep, ~ UNCHANGED <<balance, ledger>> PROVE LedgerStep
  <2>1. PICK q \in job.orphans : ReconcileOne(q)
    BY <1>2 DEF JobStep, SweepRead, SweepOne, Purge, MaintenanceFails,
            FindUnsettled, ReconcileDone
  <2>2. /\ Charge(RequestKey(q), RequestWriteOff(q), request[q].cost, q)
        /\ job' = [job EXCEPT !.orphans = @ \ {q}]
        /\ UNCHANGED <<held, intent, request>>
    BY <1>2, <2>1 DEF ReconcileOne
  <2>3. q \in Rows /\ request[q].cost \in Nat
    BY DEF TablesTyped, JobRecords, RequestRecords
  <2>4. Reconciles(q, request[q].cost)
    BY <2>2, ChargePosts DEF Reconciles
  <2> QED
    BY <2>3, <2>4 DEF LedgerStep
<1>3. ASSUME NEW d \in Deposits, Reverse(d) PROVE LedgerStep
  <2> DEFINE amount == ledger[DepositKey(d)].amount
             recovered == AtMost(amount, AtLeast(balance - held, 0))
  <2>1. amount \in Nat
    BY <1>3 DEF Reverse, DepositsPositive
  <2>2. balance \in Nat /\ held \in Nat
    BY DEF LedgerTyped, TablesTyped
  <2>3. /\ recovered \in Nat /\ recovered <= amount /\ recovered <= balance
        /\ recovered > 0 => held <= balance - recovered
    BY <2>1, <2>2 DEF AtMost, AtLeast
  <2>4. /\ ReversalKey(d) \notin Posted
        /\ Posting(ReversalKey(d), UnrecoveredKey(d), amount, recovered, None)
        /\ UNCHANGED <<held, intent, request, job>>
        /\ DepositKey(d) \in Posted
    BY <1>3 DEF Reverse, Posting
  <2>5. Refunds(d, amount, recovered)
    BY <2>3, <2>4 DEF Refunds
  <2> QED
    BY <2>1, <2>3, <2>5 DEF LedgerStep
<1>4. ASSUME TimeStep PROVE UNCHANGED <<balance, ledger>>
  BY <1>4 DEF TimeStep, HoldExpires, IntentAges, RequestAges
<1> QED
  BY <1>1, <1>2, <1>3, <1>4 DEF Next, FundsStep, LedgerStep

-----------------------------------------------------------------------------
(* The books, and which intents are charged *)

\* A write-off is only posted with what it writes off.
WriteOffsFollow ==
  /\ \A i \in Ids : IntentWriteOff(i) \in Posted => IntentKey(i) \in Posted
  /\ \A q \in Rows : RequestWriteOff(q) \in Posted => RequestKey(q) \in Posted
  /\ \A d \in Deposits : UnrecoveredKey(d) \in Posted => ReversalKey(d) \in Posted

LedgerInv == LedgerTyped /\ Books /\ WriteOffsFollow /\ DepositsPositive

IInv == LedgerInv /\ TablesTyped /\ CompletedIsCharged

\* What one of the five kinds of posting guarantees.
Posts(k, w, amount, covered, q) ==
  /\ LedgerTyped'
  /\ Books'
  /\ Posted' = Posted \cup {k} \cup (IF amount > covered THEN {w} ELSE {})
  /\ ledger'[k] = [amount |-> -amount, request |-> q]
  /\ w \in Posted' => ledger'[w] = [amount |-> amount - covered, request |-> q]
  /\ \A x \in Posted : ledger'[x] = ledger[x]

\* The balance covers no more than it has and no more than is charged.
LEMMA Covered ==
  ASSUME LedgerTyped, NEW amount \in Nat
  PROVE  /\ AtMost(amount, balance) \in Nat
         /\ AtMost(amount, balance) <= amount
         /\ AtMost(amount, balance) <= balance
  BY DEF LedgerTyped, AtMost

\* The four kinds of posting that can write off keep the books.
LEMMA KindsPost ==
  ASSUME LedgerInv
  PROVE  /\ \A i \in Ids, q \in Rows, owed \in Nat : SettlesIntent(i, q, owed) =>
              Posts(IntentKey(i), IntentWriteOff(i), owed, AtMost(owed, balance), q)
         /\ \A q \in Rows, owed \in Nat : SettlesRequest(q, owed) \/ Reconciles(q, owed) =>
              Posts(RequestKey(q), RequestWriteOff(q), owed, AtMost(owed, balance), q)
         /\ \A d \in Deposits, amount, recovered \in Nat :
              recovered <= amount /\ Refunds(d, amount, recovered) =>
                Posts(ReversalKey(d), UnrecoveredKey(d), amount, recovered, None)
<1> USE DEF LedgerInv
<1>1. ASSUME NEW i \in Ids, NEW q \in Rows, NEW owed \in Nat, SettlesIntent(i, q, owed)
      PROVE  Posts(IntentKey(i), IntentWriteOff(i), owed, AtMost(owed, balance), q)
  <2>1. /\ IntentKey(i) \in LedgerKeys /\ IntentWriteOff(i) \in LedgerKeys
        /\ IntentKey(i) # IntentWriteOff(i)
    BY KeysTyped, KeysDiffer
  <2>2. IntentKey(i) \notin Posted /\ IntentWriteOff(i) \notin Posted
    BY <1>1 DEF SettlesIntent, WriteOffsFollow
  <2>3. Posting(IntentKey(i), IntentWriteOff(i), owed, AtMost(owed, balance), q)
    BY <1>1 DEF SettlesIntent
  <2> QED
    BY <2>1, <2>2, <2>3, Covered, PostingKeeps DEF Posts
<1>2. ASSUME NEW q \in Rows, NEW owed \in Nat, SettlesRequest(q, owed) \/ Reconciles(q, owed)
      PROVE  Posts(RequestKey(q), RequestWriteOff(q), owed, AtMost(owed, balance), q)
  <2>1. /\ RequestKey(q) \in LedgerKeys /\ RequestWriteOff(q) \in LedgerKeys
        /\ RequestKey(q) # RequestWriteOff(q)
    BY KeysTyped, KeysDiffer
  <2>2. RequestKey(q) \notin Posted /\ RequestWriteOff(q) \notin Posted
    BY <1>2 DEF SettlesRequest, Reconciles, WriteOffsFollow
  <2>3. Posting(RequestKey(q), RequestWriteOff(q), owed, AtMost(owed, balance), q)
    BY <1>2 DEF SettlesRequest, Reconciles
  <2> QED
    BY <2>1, <2>2, <2>3, Covered, PostingKeeps DEF Posts
<1>3. ASSUME NEW d \in Deposits, NEW amount \in Nat, NEW recovered \in Nat,
             recovered <= amount, Refunds(d, amount, recovered)
      PROVE  Posts(ReversalKey(d), UnrecoveredKey(d), amount, recovered, None)
  <2>1. /\ ReversalKey(d) \in LedgerKeys /\ UnrecoveredKey(d) \in LedgerKeys
        /\ ReversalKey(d) # UnrecoveredKey(d)
    BY KeysTyped, KeysDiffer
  <2>2. ReversalKey(d) \notin Posted /\ UnrecoveredKey(d) \notin Posted
    BY <1>3 DEF Refunds, WriteOffsFollow
  <2>3. /\ recovered <= balance
        /\ Posting(ReversalKey(d), UnrecoveredKey(d), amount, recovered, None)
    BY <1>3 DEF Refunds
  <2> QED
    BY <1>3, <2>1, <2>2, <2>3, PostingKeeps DEF Posts
<1> QED
  BY <1>1, <1>2, <1>3

\* Nothing but a settlement completes an intent, and nothing but the purge
\* takes a completed intent away.
IntentStep ==
  \/ \E i \in Ids, q \in Rows, owed \in Nat : SettlesIntent(i, q, owed)
  \/ \A i \in Ids :
       /\ intent'[i].state = "completed" => intent[i].state = "completed"
       /\ intent[i].state \in {"completed", "purged"}
            => intent'[i].state \in {"completed", "purged"}
       /\ intent[i].state = "purged" => intent'[i].state = "purged"

LEMMA IntentSteps ==
  ASSUME LedgerTyped, TablesTyped, DepositsPositive, Next
  PROVE  IntentStep
<1> DEFINE Kept == \A i \in Ids :
       /\ intent'[i].state = "completed" => intent[i].state = "completed"
       /\ intent[i].state \in {"completed", "purged"}
            => intent'[i].state \in {"completed", "purged"}
       /\ intent[i].state = "purged" => intent'[i].state = "purged"
<1>0. intent \in [Ids -> IntentRecords]
  BY DEF TablesTyped
<1>1. ASSUME NEW i, NEW h, NEW state \in {"released", "expired"}, Release(i, h, state)
      PROVE  Kept
  BY <1>0, <1>1 DEF Release, IntentRecords
<1>2. ASSUME NEW c \in Calls, CallStep(c) PROVE IntentStep
  <2>1. ASSUME NEW i \in Ids, NEW k \in Keys, NEW h \in Reservations,
               OpenIntent(c, i, k, h)
        PROVE  Kept
    BY <1>0, <2>1 DEF OpenIntent, IntentRecords
  <2>2. ASSUME Reclaim(c) PROVE Kept
    <3> DEFINE i == call[c].id
               h == call[c].hold
    <3>1. /\ intent[i].state \in {"released", "expired"}
          /\ intent' = [intent EXCEPT ![i] = [@ EXCEPT !.state = "held", !.hold = h, !.due = FALSE]]
      BY <2>2 DEF Reclaim
    <3>2. i \in Ids
      BY <2>2 DEF Reclaim, TablesTyped
    <3> HIDE DEF i, h
    <3>3. intent'[i].state = "held" /\ \A j \in Ids \ {i} : intent'[j] = intent[j]
      BY <1>0, <3>1, <3>2 DEF IntentRecords
    <3> QED
      BY <3>1, <3>2, <3>3
  <2>3. ASSUME NEW q \in Rows, NEW cost \in Costs, NEW chargeable \in BOOLEAN,
               Settle(c, q, cost, chargeable)
        PROVE  IntentStep
    <3>1. CASE UNCHANGED intent
      BY <3>1 DEF IntentStep
    <3>2. CASE ~ UNCHANGED intent
      <4> DEFINE i == call[c].id
                 total == call[c].recovered + cost
                 owed == IF chargeable THEN total ELSE 0
      <4>1. /\ i # None
            /\ intent[i].state = "held"
            /\ intent' = [intent EXCEPT ![i].state = "completed"]
            /\ Charge(IntentKey(i), IntentWriteOff(i), owed, q)
            /\ InsertRequest(q, total, chargeable, i)
            /\ UNCHANGED job
        BY <2>3, <3>2 DEF Settle
      <4>2. call[c] \in CallRecords
        BY DEF TablesTyped
      <4>3. total \in Nat /\ i \in Ids
        BY <4>1, <4>2, Configured DEF CallRecords
      <4>4. owed \in Nat
        BY <4>3
      <4>5. /\ request[q].age = "none"
            /\ request' = [request EXCEPT ![q] = request'[q]]
            /\ request'[q].age = "fresh" /\ request'[q].id = i
        BY <4>1 DEF InsertRequest, TablesTyped
      <4>6. SettlesIntent(i, q, owed)
        BY <4>1, <4>5, ChargePosts DEF SettlesIntent
      <4> QED
        BY <4>3, <4>4, <4>6 DEF IntentStep
    <3> QED
      BY <3>1, <3>2
  <2>4. ASSUME NEW q \in Rows, NEW cost \in Costs, SettleRetryGranted(c, q, cost)
        PROVE  Kept
    BY <1>1, <2>4 DEF SettleRetryGranted
  <2>5. ASSUME GiveUp(c) PROVE Kept
    BY <1>1, <2>5 DEF GiveUp
  <2>6. UNCHANGED intent => Kept
    OBVIOUS
  <2>7. Kept => IntentStep
    BY DEF IntentStep
  <2> HIDE DEF Kept
  <2> QED
    BY <1>2, <2>1, <2>2, <2>3, <2>4, <2>5, <2>6, <2>7
       DEF CallStep, FindAbandoned, ReclaimRefused, OpenWithoutIntent, RetryAttempt, Abandon
<1>3. ASSUME JobStep PROVE Kept
  <2>1. ASSUME Purge PROVE Kept
    BY <1>0, <2>1 DEF Purge, IntentRecords
  <2>2. ASSUME NEW x \in job.sweep, SweepOne(x) PROVE Kept
    BY <1>1, <2>2 DEF SweepOne
  <2>3. UNCHANGED intent => Kept
    OBVIOUS
  <2> HIDE DEF Kept
  <2> QED
    BY <1>3, <2>1, <2>2, <2>3
       DEF JobStep, SweepRead, MaintenanceFails, FindUnsettled, ReconcileOne, ReconcileDone
<1>4. ASSUME FundsStep PROVE Kept
  BY <1>4 DEF FundsStep, Reverse, Deposit
<1>5. ASSUME TimeStep PROVE Kept
  <2>1. ASSUME NEW i \in Ids, HoldExpires(i) \/ IntentAges(i) PROVE Kept
    BY <1>0, <2>1 DEF HoldExpires, IntentAges, IntentRecords
  <2>2. ASSUME NEW q \in Rows, RequestAges(q) PROVE Kept
    BY <2>2 DEF RequestAges
  <2> QED
    BY <1>5, <2>1, <2>2 DEF TimeStep
<1>6. Kept => IntentStep
  BY DEF IntentStep
<1> QED
  BY <1>2, <1>3, <1>4, <1>5, <1>6 DEF Next

\* One step keeps the ledger in order and its charges with completed intents.
LEMMA StepLedger ==
  ASSUME LedgerInv, TablesTyped, CompletedIsCharged, Next
  PROVE  LedgerInv' /\ CompletedIsCharged'
<1> USE DEF LedgerInv
<1>1. LedgerStep /\ IntentStep
  BY LedgerSteps, IntentSteps
<1>2. CASE UNCHANGED <<balance, ledger>>
  <2>1. UNCHANGED <<Posted, ledger, balance>>
    BY <1>2 DEF Posted
  <2>2. LedgerInv'
    BY <2>1 DEF LedgerTyped, Books, WriteOffsFollow, DepositsPositive
  <2>3. CASE \E i \in Ids, q \in Rows, owed \in Nat : SettlesIntent(i, q, owed)
    <3>1. PICK i \in Ids, q \in Rows, owed \in Nat : SettlesIntent(i, q, owed)
      BY <2>3
    <3>2. Posts(IntentKey(i), IntentWriteOff(i), owed, AtMost(owed, balance), q)
      BY <3>1, KindsPost
    <3>3. IntentKey(i) \in Posted' /\ IntentKey(i) \notin Posted
      BY <3>1, <3>2 DEF Posts, SettlesIntent
    <3> QED
      BY <2>1, <3>3
  <2>4. CASE ~ \E i \in Ids, q \in Rows, owed \in Nat : SettlesIntent(i, q, owed)
    <3>1. \A i \in Ids :
            /\ intent'[i].state = "completed" => intent[i].state = "completed"
            /\ intent[i].state \in {"completed", "purged"}
                 => intent'[i].state \in {"completed", "purged"}
      BY <1>1, <2>4 DEF IntentStep
    <3> QED
      BY <2>1, <2>2, <3>1 DEF CompletedIsCharged
  <2> QED
    BY <2>3, <2>4
<1>3. ASSUME NEW i \in Ids, NEW q \in Rows, NEW owed \in Nat, SettlesIntent(i, q, owed)
      PROVE  LedgerInv' /\ CompletedIsCharged'
  <2>1. Posts(IntentKey(i), IntentWriteOff(i), owed, AtMost(owed, balance), q)
    BY <1>3, KindsPost
  <2>2. /\ Posted \subseteq Posted' /\ IntentKey(i) \in Posted'
        /\ Posted' \subseteq Posted \cup {IntentKey(i), IntentWriteOff(i)}
    BY <2>1 DEF Posts
  <2>3. WriteOffsFollow'
    BY <2>2, KeysDiffer DEF WriteOffsFollow
  <2>4. DepositsPositive'
    <3>1. ASSUME NEW d \in Deposits, DepositKey(d) \in Posted'
          PROVE  DepositKey(d) \in Posted
      BY <2>2, <3>1, KeysDiffer
    <3> QED
      BY <2>1, <3>1 DEF Posts, DepositsPositive
  <2>5. /\ intent'[i].state = "completed"
        /\ \A j \in Ids \ {i} : intent'[j] = intent[j]
    BY <1>3 DEF SettlesIntent, TablesTyped, IntentRecords
  <2>6. \A j \in Ids \ {i} : IntentKey(j) \in Posted' => IntentKey(j) \in Posted
    BY <2>2, KeysDiffer
  <2>7. CompletedIsCharged'
    BY <2>2, <2>5, <2>6 DEF CompletedIsCharged
  <2> QED
    BY <2>1, <2>3, <2>4, <2>7 DEF Posts
<1>4. ASSUME NEW k, NEW w, NEW amount \in Nat, NEW covered \in Nat, NEW q,
             Posts(k, w, amount, covered, q),
             \/ \E r \in Rows : k = RequestKey(r) /\ w = RequestWriteOff(r)
             \/ \E d \in Deposits : k = ReversalKey(d) /\ w = UnrecoveredKey(d),
             UNCHANGED intent
      PROVE  LedgerInv' /\ CompletedIsCharged'
  <2>1. /\ Posted \subseteq Posted' /\ k \in Posted'
        /\ Posted' \subseteq Posted \cup {k, w}
    BY <1>4 DEF Posts
  <2>2. WriteOffsFollow'
    BY <1>4, <2>1, KeysDiffer DEF WriteOffsFollow
  <2>3. \A d \in Deposits : DepositKey(d) \in Posted' => DepositKey(d) \in Posted
    BY <1>4, <2>1, KeysDiffer
  <2>4. DepositsPositive'
    BY <1>4, <2>3 DEF Posts, DepositsPositive
  <2>5. \A j \in Ids : IntentKey(j) \in Posted' <=> IntentKey(j) \in Posted
    BY <1>4, <2>1, KeysDiffer
  <2>6. CompletedIsCharged'
    BY <1>4, <2>5 DEF CompletedIsCharged
  <2> QED
    BY <1>4, <2>2, <2>4, <2>6 DEF Posts
<1>5. ASSUME NEW q \in Rows, NEW owed \in Nat, SettlesRequest(q, owed) \/ Reconciles(q, owed)
      PROVE  LedgerInv' /\ CompletedIsCharged'
  <2>1. Posts(RequestKey(q), RequestWriteOff(q), owed, AtMost(owed, balance), q)
    BY <1>5, KindsPost
  <2>2. UNCHANGED intent
    BY <1>5 DEF SettlesRequest, Reconciles
  <2>3. AtMost(owed, balance) \in Nat
    BY Covered
  <2> QED
    BY <1>4, <2>1, <2>2, <2>3
<1>6. ASSUME NEW d \in Deposits, NEW amount \in Nat, NEW recovered \in Nat,
             recovered <= amount, Refunds(d, amount, recovered)
      PROVE  LedgerInv' /\ CompletedIsCharged'
  <2>1. Posts(ReversalKey(d), UnrecoveredKey(d), amount, recovered, None)
    BY <1>6, KindsPost
  <2>2. UNCHANGED intent
    BY <1>6 DEF Refunds
  <2> QED
    BY <1>4, <2>1, <2>2
<1>7. ASSUME NEW d \in Deposits, NEW amount \in Amounts, Deposit(d, amount)
      PROVE  LedgerInv' /\ CompletedIsCharged'
  <2>1. amount \in Nat
    BY Configured
  <2>2. /\ LedgerTyped' /\ Books'
        /\ Posted' = Posted \cup {DepositKey(d)}
        /\ ledger'[DepositKey(d)] = [amount |-> amount, request |-> None]
        /\ \A x \in Posted : ledger'[x] = ledger[x]
    BY <1>7, <2>1, DepositKeeps
  <2>3. WriteOffsFollow'
    BY <2>2, KeysDiffer DEF WriteOffsFollow
  <2>4. ledger'[DepositKey(d)].amount \in Nat
    BY <2>1, <2>2
  <2>5. \A e \in Deposits : DepositKey(e) \in Posted'
                             => e = d \/ DepositKey(e) \in Posted
    BY <2>2, KeysDiffer
  <2>6. DepositsPositive'
    BY <2>2, <2>4, <2>5 DEF DepositsPositive
  <2>7. \A j \in Ids : IntentKey(j) \in Posted' <=> IntentKey(j) \in Posted
    BY <2>2, KeysDiffer
  <2>8. UNCHANGED intent
    BY <1>7 DEF Deposit
  <2>9. CompletedIsCharged'
    BY <2>7, <2>8 DEF CompletedIsCharged
  <2> QED
    BY <2>2, <2>3, <2>6, <2>9
<1> QED
  BY <1>1, <1>2, <1>3, <1>5, <1>6, <1>7 DEF LedgerStep

\* An account that was never used.
LEMMA InitIInv == Init => IInv
<1> SUFFICES ASSUME Init PROVE IInv
  OBVIOUS
<1>1. Posted = {} /\ balance = 0 /\ DOMAIN ledger = {}
  BY DEF Init, Posted
<1>2. Gains(ledger) = [k \in {} |-> 0] /\ Losses(ledger) = [k \in {} |-> 0]
  BY <1>1 DEF Gains, Losses
<1>3. LedgerSum(ledger) = 0
  BY <1>1, <1>2, TotalEmpty DEF LedgerSum
<1>4. ledger = [k \in Posted |-> ledger[k]]
  BY <1>1 DEF Init
<1>5. LedgerTyped
  BY <1>1, <1>4, FS_EmptySet DEF LedgerTyped
<1>6. Books
  BY <1>1, <1>3 DEF Books
<1>7. WriteOffsFollow /\ DepositsPositive
  BY <1>1 DEF WriteOffsFollow, DepositsPositive
<1>8. TablesTyped
  BY DEF Init, TablesTyped, NoIntent, NoRequest, NoCall, NoJob, IntentRecords,
         IntentStates, RequestRecords, CallRecords, JobRecords
<1>9. CompletedIsCharged
  BY <1>1 DEF Init, CompletedIsCharged, NoIntent
<1> QED
  BY <1>5, <1>6, <1>7, <1>8, <1>9 DEF IInv, LedgerInv

LEMMA StepIInv ==
  ASSUME IInv, [Next]_vars
  PROVE  IInv'
<1>1. CASE Next
  <2>1. TablesTyped'
    BY <1>1, CallTyped, JobTyped, FundsTimeTyped DEF Next, IInv
  <2> QED
    BY <1>1, <2>1, StepLedger DEF IInv
<1>2. CASE UNCHANGED vars
  BY <1>2 DEF vars, IInv, LedgerInv, LedgerTyped, Books, WriteOffsFollow,
     DepositsPositive, TablesTyped, CompletedIsCharged, Posted
<1> QED
  BY <1>1, <1>2

\* Every reachable state satisfies the invariant.
LEMMA InvariantHolds == Spec => []IInv
<1>1. Init => IInv
  BY InitIInv
<1>2. IInv /\ [Next]_vars => IInv'
  BY StepIInv
<1> QED
  BY <1>1, <1>2, PTL DEF Spec

\* The state of every account is typed.
THEOREM Typed == Spec => []TypeOK
<1>1. IInv => TypeOK
  BY TypedImpliesTypeOK DEF IInv, LedgerInv
<1> QED
  BY <1>1, InvariantHolds, PTL

\* "balance_usd = SUM(amount_usd) and balance_usd >= 0" after every charge,
\* refund and deposit, whatever each of them exceeds.
THEOREM BooksBalance == Spec => []Books
<1>1. IInv => Books
  BY DEF IInv, LedgerInv
<1> QED
  BY <1>1, InvariantHolds, PTL

\* An intent is completed exactly when its charge is posted, so a key that is
\* reclaimed, swept or given up was never charged.
THEOREM CompletedCharged == Spec => []CompletedIsCharged
<1>1. IInv => CompletedIsCharged
  BY DEF IInv
<1> QED
  BY <1>1, InvariantHolds, PTL

\* What is posted stays as it is, and a completed intent stays completed until
\* it is purged, whatever stale handle a sweeper or a slow call still carries.
THEOREM SettledStays == Spec => SettledIsFinal
<1> DEFINE Final == /\ \A k \in Posted : k \in DOMAIN ledger' /\ ledger'[k] = ledger[k]
                    /\ \A i \in Ids : intent[i].state = "completed"
                                        => intent'[i].state \in {"completed", "purged"}
<1>1. IInv /\ [Next]_vars => [Final]_vars
  <2> SUFFICES ASSUME IInv, Next PROVE Final
    OBVIOUS
  <2>1. LedgerInv /\ LedgerStep /\ IntentStep
    BY LedgerSteps, IntentSteps DEF IInv, LedgerInv
  <2>2. ASSUME NEW k, NEW w, NEW amount, NEW covered, NEW q,
               Posts(k, w, amount, covered, q)
        PROVE  \A x \in Posted : x \in DOMAIN ledger' /\ ledger'[x] = ledger[x]
    BY <2>2 DEF Posts, Posted
  <2>3. ASSUME NEW d \in Deposits, NEW amount \in Amounts, Deposit(d, amount)
        PROVE  \A x \in Posted : x \in DOMAIN ledger' /\ ledger'[x] = ledger[x]
    BY <2>3, <2>1, Configured, DepositKeeps DEF LedgerInv, Posted
  <2>4. \A x \in Posted : x \in DOMAIN ledger' /\ ledger'[x] = ledger[x]
    BY <2>1, <2>2, <2>3, KindsPost DEF LedgerStep, Posted
  <2>5. ASSUME NEW i \in Ids, NEW q \in Rows, NEW owed \in Nat, SettlesIntent(i, q, owed)
        PROVE  \A j \in Ids : intent[j].state = "completed"
                                => intent'[j].state \in {"completed", "purged"}
    BY <2>5 DEF SettlesIntent, IInv, TablesTyped, IntentRecords
  <2>6. \A j \in Ids : intent[j].state = "completed"
                          => intent'[j].state \in {"completed", "purged"}
    BY <2>1, <2>5 DEF IntentStep
  <2> QED
    BY <2>4, <2>6
<1> QED
  BY <1>1, InvariantHolds, PTL DEF Spec, SettledIsFinal

-----------------------------------------------------------------------------
(* One charge per request *)

\* No ledger row names a request that was not inserted yet; no request on the
\* reconciler's list has been charged by a call.
ChargesKnown ==
  /\ \A q \in Rows : request[q].age = "none" => \A k \in Posted : ledger[k].request # q
  /\ \A q \in job.orphans :
       /\ request[q].age # "none"
       /\ \A i \in Ids : IntentKey(i) \in Posted => ledger[IntentKey(i)].request # q

\* Two charges of one request are the same row.
ChargedOnce == \A q \in Rows : \A k, l \in ChargesOf(q) : k = l

\* A request that is in the table stays, under its intent.
LEMMA RequestsStay ==
  ASSUME TablesTyped, Next
  PROVE  \A q \in Rows : request[q].age # "none"
            => request'[q].age # "none" /\ request'[q].id = request[q].id
<1> DEFINE Stay == \A q \in Rows : request[q].age # "none"
                     => request'[q].age # "none" /\ request'[q].id = request[q].id
<1>0. request \in [Rows -> RequestRecords]
  BY DEF TablesTyped
<1>1. ASSUME NEW q, NEW cost, NEW chargeable, NEW i, InsertRequest(q, cost, chargeable, i)
      PROVE  Stay
  BY <1>0, <1>1 DEF InsertRequest
<1>2. UNCHANGED request => Stay
  OBVIOUS
<1>3. ASSUME NEW q \in Rows, RequestAges(q) PROVE Stay
  BY <1>0, <1>3 DEF RequestAges, RequestRecords
<1> HIDE DEF Stay
<1>4. ASSUME NEW c \in Calls, CallStep(c) PROVE Stay
  BY <1>1, <1>2, <1>4 DEF CallStep, OpenIntent, FindAbandoned, Reclaim,
     ReclaimRefused, OpenWithoutIntent, RetryAttempt, Settle, SettleRetryGranted,
     GiveUp, Abandon
<1>5. ASSUME JobStep \/ FundsStep PROVE Stay
  BY <1>2, <1>5 DEF JobStep, SweepRead, SweepOne, Purge, MaintenanceFails,
     FindUnsettled, ReconcileOne, ReconcileDone, FundsStep, Reverse, Deposit
<1>6. ASSUME TimeStep PROVE Stay
  BY <1>2, <1>3, <1>6 DEF TimeStep, HoldExpires, IntentAges
<1> QED
  BY <1>4, <1>5, <1>6 DEF Next, Stay

\* The list only shrinks, unless it is read anew from the tables.
LEMMA OrphansRead ==
  ASSUME TablesTyped, Next
  PROVE  \/ job'.orphans \subseteq job.orphans
         \/ /\ job'.orphans = {q \in Rows : Unsettled(q)}
            /\ job.pc = "scan"
            /\ UNCHANGED <<ledger, request>>
<1>0. job \in JobRecords
  BY DEF TablesTyped
<1>1. ASSUME NEW c \in Calls, CallStep(c) PROVE UNCHANGED job
  BY <1>1 DEF CallStep, OpenIntent, FindAbandoned, Reclaim,
     ReclaimRefused, OpenWithoutIntent, RetryAttempt, Settle, SettleRetryGranted,
     GiveUp, Abandon
<1>2. ASSUME FundsStep \/ TimeStep PROVE UNCHANGED job
  BY <1>2 DEF FundsStep, Reverse, Deposit, TimeStep, HoldExpires, IntentAges, RequestAges
<1>3. CASE SweepRead \/ Purge \/ MaintenanceFails \/ ReconcileDone
  BY <1>0, <1>3 DEF SweepRead, Purge, MaintenanceFails, ReconcileDone, JobRecords
<1>4. ASSUME NEW x \in job.sweep, SweepOne(x) PROVE job'.orphans = job.orphans
  BY <1>0, <1>4 DEF SweepOne, JobRecords
<1>5. ASSUME NEW q \in job.orphans, ReconcileOne(q) PROVE job'.orphans \subseteq job.orphans
  BY <1>0, <1>5 DEF ReconcileOne, JobRecords
<1>6. CASE FindUnsettled
  BY <1>0, <1>6 DEF FindUnsettled, JobRecords
<1> QED
  BY <1>1, <1>2, <1>3, <1>4, <1>5, <1>6 DEF Next, JobStep

\* After a posting a row is an old one or names the request of the posting.
LEMMA RowsAfter ==
  ASSUME NEW k, NEW w, NEW amount, NEW covered, NEW q,
         Posts(k, w, amount, covered, q)
  PROVE  \A x \in Posted' : \/ x \in Posted /\ ledger'[x] = ledger[x]
                            \/ x \in {k, w} /\ ledger'[x].request = q
<1>1. /\ Posted' \subseteq Posted \cup {k, w}
      /\ ledger'[k] = [amount |-> -amount, request |-> q]
      /\ w \in Posted' => ledger'[w] = [amount |-> amount - covered, request |-> q]
      /\ \A x \in Posted : ledger'[x] = ledger[x]
  BY DEF Posts
<1> QED
  BY <1>1

\* The charges of a request that no posting names are the charges it had.
LEMMA ChargesOfOthers ==
  ASSUME NEW r \in Rows,
         \A x \in Posted' : \/ x \in Posted /\ ledger'[x] = ledger[x]
                            \/ ledger'[x].request # r
  PROVE  ChargesOf(r)' \subseteq ChargesOf(r)
  BY DEF ChargesOf

\* One step charges no request a second time.
LEMMA StepCharges ==
  ASSUME IInv, ChargesKnown, ChargedOnce, Next
  PROVE  ChargesKnown' /\ ChargedOnce'
<1>0. /\ LedgerInv /\ LedgerStep /\ TablesTyped
      /\ None \notin Rows
      /\ job.orphans \subseteq Rows
  BY LedgerSteps, Configured DEF IInv, LedgerInv, TablesTyped, JobRecords
<1>1. \A q \in Rows : request[q].age # "none" => request'[q].age # "none"
  BY <1>0, RequestsStay
<1>2. CASE UNCHANGED <<balance, ledger>>
  <2>1. Posted' = Posted /\ ledger' = ledger
    BY <1>2 DEF Posted
  <2>2. \A q \in Rows : request'[q].age = "none" => \A k \in Posted' : ledger'[k].request # q
    BY <1>1, <2>1 DEF ChargesKnown
  <2>3. ASSUME NEW q \in job'.orphans
        PROVE  /\ request'[q].age # "none"
               /\ \A i \in Ids : IntentKey(i) \in Posted' => ledger'[IntentKey(i)].request # q
    <3>1. CASE q \in job.orphans
      BY <1>0, <1>1, <2>1, <3>1 DEF ChargesKnown
    <3>2. CASE q \notin job.orphans
      <4>1. Unsettled(q) /\ UNCHANGED request
        BY <1>0, <2>3, <3>2, OrphansRead
      <4> QED
        BY <2>1, <4>1 DEF Unsettled
    <3> QED
      BY <3>1, <3>2
  <2>4. \A q \in Rows : ChargesOf(q)' \subseteq ChargesOf(q)
    BY <2>1 DEF ChargesOf
  <2> QED
    BY <2>2, <2>3, <2>4 DEF ChargesKnown, ChargedOnce
<1>3. ASSUME NEW q \in Rows, NEW k, NEW w, NEW amount, NEW covered,
             Posts(k, w, amount, covered, q),
             request[q].age = "none", request'[q].age # "none", UNCHANGED job,
             \A r \in Rows : ChargesOf(r)' \subseteq ChargesOf(r) \cup {k}
      PROVE  ChargesKnown' /\ ChargedOnce'
  <2>1. \A x \in Posted' : \/ x \in Posted /\ ledger'[x] = ledger[x]
                           \/ x \in {k, w} /\ ledger'[x].request = q
    BY <1>3, RowsAfter
  <2>2. \A r \in Rows : request'[r].age = "none" => \A x \in Posted' : ledger'[x].request # r
    BY <1>1, <1>3, <2>1 DEF ChargesKnown
  <2>3. q \notin job.orphans
    BY <1>3 DEF ChargesKnown
  <2>4. ASSUME NEW r \in job'.orphans
        PROVE  /\ request'[r].age # "none"
               /\ \A i \in Ids : IntentKey(i) \in Posted' => ledger'[IntentKey(i)].request # r
    <3>1. r \in job.orphans /\ r \in Rows /\ r # q
      BY <1>0, <1>3, <2>3
    <3> QED
      BY <1>1, <2>1, <3>1 DEF ChargesKnown
  <2>5. ChargesOf(q) = {}
    BY <1>3 DEF ChargesKnown, ChargesOf
  <2>6. \A l1, l2 \in ChargesOf(q)' : l1 = l2
    BY <1>3, <2>5
  <2>7. \A r \in Rows \ {q} : ChargesOf(r)' \subseteq ChargesOf(r)
    BY <2>1, ChargesOfOthers
  <2>8. ChargedOnce'
    BY <2>6, <2>7 DEF ChargedOnce
  <2> QED
    BY <2>2, <2>4, <2>8 DEF ChargesKnown
<1>4. ASSUME NEW k, NEW w, NEW amount, NEW covered, NEW q, Posts(k, w, amount, covered, q)
      PROVE  /\ \A i \in Ids : k = IntentKey(i) /\ w = IntentWriteOff(i)
                  => \A r \in Rows : ChargesOf(r)' \subseteq ChargesOf(r) \cup {k}
             /\ q \in Rows /\ k = RequestKey(q) /\ w = RequestWriteOff(q)
                  => \A r \in Rows : ChargesOf(r)' \subseteq ChargesOf(r) \cup {k}
  <2>1. \A x \in Posted' : (x \in Posted /\ ledger'[x] = ledger[x]) \/ x = k \/ x = w
    BY <1>4, RowsAfter
  <2>2. \A r \in Rows, i \in Ids : IntentWriteOff(i) \notin ChargesOf(r)'
    BY KeysDiffer DEF ChargesOf
  <2>3. \A r, p \in Rows : RequestWriteOff(p) \notin ChargesOf(r)'
    BY KeysDiffer DEF ChargesOf
  <2>4. \A r \in Rows : \A x \in ChargesOf(r)' : x \in ChargesOf(r) \/ x = k \/ x = w
    BY <2>1 DEF ChargesOf
  <2> QED
    BY <2>2, <2>3, <2>4
<1>5. ASSUME NEW i \in Ids, NEW q \in Rows, NEW owed \in Nat, SettlesIntent(i, q, owed)
      PROVE  ChargesKnown' /\ ChargedOnce'
  <2>1. Posts(IntentKey(i), IntentWriteOff(i), owed, AtMost(owed, balance), q)
    BY <1>0, <1>5, KindsPost
  <2>2. request[q].age = "none" /\ request'[q].age # "none" /\ UNCHANGED job
    BY <1>5 DEF SettlesIntent
  <2> QED
    BY <1>3, <1>4, <2>1, <2>2
<1>6. ASSUME NEW q \in Rows, NEW owed \in Nat, SettlesRequest(q, owed)
      PROVE  ChargesKnown' /\ ChargedOnce'
  <2>1. Posts(RequestKey(q), RequestWriteOff(q), owed, AtMost(owed, balance), q)
    BY <1>0, <1>6, KindsPost
  <2>2. request[q].age = "none" /\ request'[q].age # "none" /\ UNCHANGED job
    BY <1>6 DEF SettlesRequest
  <2> QED
    BY <1>3, <1>4, <2>1, <2>2
<1>7. ASSUME NEW q \in Rows, NEW owed \in Nat, Reconciles(q, owed)
      PROVE  ChargesKnown' /\ ChargedOnce'
  <2> DEFINE k == RequestKey(q)
             w == RequestWriteOff(q)
  <2>1. Posts(k, w, owed, AtMost(owed, balance), q)
    BY <1>0, <1>7, KindsPost
  <2>2. \A x \in Posted' : \/ x \in Posted /\ ledger'[x] = ledger[x]
                           \/ x \in {k, w} /\ ledger'[x].request = q
    BY <2>1, RowsAfter
  <2>3. /\ q \in job.orphans /\ k \notin Posted /\ UNCHANGED request
        /\ job'.orphans \subseteq job.orphans
    BY <1>0, <1>7 DEF Reconciles, TablesTyped, JobRecords
  <2>4. \A r \in Rows : request'[r].age = "none" => \A x \in Posted' : ledger'[x].request # r
    BY <2>2, <2>3 DEF ChargesKnown
  <2>5. \A i \in Ids : IntentKey(i) \notin {k, w}
    BY KeysDiffer
  <2>6. \A r \in job'.orphans :
          /\ request'[r].age # "none"
          /\ \A i \in Ids : IntentKey(i) \in Posted' => ledger'[IntentKey(i)].request # r
    BY <2>2, <2>3, <2>5 DEF ChargesKnown
  <2>7. ChargesOf(q) = {}
    BY <2>3 DEF ChargesKnown, ChargesOf
  <2>8. ChargesOf(q)' \subseteq {k}
    BY <1>4, <2>1, <2>7
  <2>9. \A r \in Rows \ {q} : ChargesOf(r)' \subseteq ChargesOf(r)
    BY <2>2, ChargesOfOthers
  <2>10. ChargedOnce'
    BY <2>8, <2>9 DEF ChargedOnce
  <2> QED
    BY <2>4, <2>6, <2>10 DEF ChargesKnown
<1>8. ASSUME UNCHANGED <<request, job>>, NEW k,
             \A x \in Posted' : \/ x \in Posted /\ ledger'[x] = ledger[x]
                                \/ ledger'[x].request = None
      PROVE  ChargesKnown' /\ ChargedOnce'
  <2>1. \A r \in Rows : ChargesOf(r)' \subseteq ChargesOf(r)
    BY <1>0, <1>8, ChargesOfOthers
  <2>2. ChargedOnce'
    BY <2>1 DEF ChargedOnce
  <2>3. ChargesKnown'
    BY <1>0, <1>8 DEF ChargesKnown
  <2> QED
    BY <2>2, <2>3
<1>9. ASSUME NEW d \in Deposits, NEW amount \in Nat, NEW recovered \in Nat,
             recovered <= amount, Refunds(d, amount, recovered)
      PROVE  ChargesKnown' /\ ChargedOnce'
  <2>1. Posts(ReversalKey(d), UnrecoveredKey(d), amount, recovered, None)
    BY <1>0, <1>9, KindsPost
  <2>2. UNCHANGED <<request, job>>
    BY <1>9 DEF Refunds
  <2> QED
    BY <1>8, <2>1, <2>2, RowsAfter
<1>10. ASSUME NEW d \in Deposits, NEW amount \in Amounts, Deposit(d, amount)
      PROVE  ChargesKnown' /\ ChargedOnce'
  <2>1. /\ Posted' = Posted \cup {DepositKey(d)}
        /\ ledger'[DepositKey(d)] = [amount |-> amount, request |-> None]
        /\ \A x \in Posted : ledger'[x] = ledger[x]
    BY <1>0, <1>10, Configured, DepositKeeps DEF LedgerInv
  <2>2. UNCHANGED <<request, job>>
    BY <1>10 DEF Deposit
  <2>3. ledger'[DepositKey(d)].request = None
    BY <2>1
  <2> QED
    BY <1>8, <2>1, <2>2, <2>3
<1> QED
  BY <1>0, <1>2, <1>5, <1>6, <1>7, <1>9, <1>10 DEF LedgerStep

\* A set whose members are all the same has at most one.
LEMMA AtMostOne ==
  ASSUME NEW S, \A x, y \in S : x = y
  PROVE  IsFiniteSet(S) /\ Cardinality(S) <= 1
<1>1. CASE S = {}
  BY <1>1, FS_EmptySet
<1>2. CASE S # {}
  <2>1. PICK x \in S : TRUE
    BY <1>2
  <2>2. S = {x}
    BY <2>1
  <2>3. IsFiniteSet({x}) /\ Cardinality({x}) = 1
    BY FS_Singleton
  <2>4. IsFiniteSet(S) /\ Cardinality(S) = 1
    BY <2>2, <2>3
  <2> QED
    BY <2>4
<1> QED
  BY <1>1, <1>2

\* What the charges of requests rely on holds in every reachable state.
LEMMA ChargesHold == Spec => [](IInv /\ ChargesKnown /\ ChargedOnce)
<1> DEFINE CInv == IInv /\ ChargesKnown /\ ChargedOnce
<1>1. Init => CInv
  <2> SUFFICES ASSUME Init PROVE ChargesKnown /\ ChargedOnce
    BY InitIInv
  <2>1. Posted = {} /\ job.orphans = {}
    BY DEF Init, Posted, NoJob
  <2> QED
    BY <2>1 DEF ChargesKnown, ChargedOnce, ChargesOf
<1>2. CInv /\ [Next]_vars => CInv'
  <2> SUFFICES ASSUME CInv, [Next]_vars PROVE CInv'
    OBVIOUS
  <2>1. IInv'
    BY StepIInv
  <2>2. CASE Next
    BY <2>1, <2>2, StepCharges
  <2>3. CASE UNCHANGED vars
    BY <2>1, <2>3 DEF vars, ChargesKnown, ChargedOnce, ChargesOf, Posted
  <2> QED
    BY <2>2, <2>3
<1> QED
  BY <1>1, <1>2, PTL DEF Spec

\* A request is charged at most once, by the call that made it or by the
\* reconciler, however old the reconciler's list is when it is used.
THEOREM ChargedAtMostOnce == Spec => []RequestChargedOnce
<1>1. ChargedOnce => RequestChargedOnce
  BY AtMostOne DEF ChargedOnce, RequestChargedOnce
<1> QED
  BY <1>1, ChargesHold, PTL

-----------------------------------------------------------------------------
(* One charge per idempotency key, while the reconciler is off *)

\* The reconciler has no list, a request charged under its own key has no
\* intent, and what is charged under an intent's key is a request of it.
ChargesPlaced ==
  /\ job.pc \in {"idle", "sweep"}
  /\ job.orphans = {}
  /\ \A q \in Rows : RequestKey(q) \in Posted
       => request[q].age # "none" /\ request[q].id = None
  /\ \A i \in Ids : IntentKey(i) \in Posted
       => \E q \in Rows : /\ ledger[IntentKey(i)].request = q
                          /\ request[q].age # "none"
                          /\ request[q].id = i

\* The job never gets past the purge.
LEMMA JobStaysEarly ==
  ASSUME ReconcileEnabled = FALSE, TablesTyped, ChargesPlaced, Next
  PROVE  job'.pc \in {"idle", "sweep"} /\ job'.orphans = {}
<1>0. job \in JobRecords /\ job.pc \in {"idle", "sweep"} /\ job.orphans = {}
  BY DEF TablesTyped, ChargesPlaced
<1>1. job'.orphans = {}
  BY <1>0, OrphansRead
<1>2. ASSUME NEW c \in Calls, CallStep(c) PROVE UNCHANGED job
  BY <1>2 DEF CallStep, OpenIntent, FindAbandoned, Reclaim,
     ReclaimRefused, OpenWithoutIntent, RetryAttempt, Settle, SettleRetryGranted,
     GiveUp, Abandon
<1>3. ASSUME FundsStep \/ TimeStep PROVE UNCHANGED job
  BY <1>3 DEF FundsStep, Reverse, Deposit, TimeStep, HoldExpires, IntentAges, RequestAges
<1>4. ASSUME JobStep PROVE job'.pc \in {"idle", "sweep"}
  BY <1>0, <1>4 DEF JobStep, SweepRead, SweepOne, Purge, MaintenanceFails,
     FindUnsettled, ReconcileOne, ReconcileDone, JobRecords
<1> QED
  BY <1>0, <1>1, <1>2, <1>3, <1>4 DEF Next

\* A row that is posted is the one the step posts or an old one, and the
\* request it names stays in the table under its intent.
LEMMA StepPlaced ==
  ASSUME ReconcileEnabled = FALSE, IInv, ChargesPlaced, Next
  PROVE  ChargesPlaced'
<1>0. LedgerInv /\ LedgerStep /\ TablesTyped /\ job.orphans = {}
  BY LedgerSteps DEF IInv, LedgerInv, ChargesPlaced
<1>1. job'.pc \in {"idle", "sweep"} /\ job'.orphans = {}
  BY <1>0, JobStaysEarly
<1>2. \A q \in Rows : request[q].age # "none"
            => request'[q].age # "none" /\ request'[q].id = request[q].id
  BY <1>0, RequestsStay
<1> DEFINE ByRequest(q) == request'[q].age # "none" /\ request'[q].id = None
           ByIntent(i) == \E q \in Rows : /\ ledger'[IntentKey(i)].request = q
                                          /\ request'[q].age # "none"
                                          /\ request'[q].id = i
<1>3. \A q \in Rows : RequestKey(q) \in Posted => ByRequest(q)
  BY <1>2 DEF ChargesPlaced
<1>4. ASSUME \A x \in Posted : ledger'[x] = ledger[x]
      PROVE  \A i \in Ids : IntentKey(i) \in Posted => ByIntent(i)
  <2> SUFFICES ASSUME NEW i \in Ids, IntentKey(i) \in Posted PROVE ByIntent(i)
    OBVIOUS
  <2>1. PICK q \in Rows : /\ ledger[IntentKey(i)].request = q
                          /\ request[q].age # "none"
                          /\ request[q].id = i
    BY DEF ChargesPlaced
  <2> QED
    BY <1>2, <1>4, <2>1
<1> HIDE DEF ByRequest, ByIntent
<1>5. CASE UNCHANGED <<balance, ledger>>
  <2>1. Posted' = Posted /\ ledger' = ledger
    BY <1>5 DEF Posted
  <2>2. \A q \in Rows : RequestKey(q) \in Posted' => ByRequest(q)
    BY <1>3, <2>1
  <2>3. \A i \in Ids : IntentKey(i) \in Posted' => ByIntent(i)
    BY <1>4, <2>1
  <2> QED
    BY <1>1, <2>2, <2>3 DEF ChargesPlaced, ByRequest, ByIntent
<1>6. ASSUME NEW i \in Ids, NEW q \in Rows, NEW owed \in Nat, SettlesIntent(i, q, owed)
      PROVE  ChargesPlaced'
  <2>1. Posts(IntentKey(i), IntentWriteOff(i), owed, AtMost(owed, balance), q)
    BY <1>0, <1>6, KindsPost
  <2>2. /\ Posted' \subseteq Posted \cup {IntentKey(i), IntentWriteOff(i)}
        /\ ledger'[IntentKey(i)].request = q
        /\ \A x \in Posted : ledger'[x] = ledger[x]
    BY <2>1 DEF Posts
  <2>3. request'[q].age # "none" /\ request'[q].id = i
    BY <1>6 DEF SettlesIntent
  <2>4. ByIntent(i)
    BY <2>2, <2>3 DEF ByIntent
  <2>5. \A j \in Ids : IntentKey(j) \in Posted' => j = i \/ IntentKey(j) \in Posted
    BY <2>2, KeysDiffer
  <2>6. \A j \in Ids : IntentKey(j) \in Posted' => ByIntent(j)
    BY <1>4, <2>2, <2>4, <2>5
  <2>7. \A r \in Rows : RequestKey(r) \in Posted' => RequestKey(r) \in Posted
    BY <2>2, KeysDiffer
  <2>8. \A r \in Rows : RequestKey(r) \in Posted' => ByRequest(r)
    BY <1>3, <2>7
  <2> QED
    BY <1>1, <2>6, <2>8 DEF ChargesPlaced, ByRequest, ByIntent
<1>7. ASSUME NEW q \in Rows, NEW owed \in Nat, SettlesRequest(q, owed)
      PROVE  ChargesPlaced'
  <2>1. Posts(RequestKey(q), RequestWriteOff(q), owed, AtMost(owed, balance), q)
    BY <1>0, <1>7, KindsPost
  <2>2. /\ Posted' \subseteq Posted \cup {RequestKey(q), RequestWriteOff(q)}
        /\ \A x \in Posted : ledger'[x] = ledger[x]
    BY <2>1 DEF Posts
  <2>3. ByRequest(q)
    BY <1>7 DEF SettlesRequest, ByRequest
  <2>4. \A r \in Rows : RequestKey(r) \in Posted' => r = q \/ RequestKey(r) \in Posted
    BY <2>2, KeysDiffer
  <2>5. \A r \in Rows : RequestKey(r) \in Posted' => ByRequest(r)
    BY <1>3, <2>3, <2>4
  <2>6. \A j \in Ids : IntentKey(j) \in Posted' => IntentKey(j) \in Posted
    BY <2>2, KeysDiffer
  <2>7. \A j \in Ids : IntentKey(j) \in Posted' => ByIntent(j)
    BY <1>4, <2>2, <2>6
  <2> QED
    BY <1>1, <2>5, <2>7 DEF ChargesPlaced, ByRequest, ByIntent
<1>8. ASSUME NEW d \in Deposits,
             Posted' \subseteq Posted \cup {DepositKey(d), ReversalKey(d), UnrecoveredKey(d)},
             \A x \in Posted : ledger'[x] = ledger[x]
      PROVE  ChargesPlaced'
  <2>1. \A r \in Rows : RequestKey(r) \in Posted' => ByRequest(r)
    BY <1>3, <1>8, KeysDiffer
  <2>2. \A j \in Ids : IntentKey(j) \in Posted' => IntentKey(j) \in Posted
    BY <1>8, KeysDiffer
  <2>3. \A j \in Ids : IntentKey(j) \in Posted' => ByIntent(j)
    BY <1>4, <1>8, <2>2
  <2> QED
    BY <1>1, <2>1, <2>3 DEF ChargesPlaced, ByRequest, ByIntent
<1>9. ASSUME NEW d \in Deposits, NEW amount \in Nat, NEW recovered \in Nat,
             recovered <= amount, Refunds(d, amount, recovered)
      PROVE  ChargesPlaced'
  <2>1. Posts(ReversalKey(d), UnrecoveredKey(d), amount, recovered, None)
    BY <1>0, <1>9, KindsPost
  <2> QED
    BY <1>8, <2>1 DEF Posts
<1>10. ASSUME NEW d \in Deposits, NEW amount \in Amounts, Deposit(d, amount)
      PROVE  ChargesPlaced'
  <2>1. /\ Posted' = Posted \cup {DepositKey(d)}
        /\ \A x \in Posted : ledger'[x] = ledger[x]
    BY <1>0, <1>10, Configured, DepositKeeps DEF LedgerInv
  <2> QED
    BY <1>8, <2>1
<1>11. ~ \E q \in Rows, owed \in Nat : Reconciles(q, owed)
  BY <1>0 DEF Reconciles
<1> QED
  BY <1>0, <1>5, <1>6, <1>7, <1>9, <1>10, <1>11 DEF LedgerStep

\* "one provider call, one ledger row, however many times the client
\* re-POSTs": as long as the reconciler is off (BILLING_RECONCILE_ENABLED, its
\* default), of all requests made under one intent at most one is charged.
THEOREM ChargedOncePerKey ==
  ASSUME ReconcileEnabled = FALSE
  PROVE  Spec => []OneChargePerKey
<1> DEFINE PInv == IInv /\ ChargesPlaced
<1>1. Init => PInv
  <2> SUFFICES ASSUME Init PROVE ChargesPlaced
    BY InitIInv
  <2>1. Posted = {} /\ job.orphans = {} /\ job.pc = "idle"
    BY DEF Init, Posted, NoJob
  <2> QED
    BY <2>1 DEF ChargesPlaced
<1>2. PInv /\ [Next]_vars => PInv'
  <2> SUFFICES ASSUME PInv, [Next]_vars PROVE PInv'
    OBVIOUS
  <2>1. IInv'
    BY StepIInv
  <2>2. CASE Next
    BY <2>1, <2>2, StepPlaced
  <2>3. CASE UNCHANGED vars
    BY <2>1, <2>3 DEF vars, ChargesPlaced, Posted
  <2> QED
    BY <2>2, <2>3
<1>3. PInv => OneChargePerKey
  <2> SUFFICES ASSUME PInv, NEW i \in Ids
               PROVE  Cardinality({q \in Rows : /\ request[q].id = i
                                                /\ \E k \in ChargesOf(q) :
                                                      ledger[k].amount < 0}) <= 1
    BY DEF OneChargePerKey
  <2> DEFINE Charged == {q \in Rows : /\ request[q].id = i
                                      /\ \E k \in ChargesOf(q) : ledger[k].amount < 0}
  <2>1. ASSUME NEW q \in Charged PROVE q = ledger[IntentKey(i)].request
    <3>1. PICK k \in ChargesOf(q) : TRUE
      OBVIOUS
    <3>2. /\ k \in Posted /\ ledger[k].request = q
          /\ k = RequestKey(q) \/ \E j \in Ids : k = IntentKey(j)
      BY <3>1 DEF ChargesOf
    <3>3. i # None
      BY Configured
    <3>4. k # RequestKey(q)
      BY <2>1, <3>2, <3>3 DEF ChargesPlaced
    <3>5. PICK j \in Ids : k = IntentKey(j)
      BY <3>2, <3>4
    <3>6. request[q].id = j
      BY <3>2, <3>5 DEF ChargesPlaced
    <3> QED
      BY <3>2, <3>5, <3>6
  <2> HIDE DEF Charged
  <2>2. \A p, q \in Charged : p = q
    BY <2>1
  <2>3. Cardinality(Charged) <= 1
    BY <2>2, AtMostOne
  <2> QED
    BY <2>3 DEF Charged
<1> QED
  BY <1>1, <1>2, <1>3, PTL DEF Spec

-----------------------------------------------------------------------------
(* What a step does to the holds *)

\* The hold a handle carries, of a call or of the sweep, is the hold of the
\* intent, as long as the intent is held.
HandlesAgree ==
  /\ \A c \in Calls :
       (/\ call[c].pc = "dispatch"
        /\ call[c].id # None
        /\ intent[call[c].id].state = "held")
         => call[c].hold = intent[call[c].id].hold
  /\ \A x \in job.sweep :
       intent[x.id].state = "held" => x.hold = intent[x.id].hold

\* An intent is opened or reclaimed, with credit that was available.
Takes(i, h) ==
  /\ intent[i].state \notin {"held", "completed", "purged"}
  /\ intent'[i].state = "held"
  /\ intent'[i].hold = h
  /\ \A j \in Ids \ {i} : intent'[j] = intent[j]
  /\ CanReserve(h)
  /\ held' = held + h

\* An intent stops being held, and its hold is given back.
Frees(i) ==
  /\ intent[i].state = "held"
  /\ intent'[i].state # "held"
  /\ intent'[i].hold = intent[i].hold
  /\ \A j \in Ids \ {i} : intent'[j] = intent[j]
  /\ held' = HeldAfterRelease(intent[i].hold)

\* No intent starts or stops being held.
KeepsHolds ==
  /\ \A i \in Ids : /\ intent'[i].hold = intent[i].hold
                    /\ intent'[i].state = "held" <=> intent[i].state = "held"
  /\ held' = held

HoldStep ==
  \/ \E i \in Ids, h \in Nat : Takes(i, h)
  \/ \E i \in Ids : Frees(i)
  \/ KeepsHolds

\* Whoever moves an intent off held gives back what the intent reserved.
LEMMA ReleaseFrees ==
  ASSUME TablesTyped, NEW i \in Ids, NEW h, NEW state \in {"released", "expired"},
         intent[i].state = "held" => h = intent[i].hold, Release(i, h, state)
  PROVE  Frees(i) \/ KeepsHolds
<1>0. intent \in [Ids -> IntentRecords]
  BY DEF TablesTyped
<1>1. CASE intent[i].state = "held"
  <2>1. intent' = [intent EXCEPT ![i].state = state] /\ held' = HeldAfterRelease(h)
    BY <1>1 DEF Release
  <2>2. /\ intent'[i].state = state
        /\ intent'[i].hold = intent[i].hold
        /\ \A j \in Ids \ {i} : intent'[j] = intent[j]
    BY <1>0, <2>1 DEF IntentRecords
  <2> QED
    BY <1>1, <2>1, <2>2 DEF Frees
<1>2. CASE intent[i].state # "held"
  BY <1>2 DEF Release, KeepsHolds
<1> QED
  BY <1>1, <1>2

\* Every step of the system takes, frees or keeps.
LEMMA HoldSteps ==
  ASSUME TablesTyped, HandlesAgree, Next
  PROVE  HoldStep
<1>0. /\ intent \in [Ids -> IntentRecords]
      /\ call \in [Calls -> CallRecords]
      /\ job \in JobRecords
  BY DEF TablesTyped
<1>1. UNCHANGED <<held, intent>> => HoldStep
  BY DEF HoldStep, KeepsHolds
<1>2. ASSUME NEW i \in Ids, Frees(i) \/ KeepsHolds PROVE HoldStep
  BY <1>2 DEF HoldStep
<1>3. ASSUME NEW c \in Calls, CallStep(c) PROVE HoldStep
  <2> DEFINE i == call[c].id
  <2>0. i \in Ids \cup {None} /\ call[c].hold \in Nat
    BY <1>0 DEF CallRecords
  <2>1. ASSUME NEW e \in Ids, NEW k \in Keys, NEW h \in Reservations,
               OpenIntent(c, e, k, h)
        PROVE  HoldStep
    <3>1. /\ intent[e].state = "none" /\ CanReserve(h) /\ held' = held + h
          /\ intent' = [intent EXCEPT ![e] = [state |-> "held", key |-> k, hold |-> h,
                                              due |-> FALSE, aged |-> FALSE]]
      BY <2>1 DEF OpenIntent
    <3>2. /\ intent'[e].state = "held" /\ intent'[e].hold = h
          /\ \A j \in Ids \ {e} : intent'[j] = intent[j]
      BY <1>0, <3>1
    <3>3. Takes(e, h) /\ h \in Nat
      BY <3>1, <3>2, Configured DEF Takes
    <3> QED
      BY <3>3 DEF HoldStep
  <2>2. ASSUME Reclaim(c) PROVE HoldStep
    <3>1. i \in Ids
      BY <2>2 DEF Reclaim, TablesTyped
    <3>2. /\ intent[i].state \in {"released", "expired"}
          /\ CanReserve(call[c].hold) /\ held' = held + call[c].hold
          /\ intent' = [intent EXCEPT ![i].state = "held", ![i].hold = call[c].hold,
                                      ![i].due = FALSE]
      BY <2>2 DEF Reclaim
    <3>3. /\ intent'[i].state = "held" /\ intent'[i].hold = call[c].hold
          /\ \A j \in Ids \ {i} : intent'[j] = intent[j]
      BY <1>0, <3>1, <3>2 DEF IntentRecords
    <3>4. Takes(i, call[c].hold)
      BY <3>2, <3>3 DEF Takes
    <3> QED
      BY <2>0, <3>1, <3>4 DEF HoldStep
  <2>3. ASSUME NEW q \in Rows, NEW cost \in Costs, NEW chargeable \in BOOLEAN,
               Settle(c, q, cost, chargeable), ~ UNCHANGED <<held, intent>>
        PROVE  HoldStep
    <3>1. /\ i \in Ids
          /\ intent[i].state = "held"
          /\ intent' = [intent EXCEPT ![i].state = "completed"]
          /\ held' = HeldAfterRelease(call[c].hold)
          /\ call[c].pc = "dispatch" /\ i # None
      BY <2>0, <2>3 DEF Settle
    <3>2. call[c].hold = intent[i].hold
      BY <3>1 DEF HandlesAgree
    <3>3. /\ intent'[i].state = "completed" /\ intent'[i].hold = intent[i].hold
          /\ \A j \in Ids \ {i} : intent'[j] = intent[j]
      BY <1>0, <3>1 DEF IntentRecords
    <3>4. Frees(i)
      BY <3>1, <3>2, <3>3 DEF Frees
    <3> QED
      BY <1>2, <3>1, <3>4
  <2>4. ASSUME call[c].pc = "dispatch", i # None, Release(i, call[c].hold, "released")
        PROVE  HoldStep
    <3>1. i \in Ids
      BY <2>0, <2>4
    <3>2. intent[i].state = "held" => call[c].hold = intent[i].hold
      BY <2>4 DEF HandlesAgree
    <3> QED
      BY <1>2, <2>4, <3>1, <3>2, ReleaseFrees
  <2>5. ASSUME NEW q \in Rows, NEW cost \in Costs, SettleRetryGranted(c, q, cost)
        PROVE  HoldStep
    BY <2>4, <2>5 DEF SettleRetryGranted
  <2>6. ASSUME GiveUp(c) PROVE HoldStep
    BY <1>1, <2>4, <2>6 DEF GiveUp
  <2> QED
    BY <1>1, <1>3, <2>1, <2>2, <2>3, <2>5, <2>6
       DEF CallStep, FindAbandoned, ReclaimRefused, OpenWithoutIntent, RetryAttempt, Abandon
<1>4. ASSUME JobStep PROVE HoldStep
  <2>1. ASSUME NEW x \in job.sweep, SweepOne(x) PROVE HoldStep
    <3>1. x.id \in Ids
      BY <1>0 DEF JobRecords, Handles
    <3>2. intent[x.id].state = "held" => x.hold = intent[x.id].hold
      BY DEF HandlesAgree
    <3>3. Release(x.id, x.hold, "expired")
      BY <2>1 DEF SweepOne
    <3> QED
      BY <1>2, <3>1, <3>2, <3>3, ReleaseFrees
  <2>2. ASSUME Purge PROVE HoldStep
    <3>1. ASSUME NEW i \in Ids
          PROVE  /\ intent'[i].hold = intent[i].hold
                 /\ intent'[i].state = "held" <=> intent[i].state = "held"
      BY <1>0, <2>2 DEF Purge, IntentRecords
    <3>2. held' = held
      BY <2>2 DEF Purge
    <3> QED
      BY <3>1, <3>2 DEF HoldStep, KeepsHolds
  <2> QED
    BY <1>1, <1>4, <2>1, <2>2
       DEF JobStep, SweepRead, MaintenanceFails, FindUnsettled, ReconcileOne, ReconcileDone
<1>5. ASSUME FundsStep PROVE HoldStep
  BY <1>1, <1>5 DEF FundsStep, Reverse, Deposit
<1>6. ASSUME TimeStep PROVE HoldStep
  <2>1. ASSUME NEW i \in Ids, HoldExpires(i) \/ IntentAges(i) PROVE HoldStep
    <3>1. ASSUME NEW j \in Ids
          PROVE  intent'[j].hold = intent[j].hold /\ intent'[j].state = intent[j].state
      BY <1>0, <2>1 DEF HoldExpires, IntentAges, IntentRecords
    <3>2. held' = held
      BY <2>1 DEF HoldExpires, IntentAges
    <3> QED
      BY <3>1, <3>2 DEF HoldStep, KeepsHolds
  <2> QED
    BY <1>1, <1>6, <2>1 DEF TimeStep, RequestAges
<1> QED
  BY <1>3, <1>4, <1>5, <1>6 DEF Next

\* The held amount is what the held intents reserved, and they are finitely
\* many.
Backed == IsFiniteSet(HeldIds) /\ HoldsBacked

LEMMA StepBacked ==
  ASSUME TablesTyped, TablesTyped', Backed, HoldStep
  PROVE  Backed'
<1> DEFINE S == HeldIds
           f == Holds
           T == HeldIds'
           g == Holds'
<1>0. /\ IsFiniteSet(S) /\ held = Total(S, f) /\ held \in Nat
      /\ \A j \in S : f[j] \in Int
      /\ \A j \in Ids : f[j] = intent[j].hold /\ g[j] = intent'[j].hold
      /\ \A j \in Ids : f[j] \in Nat /\ g[j] \in Nat
      /\ S = {j \in Ids : intent[j].state = "held"}
      /\ T = {j \in Ids : intent'[j].state = "held"}
  BY DEF Backed, HoldsBacked, Holds, HeldIds, TablesTyped, IntentRecords
<1> SUFFICES IsFiniteSet(T) /\ held' = Total(T, g)
  BY DEF Backed, HoldsBacked
<1> HIDE DEF S, T, f, g
<1>1. ASSUME NEW i \in Ids, NEW h \in Nat, Takes(i, h)
      PROVE  IsFiniteSet(T) /\ held' = Total(T, g)
  <2>1. T = S \cup {i} /\ i \notin S
    BY <1>0, <1>1 DEF Takes
  <2>2. /\ g[i] = h /\ g[i] \in Int
        /\ \A j \in S : g[j] = f[j]
    BY <1>0, <1>1, <2>1 DEF Takes
  <2>3. IsFiniteSet(T)
    <3>1. IsFiniteSet(S)
      BY <1>0
    <3>2. IsFiniteSet(S \cup {i})
      BY <3>1, FS_AddElement
    <3> QED
      BY <2>1, <3>2
  <2>4. Total(S \cup {i}, g) = Total(S, f) + AtLeast(g[i], 0)
    <3>1. ASSUME NEW S0, NEW f0, NEW g0, IsFiniteSet(S0), i \notin S0,
                 \A x \in S0 : f0[x] \in Int, g0[i] \in Int,
                 \A x \in S0 : g0[x] = f0[x]
          PROVE  Total(S0 \cup {i}, g0) = Total(S0, f0) + AtLeast(g0[i], 0)
      BY <3>1, TotalAdd
    <3>2. /\ IsFiniteSet(S) /\ i \notin S
          /\ \A x \in S : f[x] \in Int
          /\ \A x \in S : g[x] = f[x]
      BY <1>0, <2>1, <2>2
    <3> QED
      BY <2>2, <3>1, <3>2
  <2>5. AtLeast(g[i], 0) = h
    BY <2>2 DEF AtLeast
  <2>6. held' = held + h
    BY <1>1 DEF Takes
  <2> QED
    BY <1>0, <2>1, <2>3, <2>4, <2>5, <2>6
<1>2. ASSUME NEW i \in Ids, Frees(i)
      PROVE  IsFiniteSet(T) /\ held' = Total(T, g)
  <2>1. T = S \ {i} /\ i \in S
    BY <1>0, <1>2 DEF Frees
  <2>2. /\ \A j \in S \ {i} : g[j] = f[j]
        /\ \A j \in T : g[j] \in Int
    BY <1>0, <1>2, <2>1 DEF Frees
  <2>3. IsFiniteSet(T)
    BY <1>0, <2>1, FS_RemoveElement
  <2>4. Total(S, f) = Total(S \ {i}, g) + AtLeast(f[i], 0)
    <3>1. /\ IsFiniteSet(S) /\ i \in S
          /\ \A x \in S : f[x] \in Int
          /\ \A x \in S \ {i} : g[x] = f[x]
      BY <1>0, <2>1, <2>2
    <3> QED
      BY <3>1, TotalRemove, Z3
  <2>5. AtLeast(f[i], 0) = f[i] /\ f[i] \in Nat
    BY <1>0 DEF AtLeast
  <2>6. Total(T, g) \in Nat
    BY <2>2, <2>3, TotalType
  <2>7. held' = AtLeast(held - f[i], 0)
    BY <1>0, <1>2 DEF Frees, HeldAfterRelease
  <2>8. held = Total(T, g) + f[i]
    BY <1>0, <2>1, <2>4, <2>5
  <2> QED
    BY <2>3, <2>5, <2>6, <2>7, <2>8 DEF AtLeast
<1>3. CASE KeepsHolds
  <2>1. T = S
    BY <1>0, <1>3 DEF KeepsHolds
  <2>2. \A j \in S : f[j] = g[j]
    BY <1>0, <1>3 DEF KeepsHolds
  <2>3. Total(S, f) = Total(S, g)
    BY <2>2, TotalSame
  <2>4. held' = held
    BY <1>3 DEF KeepsHolds
  <2> QED
    BY <1>0, <2>1, <2>3, <2>4
<1> QED
  BY <1>1, <1>2, <1>3 DEF HoldStep

-----------------------------------------------------------------------------
(* Handles that agree, because all reservations are the same *)

\* Whatever is held, or carried in a handle, is an amount openRequestIntent
\* reserves.
AllEstimated ==
  /\ \A i \in Ids : intent[i].state = "held" => intent[i].hold \in Reservations
  /\ \A c \in Calls : call[c].pc # "idle" /\ call[c].id # None
                        => call[c].hold \in Reservations
  /\ \A x \in job.sweep : x.hold \in Reservations

LEMMA StepEstimated ==
  ASSUME TablesTyped, AllEstimated, Next
  PROVE  AllEstimated'
<1>0. /\ intent \in [Ids -> IntentRecords]
      /\ call \in [Calls -> CallRecords]
      /\ job \in JobRecords
  BY DEF TablesTyped
<1> DEFINE Intents == \A i \in Ids : intent'[i].state = "held"
                        => intent'[i].hold \in Reservations
           CallsFine == \A c \in Calls : call'[c].pc # "idle" /\ call'[c].id # None
                          => call'[c].hold \in Reservations
           Sweeps == \A x \in job'.sweep : x.hold \in Reservations
<1>1. /\ UNCHANGED intent => Intents
      /\ UNCHANGED call => CallsFine
      /\ UNCHANGED job => Sweeps
  BY DEF AllEstimated
<1>2. ASSUME NEW i, NEW h, NEW state \in {"released", "expired"}, Release(i, h, state)
      PROVE  Intents
  BY <1>0, <1>2 DEF Release, IntentRecords, AllEstimated
<1>3. ASSUME NEW c \in Calls, CallStep(c) PROVE Intents /\ CallsFine /\ Sweeps
  <2>0. UNCHANGED job
    BY <1>3 DEF CallStep, OpenIntent, FindAbandoned, Reclaim, ReclaimRefused,
       OpenWithoutIntent, RetryAttempt, Settle, SettleRetryGranted, GiveUp, Abandon
  <2>1. ASSUME NEW r, call' = [call EXCEPT ![c] = r],
               r.pc # "idle" /\ r.id # None => r.hold \in Reservations
        PROVE  CallsFine
    BY <1>0, <2>1 DEF AllEstimated
  <2>2. call' = [call EXCEPT ![c] = NoCall] => CallsFine
    BY <2>1 DEF NoCall
  <2>3. ASSUME NEW i \in Ids, NEW k \in Keys, NEW h \in Reservations,
               OpenIntent(c, i, k, h)
        PROVE  Intents /\ CallsFine
    <3>1. Intents
      BY <1>0, <2>3 DEF OpenIntent, AllEstimated
    <3>2. CallsFine
      BY <2>1, <2>3 DEF OpenIntent
    <3> QED
      BY <3>1, <3>2
  <2>4. ASSUME NEW i \in Ids, NEW h \in Reservations, FindAbandoned(c, i, h)
        PROVE  Intents /\ CallsFine
    BY <1>1, <2>1, <2>4 DEF FindAbandoned
  <2>5. ASSUME Reclaim(c) PROVE Intents /\ CallsFine
    <3>1. call[c].id \in Ids /\ call[c].id # None /\ call[c].pc = "reclaim"
      BY <2>5, Configured DEF Reclaim, TablesTyped
    <3>2. call[c].hold \in Reservations
      BY <3>1 DEF AllEstimated
    <3>3. Intents
      BY <1>0, <2>5, <3>1, <3>2 DEF Reclaim, AllEstimated, IntentRecords
    <3>4. CallsFine
      BY <1>0, <2>5, <3>1, <3>2 DEF Reclaim, AllEstimated, CallRecords
    <3> QED
      BY <3>3, <3>4
  <2>6. ASSUME OpenWithoutIntent(c) PROVE Intents /\ CallsFine
    BY <1>1, <2>1, <2>6 DEF OpenWithoutIntent
  <2>7. ASSUME NEW cost \in Costs, RetryAttempt(c, cost) PROVE Intents /\ CallsFine
    <3>1. \A d \in Calls : /\ call'[d].pc = call[d].pc
                           /\ call'[d].id = call[d].id
                           /\ call'[d].hold = call[d].hold
      <4>1. cost \in Nat
        BY Configured
      <4> QED
        BY <1>0, <2>7, <4>1, Retried
    <3>2. UNCHANGED intent
      BY <2>7 DEF RetryAttempt
    <3> QED
      BY <3>1, <3>2 DEF AllEstimated
  <2>8. ASSUME NEW q \in Rows, NEW cost \in Costs, NEW chargeable \in BOOLEAN,
               Settle(c, q, cost, chargeable)
        PROVE  Intents /\ CallsFine
    <3>1. UNCHANGED intent \/ intent' = [intent EXCEPT ![call[c].id].state = "completed"]
      BY <2>8 DEF Settle
    <3>2. Intents
      BY <1>0, <1>1, <3>1 DEF IntentRecords, AllEstimated
    <3> QED
      BY <2>2, <2>8, <3>2 DEF Settle
  <2>9. ASSUME NEW q \in Rows, NEW cost \in Costs, SettleRetryGranted(c, q, cost)
        PROVE  Intents /\ CallsFine
    BY <1>2, <2>2, <2>9 DEF SettleRetryGranted
  <2>10. ASSUME GiveUp(c) PROVE Intents /\ CallsFine
    BY <1>1, <1>2, <2>2, <2>10 DEF GiveUp
  <2>11. ASSUME ReclaimRefused(c) \/ Abandon(c) PROVE Intents /\ CallsFine
    BY <1>1, <2>2, <2>11 DEF ReclaimRefused, Abandon
  <2>12. Sweeps
    BY <1>1, <2>0
  <2> HIDE DEF Intents, CallsFine, Sweeps
  <2> QED
    BY <1>3, <2>3, <2>4, <2>5, <2>6, <2>7, <2>8, <2>9, <2>10, <2>11, <2>12 DEF CallStep
<1>4. ASSUME JobStep PROVE Intents /\ CallsFine /\ Sweeps
  <2>0. UNCHANGED call
    BY <1>4 DEF JobStep, SweepRead, SweepOne, Purge, MaintenanceFails, FindUnsettled,
       ReconcileOne, ReconcileDone
  <2>1. CASE SweepRead
    BY <1>0, <1>1, <2>1 DEF SweepRead, AllEstimated, JobRecords
  <2>2. ASSUME NEW x \in job.sweep, SweepOne(x) PROVE Intents /\ Sweeps
    <3>1. Sweeps
      BY <1>0, <2>2 DEF SweepOne, AllEstimated, JobRecords
    <3> QED
      BY <1>2, <2>2, <3>1 DEF SweepOne
  <2>3. CASE Purge
    <3>1. Intents
      BY <1>0, <2>3 DEF Purge, AllEstimated, IntentRecords
    <3>2. Sweeps
      BY <1>0, <2>3 DEF Purge, AllEstimated, JobRecords
    <3> QED
      BY <1>1, <2>0, <3>1, <3>2
  <2>4. CASE MaintenanceFails \/ FindUnsettled \/ ReconcileDone
    BY <1>0, <1>1, <2>4 DEF MaintenanceFails, FindUnsettled, ReconcileDone, AllEstimated,
       JobRecords
  <2>5. ASSUME NEW q \in job.orphans, ReconcileOne(q) PROVE Intents /\ Sweeps
    BY <1>0, <1>1, <2>5 DEF ReconcileOne, AllEstimated, JobRecords
  <2>6. CallsFine
    BY <1>1, <2>0
  <2> HIDE DEF Intents, CallsFine, Sweeps
  <2> QED
    BY <1>4, <2>1, <2>2, <2>3, <2>4, <2>5, <2>6 DEF JobStep
<1>5. ASSUME FundsStep \/ TimeStep PROVE Intents /\ CallsFine /\ Sweeps
  <2>1. UNCHANGED <<call, job>>
    BY <1>5 DEF FundsStep, Reverse, Deposit, TimeStep, HoldExpires, IntentAges, RequestAges
  <2>2. ASSUME NEW i \in Ids, HoldExpires(i) \/ IntentAges(i) PROVE Intents
    BY <1>0, <2>2 DEF HoldExpires, IntentAges, IntentRecords, AllEstimated
  <2>3. Intents
    BY <1>1, <1>5, <2>2 DEF FundsStep, Reverse, Deposit, TimeStep, RequestAges
  <2> QED
    BY <1>1, <2>1, <2>3
<1>6. Intents /\ CallsFine /\ Sweeps
  BY <1>3, <1>4, <1>5 DEF Next
<1> QED
  BY <1>6 DEF AllEstimated

-----------------------------------------------------------------------------
(* Handles that agree, because no hold expires under its owner *)

\* Every intent a call dispatches under, or the sweep has on its list, is still
\* held, for the amount in the handle; a call's is not due and its alone, the
\* sweep's are due.
Owned ==
  /\ \A c \in Calls : call[c].pc # "idle" => call[c].attempt <= MaxAttempts
  /\ \A c \in Calls : call[c].pc = "dispatch" /\ call[c].id # None
       => /\ intent[call[c].id].state = "held"
          /\ ~ intent[call[c].id].due
          /\ intent[call[c].id].hold = call[c].hold
  /\ \A c, d \in Calls :
       (/\ call[c].pc = "dispatch" /\ call[d].pc = "dispatch"
        /\ call[c].id # None /\ call[c].id = call[d].id)
         => c = d
  /\ \A x \in job.sweep : /\ intent[x.id].state = "held"
                          /\ intent[x.id].due
                          /\ intent[x.id].hold = x.hold

\* An intent that is not held is taken by one call.
LEMMA OwnedTaken ==
  ASSUME TablesTyped, Owned, NEW c \in Calls, NEW i \in Ids, NEW h, NEW r,
         intent[i].state # "held", UNCHANGED job,
         call' = [call EXCEPT ![c] = r],
         r.pc = "dispatch", r.id = i, r.hold = h, r.attempt <= MaxAttempts,
         intent'[i].state = "held", ~ intent'[i].due, intent'[i].hold = h,
         \A j \in Ids \ {i} : intent'[j] = intent[j]
  PROVE  Owned'
<1>0. /\ call \in [Calls -> CallRecords] /\ job \in JobRecords
      /\ \A d \in Calls : call[d].id \in Ids \cup {None}
      /\ \A x \in job.sweep : x.id \in Ids
      /\ None \notin Ids
  BY Configured DEF TablesTyped, CallRecords, JobRecords, Handles
<1>1. call'[c] = r /\ \A d \in Calls \ {c} : call'[d] = call[d]
  BY <1>0
<1>2. \A d \in Calls : call[d].pc = "dispatch" => call[d].id # i
  BY <1>0 DEF Owned
<1>3. \A x \in job.sweep : x.id # i
  BY DEF Owned
<1>4. \A d \in Calls : call'[d].pc # "idle" => call'[d].attempt <= MaxAttempts
  BY <1>1 DEF Owned
<1>5. ASSUME NEW d \in Calls, call'[d].pc = "dispatch", call'[d].id # None
      PROVE  /\ intent'[call'[d].id].state = "held"
             /\ ~ intent'[call'[d].id].due
             /\ intent'[call'[d].id].hold = call'[d].hold
  <2>1. CASE d = c
    BY <1>1, <2>1
  <2>2. CASE d # c
    <3>1. call'[d] = call[d] /\ call[d].id \in Ids \ {i}
      BY <1>0, <1>1, <1>2, <1>5, <2>2
    <3>2. intent'[call[d].id] = intent[call[d].id]
      BY <3>1
    <3> QED
      BY <1>5, <3>1, <3>2 DEF Owned
  <2> QED
    BY <2>1, <2>2
<1>6. ASSUME NEW d \in Calls, NEW e \in Calls,
             call'[d].pc = "dispatch", call'[e].pc = "dispatch",
             call'[d].id # None, call'[d].id = call'[e].id
      PROVE  d = e
  <2>1. CASE d = c \/ e = c
    BY <1>1, <1>2, <1>6, <2>1
  <2>2. CASE d # c /\ e # c
    BY <1>1, <1>6, <2>2 DEF Owned
  <2> QED
    BY <2>1, <2>2
<1>7. \A x \in job'.sweep : /\ intent'[x.id].state = "held"
                            /\ intent'[x.id].due
                            /\ intent'[x.id].hold = x.hold
  BY <1>0, <1>3 DEF Owned
<1> QED
  BY <1>4, <1>5, <1>6, <1>7 DEF Owned

\* A call lets go of the intent it owns, if it owns one.
LEMMA OwnedLeft ==
  ASSUME TablesTyped, Owned, NEW c \in Calls, UNCHANGED job,
         NEW r, call' = [call EXCEPT ![c] = r],
         r.pc # "dispatch" \/ r.id = None,
         r.pc # "idle" => r.attempt <= MaxAttempts,
         \/ UNCHANGED intent
         \/ /\ call[c].pc = "dispatch" /\ call[c].id # None
            /\ \A j \in Ids \ {call[c].id} : intent'[j] = intent[j]
  PROVE  Owned'
<1>0. /\ call \in [Calls -> CallRecords] /\ job \in JobRecords
      /\ \A d \in Calls : call[d].id \in Ids \cup {None}
      /\ \A x \in job.sweep : x.id \in Ids
  BY DEF TablesTyped, CallRecords, JobRecords, Handles
<1>1. call'[c] = r /\ \A d \in Calls \ {c} : call'[d] = call[d]
  BY <1>0
<1>2. ASSUME NEW d \in Calls, call'[d].pc = "dispatch", call'[d].id # None
      PROVE  /\ call[d].pc = "dispatch" /\ call'[d] = call[d]
             /\ intent'[call[d].id] = intent[call[d].id]
  <2>1. d # c /\ call'[d] = call[d]
    BY <1>1, <1>2
  <2>2. CASE call[c].pc = "dispatch" /\ call[c].id # None
    <3>1. call[d].id \in Ids /\ call[d].id # call[c].id
      BY <1>0, <1>2, <2>1, <2>2 DEF Owned
    <3> QED
      BY <1>2, <2>1, <2>2, <3>1
  <2>3. CASE UNCHANGED intent
    BY <1>2, <2>1, <2>3
  <2> QED
    BY <2>2, <2>3
<1>3. ASSUME NEW x \in job.sweep PROVE intent'[x.id] = intent[x.id]
  <2>1. CASE call[c].pc = "dispatch" /\ call[c].id # None
    BY <1>0, <2>1 DEF Owned
  <2> QED
    BY <2>1
<1>4. \A d \in Calls : call'[d].pc # "idle" => call'[d].attempt <= MaxAttempts
  BY <1>1 DEF Owned
<1>5. ASSUME NEW d \in Calls, call'[d].pc = "dispatch", call'[d].id # None
      PROVE  /\ intent'[call'[d].id].state = "held"
             /\ ~ intent'[call'[d].id].due
             /\ intent'[call'[d].id].hold = call'[d].hold
  BY <1>2, <1>5 DEF Owned
<1>6. ASSUME NEW d \in Calls, NEW e \in Calls,
             call'[d].pc = "dispatch", call'[e].pc = "dispatch",
             call'[d].id # None, call'[d].id = call'[e].id
      PROVE  d = e
  <2>1. /\ call[d].pc = "dispatch" /\ call'[d] = call[d]
        /\ call[e].pc = "dispatch" /\ call'[e] = call[e]
    BY <1>2, <1>6
  <2> QED
    BY <1>6, <2>1 DEF Owned
<1>7. \A x \in job'.sweep : /\ intent'[x.id].state = "held"
                            /\ intent'[x.id].due
                            /\ intent'[x.id].hold = x.hold
  BY <1>3 DEF Owned
<1> QED
  BY <1>4, <1>5, <1>6, <1>7 DEF Owned

\* Release touches one intent.
LEMMA ReleaseOthers ==
  ASSUME TablesTyped, NEW i, NEW h, NEW state, Release(i, h, state)
  PROVE  \A j \in Ids \ {i} : intent'[j] = intent[j]
  BY DEF Release, TablesTyped

\* Calls open, retry and end their dispatch with no harm to the others.
LEMMA CallOwned ==
  ASSUME TablesTyped, Owned, NEW c \in Calls, CallStep(c)
  PROVE  Owned'
<1>0. /\ call \in [Calls -> CallRecords] /\ intent \in [Ids -> IntentRecords]
      /\ None \notin Ids /\ MaxAttempts \in Nat /\ 1 <= MaxAttempts
  BY Configured, BillingAssumption DEF TablesTyped, BillingAssumption
<1>1. ASSUME NEW i \in Ids, NEW k \in Keys, NEW h \in Reservations,
             OpenIntent(c, i, k, h)
      PROVE  Owned'
  <2> DEFINE r == [pc |-> "dispatch", id |-> i, hold |-> h,
                   reclaimed |-> FALSE, attempt |-> 1, recovered |-> 0]
  <2>1. /\ r.pc = "dispatch" /\ r.id = i /\ r.hold = h /\ r.attempt <= MaxAttempts
    BY <1>0
  <2>2. /\ intent[i].state # "held" /\ UNCHANGED job
        /\ call' = [call EXCEPT ![c] = r]
    BY <1>1 DEF OpenIntent
  <2>3. /\ intent'[i].state = "held" /\ ~ intent'[i].due /\ intent'[i].hold = h
        /\ \A j \in Ids \ {i} : intent'[j] = intent[j]
    BY <1>0, <1>1 DEF OpenIntent
  <2> HIDE DEF r
  <2> QED
    BY <2>1, <2>2, <2>3, OwnedTaken
<1>2. ASSUME Reclaim(c) PROVE Owned'
  <2> DEFINE r == [call[c] EXCEPT !.pc = "dispatch"]
             i == call[c].id
             h == call[c].hold
  <2>1. i \in Ids
    BY <1>2 DEF Reclaim, TablesTyped
  <2>2. r.pc = "dispatch" /\ r.id = i /\ r.hold = h /\ r.attempt <= MaxAttempts
    BY <1>0, <1>2 DEF CallRecords, Reclaim, Owned
  <2>3. /\ intent[i].state # "held" /\ UNCHANGED job
        /\ call' = [call EXCEPT ![c] = r]
    BY <1>0, <1>2 DEF Reclaim
  <2>4. /\ intent'[i].state = "held" /\ ~ intent'[i].due /\ intent'[i].hold = h
        /\ \A j \in Ids \ {i} : intent'[j] = intent[j]
    BY <1>0, <1>2, <2>1 DEF Reclaim, IntentRecords
  <2> HIDE DEF r, i, h
  <2> QED
    BY <2>1, <2>2, <2>3, <2>4, OwnedTaken
<1>3. ASSUME NEW i \in Ids, NEW h \in Reservations, FindAbandoned(c, i, h)
      PROVE  Owned'
  <2> DEFINE r == [pc |-> "reclaim", id |-> i, hold |-> h,
                   reclaimed |-> TRUE, attempt |-> 1, recovered |-> 0]
  <2>1. r.pc # "dispatch" /\ r.attempt <= MaxAttempts
    BY <1>0
  <2>2. call' = [call EXCEPT ![c] = r] /\ UNCHANGED <<intent, job>>
    BY <1>3 DEF FindAbandoned
  <2> HIDE DEF r
  <2> QED
    BY <2>1, <2>2, OwnedLeft
<1>4. ASSUME OpenWithoutIntent(c) PROVE Owned'
  <2> DEFINE r == [pc |-> "dispatch", id |-> None, hold |-> 0,
                   reclaimed |-> FALSE, attempt |-> 1, recovered |-> 0]
  <2>1. r.id = None /\ r.attempt <= MaxAttempts
    BY <1>0
  <2>2. call' = [call EXCEPT ![c] = r] /\ UNCHANGED <<intent, job>>
    BY <1>4 DEF OpenWithoutIntent
  <2> HIDE DEF r
  <2> QED
    BY <2>1, <2>2, OwnedLeft
<1>5. ASSUME NEW cost \in Costs, RetryAttempt(c, cost) PROVE Owned'
  <2>1. \A d \in Calls : /\ call'[d].pc = call[d].pc
                         /\ call'[d].id = call[d].id
                         /\ call'[d].hold = call[d].hold
    BY <1>0, <1>5 DEF RetryAttempt, CallRecords
  <2>2. \A d \in Calls : call'[d].pc # "idle" => call'[d].attempt <= MaxAttempts
    <3>1. call[c].attempt \in Nat /\ call[c].attempt < MaxAttempts
      BY <1>0, <1>5 DEF RetryAttempt, CallRecords
    <3>2. call'[c].attempt = call[c].attempt + 1
      BY <1>0, <1>5 DEF RetryAttempt, CallRecords
    <3>3. \A d \in Calls \ {c} : call'[d] = call[d]
      BY <1>0, <1>5 DEF RetryAttempt
    <3> QED
      BY <1>0, <3>1, <3>2, <3>3 DEF Owned
  <2>3. UNCHANGED <<intent, job>>
    BY <1>5 DEF RetryAttempt
  <2> QED
    BY <2>1, <2>2, <2>3 DEF Owned
<1>6. NoCall.pc = "idle"
  BY DEF NoCall
<1>7. ASSUME NEW q \in Rows, NEW cost \in Costs, NEW chargeable \in BOOLEAN,
             Settle(c, q, cost, chargeable)
      PROVE  Owned'
  <2>1. call' = [call EXCEPT ![c] = NoCall] /\ UNCHANGED job /\ call[c].pc = "dispatch"
    BY <1>7 DEF Settle
  <2>2. CASE UNCHANGED intent
    BY <1>6, <2>1, <2>2, OwnedLeft
  <2>3. CASE ~ UNCHANGED intent
    <3>1. /\ call[c].id # None
          /\ intent' = [intent EXCEPT ![call[c].id].state = "completed"]
      BY <1>7, <2>3 DEF Settle
    <3>2. \A j \in Ids \ {call[c].id} : intent'[j] = intent[j]
      BY <1>0, <3>1
    <3> QED
      BY <1>6, <2>1, <3>1, <3>2, OwnedLeft
  <2> QED
    BY <2>2, <2>3
<1>8. ASSUME NEW q \in Rows, NEW cost \in Costs, SettleRetryGranted(c, q, cost)
      PROVE  Owned'
  BY <1>6, <1>8, ReleaseOthers, OwnedLeft DEF SettleRetryGranted
<1>9. ASSUME GiveUp(c) PROVE Owned'
  BY <1>6, <1>9, ReleaseOthers, OwnedLeft DEF GiveUp
<1>10. ASSUME ReclaimRefused(c) \/ Abandon(c) PROVE Owned'
  BY <1>6, <1>10, OwnedLeft DEF ReclaimRefused, Abandon
<1> QED
  BY <1>1, <1>2, <1>3, <1>4, <1>5, <1>7, <1>8, <1>9, <1>10 DEF CallStep

\* The sweep puts what is due on its list, and takes it off when it expires it.
LEMMA JobOwned ==
  ASSUME TablesTyped, Owned, JobStep
  PROVE  Owned'
<1>0. /\ call \in [Calls -> CallRecords] /\ intent \in [Ids -> IntentRecords]
      /\ job \in JobRecords
      /\ \A d \in Calls : call[d].id \in Ids \cup {None}
      /\ \A x \in job.sweep : x \in Handles /\ x.id \in Ids
  BY DEF TablesTyped, CallRecords, JobRecords, Handles
<1>1. UNCHANGED call
  BY DEF JobStep, SweepRead, SweepOne, Purge, MaintenanceFails, FindUnsettled,
     ReconcileOne, ReconcileDone
<1> DEFINE Intact(S) == \A i \in S : /\ intent'[i].state = intent[i].state
                                     /\ intent'[i].due = intent[i].due
                                     /\ intent'[i].hold = intent[i].hold
           Dispatching == {i \in Ids : \E c \in Calls : call[c].pc = "dispatch"
                                                         /\ call[c].id = i}
           Sweeping == \A x \in job'.sweep : /\ intent'[x.id].state = "held"
                                             /\ intent'[x.id].due
                                             /\ intent'[x.id].hold = x.hold
<1>2. Intact(Dispatching) /\ Sweeping => Owned'
  <2> SUFFICES ASSUME Intact(Dispatching), Sweeping PROVE Owned'
    OBVIOUS
  <2>1. \A c \in Calls : call[c].pc = "dispatch" /\ call[c].id # None
          => call[c].id \in Dispatching
    BY <1>0
  <2> HIDE DEF Dispatching
  <2>2. \A c \in Calls : call[c].pc = "dispatch" /\ call[c].id # None
          => /\ intent'[call[c].id].state = "held"
             /\ ~ intent'[call[c].id].due
             /\ intent'[call[c].id].hold = call[c].hold
    BY <2>1 DEF Owned
  <2> QED
    BY <1>1, <2>2 DEF Owned
<1>3. CASE UNCHANGED intent /\ job'.sweep \subseteq job.sweep
  BY <1>2, <1>3 DEF Owned
<1>4. CASE SweepRead
  <2>1. /\ UNCHANGED intent
        /\ job'.sweep = {[id |-> i, hold |-> intent[i].hold] :
                           i \in {j \in Ids : intent[j].state = "held" /\ intent[j].due}}
    BY <1>0, <1>4 DEF SweepRead, JobRecords
  <2>2. Sweeping
    BY <2>1
  <2> QED
    BY <1>2, <2>1, <2>2
<1>5. ASSUME NEW x \in job.sweep, SweepOne(x) PROVE Owned'
  <2>1. /\ \A j \in Ids \ {x.id} : intent'[j] = intent[j]
        /\ job'.sweep = job.sweep \ {x}
    BY <1>0, <1>5, ReleaseOthers DEF SweepOne, JobRecords
  <2>2. x.id \notin Dispatching
    <3> SUFFICES ASSUME NEW c \in Calls, call[c].pc = "dispatch", call[c].id = x.id
                 PROVE  FALSE
      OBVIOUS
    <3>1. call[c].id # None
      BY <1>0, Configured
    <3> QED
      BY <3>1 DEF Owned
  <2>3. \A y \in job.sweep \ {x} : y.id # x.id
    <3> SUFFICES ASSUME NEW y \in job.sweep, y.id = x.id PROVE y = x
      OBVIOUS
    <3>1. y.hold = x.hold
      BY DEF Owned
    <3>2. /\ x = [id |-> x.id, hold |-> x.hold]
          /\ y = [id |-> y.id, hold |-> y.hold]
      BY <1>0 DEF Handles
    <3> QED
      BY <3>1, <3>2
  <2>4. Intact(Dispatching)
    BY <2>1, <2>2
  <2>5. Sweeping
    BY <1>0, <2>1, <2>3 DEF Owned
  <2> QED
    BY <1>2, <2>4, <2>5
<1>6. CASE Purge
  <2>1. \A i \in Ids : intent[i].state = "held" => intent'[i] = intent[i]
    BY <1>0, <1>6 DEF Purge
  <2>2. job'.sweep = {}
    BY <1>0, <1>6 DEF Purge, JobRecords
  <2>3. \A i \in Dispatching : intent[i].state = "held"
    BY <1>0, Configured DEF Owned
  <2>4. Intact(Dispatching)
    BY <2>1, <2>3
  <2> HIDE DEF Dispatching
  <2> QED
    BY <1>2, <2>2, <2>4
<1>7. CASE MaintenanceFails \/ FindUnsettled \/ ReconcileDone
           \/ \E q \in job.orphans : ReconcileOne(q)
  <2>1. UNCHANGED intent /\ job'.sweep \subseteq job.sweep
    BY <1>0, <1>7 DEF MaintenanceFails, FindUnsettled, ReconcileOne, ReconcileDone, JobRecords
  <2> QED
    BY <1>3, <2>1
<1> QED
  BY <1>4, <1>5, <1>6, <1>7 DEF JobStep

\* No hold falls due under a call that is still dispatching.
LEMMA TimeOwned ==
  ASSUME TtlAttempts >= MaxAttempts, TablesTyped, Owned, FundsStep \/ TimeStep
  PROVE  Owned'
<1>0. /\ call \in [Calls -> CallRecords] /\ intent \in [Ids -> IntentRecords]
      /\ job \in JobRecords
      /\ \A d \in Calls : call[d].id \in Ids \cup {None}
      /\ \A x \in job.sweep : x.id \in Ids
      /\ MaxAttempts \in Nat /\ TtlAttempts \in Nat
      /\ \A d \in Calls : call[d].attempt \in Nat
  BY BillingAssumption DEF TablesTyped, CallRecords, JobRecords, Handles, BillingAssumption
<1>1. UNCHANGED <<call, job>>
  BY DEF FundsStep, Reverse, Deposit, TimeStep, HoldExpires, IntentAges, RequestAges
<1>2. CASE UNCHANGED intent
  BY <1>1, <1>2 DEF Owned
<1>3. ASSUME NEW i \in Ids, IntentAges(i) PROVE Owned'
  <2>1. \A j \in Ids : /\ intent'[j].state = intent[j].state
                       /\ intent'[j].due = intent[j].due
                       /\ intent'[j].hold = intent[j].hold
    BY <1>0, <1>3 DEF IntentAges, IntentRecords
  <2> QED
    BY <1>0, <1>1, <2>1 DEF Owned
<1>4. ASSUME NEW i \in Ids, HoldExpires(i) PROVE Owned'
  <2>1. \A c \in Calls : call[c].pc = "dispatch" => call[c].id # i
    BY <1>0, <1>4 DEF HoldExpires, Owned
  <2>2. /\ \A j \in Ids \ {i} : intent'[j] = intent[j]
        /\ intent'[i].state = intent[i].state
        /\ intent'[i].hold = intent[i].hold
        /\ intent'[i].due
    BY <1>0, <1>4 DEF HoldExpires, IntentRecords
  <2>3. \A c \in Calls : call[c].pc = "dispatch" /\ call[c].id # None
          => intent'[call[c].id] = intent[call[c].id]
    BY <1>0, <2>1, <2>2
  <2>4. \A x \in job.sweep : /\ intent'[x.id].state = "held"
                             /\ intent'[x.id].due
                             /\ intent'[x.id].hold = x.hold
    BY <1>0, <2>2 DEF Owned
  <2> QED
    BY <1>1, <2>3, <2>4 DEF Owned
<1> QED
  BY <1>2, <1>3, <1>4 DEF FundsStep, Reverse, Deposit, TimeStep, RequestAges

-----------------------------------------------------------------------------
(* Holds are backed and covered *)

\* What the configuration must guarantee: every reservation is of the same
\* amount, or a hold outlives all the attempts of its call.  The code's
\* defaults guarantee the second.
HandlesSafe ==
  \/ \A g, h \in Reservations : g = h
  \/ TtlAttempts >= MaxAttempts

\* Which of the two makes handles agree.
HandleInv ==
  \/ (\A g, h \in Reservations : g = h) /\ AllEstimated
  \/ TtlAttempts >= MaxAttempts /\ Owned

LEMMA HandlesHold ==
  /\ HandlesSafe /\ Init => HandleInv
  /\ TablesTyped /\ HandleInv /\ [Next]_vars => HandleInv'
  /\ TablesTyped /\ HandleInv => HandlesAgree
<1>1. Init => AllEstimated /\ Owned
  BY DEF Init, AllEstimated, Owned, NoIntent, NoCall, NoJob
<1>2. ASSUME TablesTyped, Owned, TtlAttempts >= MaxAttempts, [Next]_vars
      PROVE  Owned'
  <2>1. CASE Next
    BY <1>2, <2>1, CallOwned, JobOwned, TimeOwned DEF Next
  <2>2. CASE UNCHANGED vars
    BY <1>2, <2>2 DEF vars, Owned
  <2> QED
    BY <1>2, <2>1, <2>2
<1>3. ASSUME TablesTyped, AllEstimated, [Next]_vars
      PROVE  AllEstimated'
  <2>1. CASE UNCHANGED vars
    BY <1>3, <2>1 DEF vars, AllEstimated
  <2> QED
    BY <1>3, <2>1, StepEstimated
<1>4. ASSUME TablesTyped, Owned PROVE HandlesAgree
  BY <1>4 DEF Owned, HandlesAgree
<1>5. ASSUME TablesTyped, AllEstimated, \A g, h \in Reservations : g = h
      PROVE  HandlesAgree
  <2>1. /\ \A c \in Calls : call[c].id \in Ids \cup {None}
        /\ \A x \in job.sweep : x.id \in Ids
    BY <1>5 DEF TablesTyped, CallRecords, JobRecords, Handles
  <2>2. ASSUME NEW c \in Calls, call[c].pc = "dispatch", call[c].id # None,
               intent[call[c].id].state = "held"
        PROVE  call[c].hold = intent[call[c].id].hold
    <3>1. call[c].id \in Ids /\ call[c].pc # "idle"
      BY <2>1, <2>2
    <3>2. call[c].hold \in Reservations /\ intent[call[c].id].hold \in Reservations
      BY <1>5, <2>2, <3>1 DEF AllEstimated
    <3> QED
      BY <1>5, <3>2
  <2>3. ASSUME NEW x \in job.sweep, intent[x.id].state = "held"
        PROVE  x.hold = intent[x.id].hold
    <3>1. x.hold \in Reservations /\ intent[x.id].hold \in Reservations
      BY <1>5, <2>1, <2>3 DEF AllEstimated
    <3> QED
      BY <1>5, <3>1
  <2> QED
    BY <2>2, <2>3 DEF HandlesAgree
<1> QED
  BY <1>1, <1>2, <1>3, <1>4, <1>5 DEF HandlesSafe, HandleInv

HoldInv == IInv /\ HandleInv /\ Backed

LEMMA InitHoldInv == HandlesSafe /\ Init => HoldInv
<1> SUFFICES ASSUME HandlesSafe, Init PROVE Backed
  BY InitIInv, HandlesHold DEF HoldInv
<1>1. HeldIds = {}
  BY DEF Init, HeldIds, NoIntent
<1>2. held = 0
  BY DEF Init
<1> QED
  BY <1>1, <1>2, FS_EmptySet, TotalEmpty DEF Backed, HoldsBacked

LEMMA StepHoldInv ==
  ASSUME HoldInv, [Next]_vars
  PROVE  HoldInv'
<1>1. IInv' /\ HandleInv' /\ TablesTyped /\ TablesTyped' /\ HandlesAgree
  BY StepIInv, HandlesHold DEF HoldInv, IInv
<1>2. CASE Next
  BY <1>1, <1>2, HoldSteps, StepBacked DEF HoldInv
<1>3. CASE UNCHANGED vars
  BY <1>1, <1>3 DEF vars, HoldInv, Backed, HoldsBacked, HeldIds, Holds
<1> QED
  BY <1>1, <1>2, <1>3 DEF HoldInv

\* held_usd is exactly what the intents in state held reserved: no
\* interleaving of settle, release, sweep and reclaim frees a hold twice or
\* leaves funds frozen with no intent to free them.
THEOREM HoldsAreBacked ==
  ASSUME HandlesSafe
  PROVE  Spec => []HoldsBacked
<1>1. Init => HoldInv
  BY InitHoldInv
<1>2. HoldInv /\ [Next]_vars => HoldInv'
  BY StepHoldInv
<1>3. HoldInv => HoldsBacked
  BY DEF HoldInv, Backed
<1> QED
  BY <1>1, <1>2, <1>3, PTL DEF Spec

\* While no charge overruns its estimate, every hold is covered and nothing is
\* written off: HoldsCovered with what keeps it.
CoverInv == HoldInv /\ HoldsCovered

\* A charge that did not overrun its hold before the step is as it was.
LEMMA OverrunsStay ==
  ASSUME HoldInv, HoldStep,
         \A k \in Posted : k \in Posted' /\ ledger'[k] = ledger[k],
         \A i \in Ids : intent[i].state = "completed" => intent'[i].hold = intent[i].hold,
         \A i \in Ids : intent[i].state = "purged" => intent'[i].hold = intent[i].hold,
         NoOverrun'
  PROVE  NoOverrun
<1>1. ASSUME NEW i \in Ids, IntentKey(i) \in Posted
      PROVE  ledger[IntentKey(i)].amount + intent[i].hold >= 0
  <2>1. intent[i].state \in {"completed", "purged"}
    BY <1>1 DEF HoldInv, IInv, CompletedIsCharged
  <2>2. intent'[i].hold = intent[i].hold
    BY <2>1
  <2>3. IntentKey(i) \in Posted' /\ ledger'[IntentKey(i)] = ledger[IntentKey(i)]
    BY <1>1
  <2>4. ledger'[IntentKey(i)].amount + intent'[i].hold >= 0
    BY <2>3 DEF NoOverrun
  <2> QED
    BY <2>2, <2>3, <2>4
<1>2. ASSUME NEW q \in Rows, RequestKey(q) \in Posted
      PROVE  ledger[RequestKey(q)].amount = 0
  BY <1>2 DEF NoOverrun
<1> QED
  BY <1>1, <1>2 DEF NoOverrun

\* What is held is at least what each held intent holds.
LEMMA HeldBounds ==
  ASSUME HoldInv, NEW i \in Ids, intent[i].state = "held"
  PROVE  intent[i].hold <= held /\ held \in Nat /\ intent[i].hold \in Nat
<1> DEFINE S == HeldIds
           f == Holds
<1>1. /\ IsFiniteSet(S) /\ i \in S
      /\ \A x \in S : f[x] \in Int
      /\ held = Total(S, f) /\ held \in Nat
      /\ f[i] = intent[i].hold /\ intent[i].hold \in Nat
  BY DEF HoldInv, Backed, HoldsBacked, HeldIds, Holds, IInv, TablesTyped, IntentRecords
<1> HIDE DEF S, f
<1>2. f[i] <= Total(S, f)
  BY <1>1, TotalBound
<1> QED
  BY <1>1, <1>2

\* What a step of the holds does to the held amount and to charged intents.
LEMMA HoldStepHeld ==
  ASSUME HoldInv, HoldStep
  PROVE  /\ \A i \in Ids : intent[i].state \in {"completed", "purged"}
                             => intent'[i].hold = intent[i].hold
         /\ (held' > held => held' <= balance)
         /\ held \in Nat /\ held' \in Int
<1>0. held \in Nat /\ balance \in Nat /\ \A j \in Ids : intent[j].hold \in Nat
  BY DEF HoldInv, IInv, LedgerInv, LedgerTyped, TablesTyped, IntentRecords
<1>1. ASSUME NEW i \in Ids, NEW h \in Nat, Takes(i, h)
      PROVE  /\ \A j \in Ids : intent[j].state \in {"completed", "purged"}
                                 => intent'[j].hold = intent[j].hold
             /\ (held' > held => held' <= balance) /\ held' \in Int
  <2>1. \A j \in Ids : intent[j].state \in {"completed", "purged"}
                         => intent'[j].hold = intent[j].hold
    BY <1>1 DEF Takes
  <2>2. held' = held + h /\ (h > 0 => balance - held >= h)
    BY <1>1 DEF Takes, CanReserve
  <2> QED
    BY <1>0, <2>1, <2>2
<1>2. ASSUME NEW i \in Ids, Frees(i)
      PROVE  /\ \A j \in Ids : intent'[j].hold = intent[j].hold
             /\ held' <= held /\ held' \in Int
  <2>1. \A j \in Ids : intent'[j].hold = intent[j].hold
    BY <1>2 DEF Frees
  <2>2. held' = AtLeast(held - intent[i].hold, 0)
    BY <1>2 DEF Frees, HeldAfterRelease
  <2> QED
    BY <1>0, <2>1, <2>2 DEF AtLeast
<1>3. CASE KeepsHolds
  BY <1>0, <1>3 DEF KeepsHolds
<1> QED
  BY <1>0, <1>1, <1>2, <1>3 DEF HoldStep

LEMMA StepCover ==
  ASSUME CoverInv, Next
  PROVE  HoldsCovered'
<1>0. /\ HoldInv /\ LedgerInv /\ TablesTyped /\ HoldStep /\ LedgerStep
      /\ held \in Nat /\ balance \in Nat
      /\ intent \in [Ids -> IntentRecords]
  BY LedgerSteps, HandlesHold, HoldSteps
     DEF CoverInv, HoldInv, IInv, LedgerInv, LedgerTyped, TablesTyped
<1>1. /\ \A i \in Ids : intent[i].state \in {"completed", "purged"}
                          => intent'[i].hold = intent[i].hold
      /\ (held' > held => held' <= balance)
      /\ held' \in Int
  BY <1>0, HoldStepHeld
<1> SUFFICES ASSUME NoOverrun'
             PROVE  held' <= balance' /\ \A i \in Ids : IntentWriteOff(i) \notin Posted'
  BY DEF HoldsCovered
\* So far nothing overran, so the holds were covered before the step.
<1>2. ASSUME \A k \in Posted : k \in Posted' /\ ledger'[k] = ledger[k]
      PROVE  held <= balance /\ \A i \in Ids : IntentWriteOff(i) \notin Posted
  <2>1. NoOverrun
    BY <1>0, <1>1, <1>2, OverrunsStay
  <2> QED
    BY <2>1 DEF CoverInv, HoldsCovered
<1>3. CASE UNCHANGED <<balance, ledger>>
  <2>1. Posted' = Posted /\ ledger' = ledger /\ balance' = balance
    BY <1>3 DEF Posted
  <2>2. held <= balance /\ \A i \in Ids : IntentWriteOff(i) \notin Posted
    BY <1>2, <2>1
  <2> QED
    BY <1>0, <1>1, <2>1, <2>2
<1>4. ASSUME NEW i \in Ids, NEW q \in Rows, NEW owed \in Nat, SettlesIntent(i, q, owed)
      PROVE  held' <= balance' /\ \A j \in Ids : IntentWriteOff(j) \notin Posted'
  <2> DEFINE covered == AtMost(owed, balance)
             hold == intent[i].hold
  <2>1. Posts(IntentKey(i), IntentWriteOff(i), owed, covered, q)
    BY <1>0, <1>4, KindsPost
  <2>2. /\ \A k \in Posted : k \in Posted' /\ ledger'[k] = ledger[k]
        /\ IntentKey(i) \in Posted'
        /\ ledger'[IntentKey(i)].amount = -owed
        /\ Posted' \subseteq Posted \cup {IntentKey(i)}
                               \cup (IF owed > covered THEN {IntentWriteOff(i)} ELSE {})
    BY <2>1 DEF Posts
  <2>3. held <= balance /\ \A j \in Ids : IntentWriteOff(j) \notin Posted
    BY <1>2, <2>2
  <2>4. /\ intent[i].state = "held"
        /\ intent'[i].state = "completed" /\ intent'[i].hold = hold
        /\ \A j \in Ids \ {i} : intent'[j] = intent[j]
        /\ balance' = balance - covered
    BY <1>0, <1>4 DEF SettlesIntent, Posting, IntentRecords
  <2>5. Frees(i)
    BY <1>0, <2>4 DEF HoldStep, Takes, Frees, KeepsHolds
  <2>6. held' = AtLeast(held - hold, 0)
    BY <2>5 DEF Frees, HeldAfterRelease
  <2>7. hold <= held /\ hold \in Nat
    BY <1>0, <2>4, HeldBounds
  <2>8. -owed + hold >= 0
    BY <2>2, <2>4 DEF NoOverrun
  <2> HIDE DEF hold
  <2>9. owed <= hold /\ owed <= balance
    BY <1>0, <2>3, <2>7, <2>8
  <2>10. covered = owed
    BY <2>9 DEF AtMost
  <2>11. held' <= balance'
    BY <1>0, <2>3, <2>4, <2>6, <2>7, <2>9, <2>10 DEF AtLeast
  <2>12. Posted' \subseteq Posted \cup {IntentKey(i)}
    BY <2>2, <2>10
  <2>13. \A j \in Ids : IntentWriteOff(j) \notin Posted'
    BY <2>3, <2>12, KeysDiffer
  <2> QED
    BY <2>11, <2>13
<1>5. ASSUME NEW q \in Rows, NEW owed \in Nat, SettlesRequest(q, owed) \/ Reconciles(q, owed)
      PROVE  held' <= balance' /\ \A j \in Ids : IntentWriteOff(j) \notin Posted'
  <2> DEFINE covered == AtMost(owed, balance)
  <2>1. Posts(RequestKey(q), RequestWriteOff(q), owed, covered, q)
    BY <1>0, <1>5, KindsPost
  <2>2. /\ \A k \in Posted : k \in Posted' /\ ledger'[k] = ledger[k]
        /\ RequestKey(q) \in Posted'
        /\ ledger'[RequestKey(q)].amount = -owed
        /\ Posted' \subseteq Posted \cup {RequestKey(q), RequestWriteOff(q)}
    BY <2>1 DEF Posts
  <2>3. held <= balance /\ \A j \in Ids : IntentWriteOff(j) \notin Posted
    BY <1>2, <2>2
  <2>4. held' = held /\ balance' = balance - covered
    BY <1>5 DEF SettlesRequest, Reconciles, Posting
  <2>5. -owed = 0
    BY <2>2 DEF NoOverrun
  <2>6. covered = 0
    BY <1>0, <2>5 DEF AtMost
  <2>7. \A j \in Ids : IntentWriteOff(j) \notin Posted'
    BY <2>2, <2>3, KeysDiffer
  <2> QED
    BY <1>0, <2>3, <2>4, <2>6, <2>7
<1>6. ASSUME NEW d \in Deposits, NEW amount \in Nat, NEW recovered \in Nat,
             recovered <= amount, Refunds(d, amount, recovered)
      PROVE  held' <= balance' /\ \A j \in Ids : IntentWriteOff(j) \notin Posted'
  <2>1. Posts(ReversalKey(d), UnrecoveredKey(d), amount, recovered, None)
    BY <1>0, <1>6, KindsPost
  <2>2. /\ \A k \in Posted : k \in Posted' /\ ledger'[k] = ledger[k]
        /\ Posted' \subseteq Posted \cup {ReversalKey(d), UnrecoveredKey(d)}
    BY <2>1 DEF Posts
  <2>3. held <= balance /\ \A j \in Ids : IntentWriteOff(j) \notin Posted
    BY <1>2, <2>2
  <2>4. /\ held' = held /\ balance' = balance - recovered
        /\ recovered > 0 => held <= balance - recovered
    BY <1>6 DEF Refunds, Posting
  <2>5. \A j \in Ids : IntentWriteOff(j) \notin Posted'
    BY <2>2, <2>3, KeysDiffer
  <2> QED
    BY <1>0, <2>3, <2>4, <2>5
<1>7. ASSUME NEW d \in Deposits, NEW amount \in Amounts, Deposit(d, amount)
      PROVE  held' <= balance' /\ \A j \in Ids : IntentWriteOff(j) \notin Posted'
  <2>0. amount \in Nat
    BY Configured
  <2>1. /\ Posted' = Posted \cup {DepositKey(d)}
        /\ \A x \in Posted : ledger'[x] = ledger[x]
    BY <1>0, <1>7, <2>0, DepositKeeps DEF LedgerInv
  <2>2. held <= balance /\ \A j \in Ids : IntentWriteOff(j) \notin Posted
    BY <1>2, <2>1
  <2>3. held' = held /\ balance' = balance + amount
    BY <1>7 DEF Deposit
  <2>4. \A j \in Ids : IntentWriteOff(j) \notin Posted'
    BY <2>1, <2>2, KeysDiffer
  <2> QED
    BY <1>0, <2>0, <2>2, <2>3, <2>4
<1> QED
  BY <1>0, <1>3, <1>4, <1>5, <1>6, <1>7 DEF LedgerStep

\* The point of the hold: while no charge overruns its estimate, concurrent
\* calls and refunds never reserve or spend the same credit twice, so every
\* hold is covered and no intent's charge is written off.
THEOREM HoldsAreCovered ==
  ASSUME HandlesSafe
  PROVE  Spec => []HoldsCovered
<1>1. Init => CoverInv
  <2> SUFFICES ASSUME Init PROVE HoldsCovered
    BY InitHoldInv DEF CoverInv
  <2>1. held = 0 /\ balance = 0 /\ Posted = {}
    BY DEF Init, Posted
  <2> QED
    BY <2>1 DEF HoldsCovered
<1>2. CoverInv /\ [Next]_vars => CoverInv'
  <2> SUFFICES ASSUME CoverInv, [Next]_vars PROVE CoverInv'
    OBVIOUS
  <2>1. HoldInv'
    BY StepHoldInv DEF CoverInv
  <2>2. CASE Next
    BY <2>1, <2>2, StepCover DEF CoverInv
  <2>3. CASE UNCHANGED vars
    BY <2>1, <2>3 DEF vars, CoverInv, HoldsCovered, NoOverrun, Posted
  <2> QED
    BY <2>2, <2>3
<1>3. CoverInv => HoldsCovered
  BY DEF CoverInv
<1> QED
  BY <1>1, <1>2, <1>3, PTL DEF Spec

-----------------------------------------------------------------------------
(* The account that Settlement promises *)

\* The sums of the account are sums of the model, and its arithmetic too.
LEMMA AccountArithmetic ==
  /\ \A S, f : Account!Total(S, f) = Total(S, f)
  /\ \A a, b : /\ Account!AtLeast(a, b) = AtLeast(a, b)
               /\ Account!AtMost(a, b) = AtMost(a, b)
  BY DEF Account!Total, Total, Account!Units, Units, Account!Cardinality, Cardinality,
         Account!IsFiniteSet, IsFiniteSet, Account!AtLeast, AtLeast, Account!AtMost, AtMost

\* What an owner may still spend or be refunded is what is not held.
LEMMA AvailableIsSpendable ==
  ASSUME Backed
  PROVE  Account!Available = AtLeast(balance - held, 0)
<1>1. held = Total(HeldIds, Holds)
  BY DEF Backed, HoldsBacked
<1>2. DOMAIN Reserved = HeldIds /\ \A i \in HeldIds : Reserved[i] = Holds[i]
  BY DEF Reserved, Holds, HeldIds
<1>3. Total(HeldIds, Reserved) = Total(HeldIds, Holds)
  BY <1>2, TotalSame
<1> QED
  BY <1>1, <1>2, <1>3, AccountArithmetic DEF Account!Available

\* What the three kinds of hold steps do to the reservations of the account.
LEMMA ReservationSteps ==
  ASSUME TablesTyped
  PROVE  /\ \A i \in Ids, h \in Nat : Takes(i, h) =>
              Account!Extends(Reserved, Reserved', i) /\ Reserved'[i] = h
         /\ \A i \in Ids : Frees(i) => Account!Free(i)
         /\ KeepsHolds => Reserved' = Reserved
         /\ UNCHANGED intent => Reserved' = Reserved
<1>0. /\ DOMAIN Reserved = HeldIds /\ DOMAIN Reserved' = HeldIds'
      /\ \A i \in HeldIds : Reserved[i] = intent[i].hold
      /\ \A i \in HeldIds' : Reserved'[i] = intent'[i].hold
      /\ Reserved' = [i \in HeldIds' |-> intent'[i].hold]
      /\ HeldIds = {i \in Ids : intent[i].state = "held"}
      /\ HeldIds' = {i \in Ids : intent'[i].state = "held"}
  BY DEF Reserved, HeldIds
<1>1. ASSUME NEW i \in Ids, NEW h \in Nat, Takes(i, h)
      PROVE  Account!Extends(Reserved, Reserved', i) /\ Reserved'[i] = h
  <2>1. HeldIds' = HeldIds \cup {i} /\ i \notin HeldIds
    BY <1>0, <1>1 DEF Takes
  <2>2. Reserved'[i] = h /\ \A j \in HeldIds : Reserved'[j] = Reserved[j]
    BY <1>0, <1>1, <2>1 DEF Takes
  <2> QED
    BY <1>0, <2>1, <2>2 DEF Account!Extends
<1>2. ASSUME NEW i \in Ids, Frees(i) PROVE Account!Free(i)
  <2>1. HeldIds' = HeldIds \ {i} /\ i \in HeldIds
    BY <1>0, <1>2 DEF Frees
  <2>2. \A j \in HeldIds' : intent'[j].hold = Reserved[j]
    BY <1>0, <1>2, <2>1 DEF Frees
  <2>3. Reserved' = [j \in HeldIds \ {i} |-> Reserved[j]]
    BY <1>0, <2>1, <2>2
  <2> QED
    BY <1>0, <2>1, <2>3 DEF Account!Free
<1>3. ASSUME KeepsHolds PROVE Reserved' = Reserved
  <2>1. HeldIds' = HeldIds
    BY <1>0, <1>3 DEF KeepsHolds
  <2>2. \A j \in HeldIds : intent'[j].hold = intent[j].hold
    BY <1>0, <1>3 DEF KeepsHolds
  <2> QED
    BY <2>1, <2>2 DEF Reserved
<1>4. UNCHANGED intent => Reserved' = Reserved
  BY DEF Reserved, HeldIds
<1> QED
  BY <1>1, <1>2, <1>3, <1>4

\* The rows already posted stay, and only keys of K are new.
PostsOnly(K) ==
  /\ Posted \subseteq Posted' /\ Posted' \subseteq Posted \cup K
  /\ \A x \in Posted : ledger'[x] = ledger[x]

\* Keys that are not of a kind the account looks at change nothing in it.
LEMMA ViewStays ==
  ASSUME NEW K, PostsOnly(K)
  PROVE  /\ (\A i \in Ids : IntentKey(i) \notin K) => Closed' = Closed
         /\ (\A d \in Deposits : DepositKey(d) \notin K) => Paid' = Paid
         /\ (\A d \in Deposits : ReversalKey(d) \notin K) => Refunded' = Refunded
         /\ (/\ \A i \in Ids : IntentKey(i) \notin K
             /\ \A q \in Rows : RequestKey(q) \notin K) => Bill' = Bill
<1>1. ASSUME \A i \in Ids : IntentKey(i) \notin K PROVE Closed' = Closed
  BY <1>1 DEF PostsOnly, Closed
<1>2. ASSUME \A d \in Deposits : DepositKey(d) \notin K PROVE Paid' = Paid
  <2> DEFINE D == {d \in Deposits : DepositKey(d) \in Posted}
  <2>1. D' = D
    BY <1>2 DEF PostsOnly
  <2>2. \A d \in D : ledger'[DepositKey(d)] = ledger[DepositKey(d)]
    BY DEF PostsOnly
  <2>3. Paid = [d \in D |-> ledger[DepositKey(d)].amount]
    BY DEF Paid
  <2>4. Paid' = [d \in D' |-> ledger'[DepositKey(d)].amount]
    BY DEF Paid
  <2> HIDE DEF D
  <2> QED
    BY <2>1, <2>2, <2>3, <2>4
<1>3. ASSUME \A d \in Deposits : ReversalKey(d) \notin K PROVE Refunded' = Refunded
  BY <1>3 DEF PostsOnly, Refunded
<1>4. ASSUME \A i \in Ids : IntentKey(i) \notin K, \A q \in Rows : RequestKey(q) \notin K
      PROVE  Bill' = Bill
  <2>1. ASSUME NEW q \in Rows PROVE ChargesOf(q)' = ChargesOf(q)
    BY <1>4 DEF PostsOnly, ChargesOf
  <2>2. ASSUME NEW q \in Rows, ChargesOf(q) # {} PROVE BillOf(q)' = BillOf(q)
    <3>1. BillOf(q) = 0 - ledger[CHOOSE k \in ChargesOf(q) : TRUE].amount
      BY DEF BillOf
    <3>2. BillOf(q)' = 0 - ledger'[CHOOSE k \in ChargesOf(q)' : TRUE].amount
      BY DEF BillOf
    <3>3. BillOf(q)' = 0 - ledger'[CHOOSE k \in ChargesOf(q) : TRUE].amount
      BY <2>1, <3>2
    <3>4. (CHOOSE k \in ChargesOf(q) : TRUE) \in Posted
      BY <2>2 DEF ChargesOf
    <3> QED
      BY <3>1, <3>3, <3>4 DEF PostsOnly
  <2> DEFINE R == {q \in Rows : ChargesOf(q) # {}}
  <2>3. R' = R
    BY <2>1
  <2>4. Bill = [q \in R |-> BillOf(q)] /\ Bill' = [q \in R' |-> BillOf(q)']
    BY DEF Bill
  <2>5. \A q \in R : BillOf(q)' = BillOf(q)
    BY <2>2
  <2> HIDE DEF R
  <2> QED
    BY <2>3, <2>4, <2>5
<1> QED
  BY <1>1, <1>2, <1>3, <1>4

\* Any charge of a request shows what it is billed.
LEMMA BillIsCharge ==
  ASSUME ChargedOnce, NEW q \in Rows, NEW k \in ChargesOf(q)
  PROVE  BillOf(q) = 0 - ledger[k].amount
<1>1. (CHOOSE x \in ChargesOf(q) : TRUE) \in ChargesOf(q)
  OBVIOUS
<1>2. (CHOOSE x \in ChargesOf(q) : TRUE) = k
  BY <1>1 DEF ChargedOnce
<1> QED
  BY <1>2 DEF BillOf

\* The first charge of a request is its bill; all other bills are as before.
LEMMA BillGrows ==
  ASSUME ChargedOnce, ChargedOnce', NEW q \in Rows, ChargesOf(q) = {},
         NEW k, NEW w, NEW amount \in Nat, NEW covered,
         k \in {RequestKey(q)} \cup {IntentKey(i) : i \in Ids},
         w \notin {RequestKey(r) : r \in Rows} \cup {IntentKey(i) : i \in Ids},
         Posts(k, w, amount, covered, q)
  PROVE  Account!Extends(Bill, Bill', q) /\ Bill'[q] = amount
<1>1. /\ Posted' \subseteq Posted \cup {k, w} /\ k \in Posted'
      /\ Posted \subseteq Posted'
      /\ \A x \in Posted : ledger'[x] = ledger[x]
      /\ ledger'[k].amount = -amount /\ ledger'[k].request = q
  BY DEF Posts
<1>2. k \in ChargesOf(q)'
  BY <1>1 DEF ChargesOf
<1>3. k \notin Posted
  BY <1>1 DEF ChargesOf
<1>4. ASSUME NEW r \in Rows \ {q} PROVE ChargesOf(r)' = ChargesOf(r)
  <2>1. ASSUME NEW x \in ChargesOf(r)' PROVE x \in ChargesOf(r)
    <3>1. /\ x \in Posted' /\ ledger'[x].request = r
          /\ x \in {RequestKey(r)} \cup {IntentKey(i) : i \in Ids}
      BY <2>1 DEF ChargesOf
    <3>2. x # k /\ x # w
      BY <1>1, <3>1
    <3> QED
      BY <1>1, <3>1, <3>2 DEF ChargesOf
  <2>2. ASSUME NEW x \in ChargesOf(r) PROVE x \in ChargesOf(r)'
    BY <1>1, <2>2 DEF ChargesOf
  <2> QED
    BY <2>1, <2>2
<1>5. ASSUME NEW r \in Rows \ {q}, NEW x \in ChargesOf(r) PROVE BillOf(r)' = BillOf(r)
  <2>1. BillOf(r) = 0 - ledger[x].amount
    BY BillIsCharge
  <2>2. BillOf(r)' = 0 - ledger'[x].amount
    <3>1. x \in ChargesOf(r)'
      BY <1>4, <1>5
    <3>2. (CHOOSE y \in ChargesOf(r)' : TRUE) \in ChargesOf(r)'
      BY <3>1
    <3>3. (CHOOSE y \in ChargesOf(r)' : TRUE) = x
      BY <3>1, <3>2 DEF ChargedOnce
    <3> QED
      BY <3>3 DEF BillOf
  <2> QED
    BY <1>1, <1>5, <2>1, <2>2 DEF ChargesOf
<1>6. BillOf(q)' = amount
  <2>1. (CHOOSE y \in ChargesOf(q)' : TRUE) \in ChargesOf(q)'
    BY <1>2
  <2>2. (CHOOSE y \in ChargesOf(q)' : TRUE) = k
    BY <1>2, <2>1 DEF ChargedOnce
  <2>3. BillOf(q)' = 0 - ledger'[k].amount
    BY <2>2 DEF BillOf
  <2> QED
    BY <1>1, <2>3
<1> DEFINE R == {r \in Rows : ChargesOf(r) # {}}
<1>7. R' = R \cup {q} /\ q \notin R
  BY <1>2, <1>4
<1>8. Bill = [r \in R |-> BillOf(r)] /\ Bill' = [r \in R' |-> BillOf(r)']
  BY DEF Bill
<1>9. \A r \in R : BillOf(r)' = BillOf(r)
  BY <1>5
<1> HIDE DEF R
<1> QED
  BY <1>6, <1>7, <1>8, <1>9 DEF Account!Extends

\* A charge of a request whose row is new, or is on the reconciler's list, is
\* a bill in the account.
LEMMA ChargeIsBill ==
  ASSUME IInv, ChargesKnown, ChargedOnce, ChargedOnce',
         NEW q \in Rows,
         \/ request[q].age = "none"
         \/ q \in job.orphans /\ RequestKey(q) \notin Posted,
         NEW k, NEW w, NEW amount \in Nat,
         k \in {RequestKey(q)} \cup {IntentKey(i) : i \in Ids},
         w \notin {RequestKey(r) : r \in Rows} \cup {IntentKey(i) : i \in Ids},
         Posts(k, w, amount, AtMost(amount, balance), q),
         balance' = balance - AtMost(amount, balance)
  PROVE  Account!Charge(q)
<1>1. ChargesOf(q) = {}
  BY DEF ChargesOf, ChargesKnown
<1>2. Account!Extends(Bill, Bill', q) /\ Bill'[q] = amount
  BY <1>1, BillGrows
<1>3. balance \in Nat
  BY DEF IInv, LedgerInv, LedgerTyped
<1>4. balance - AtMost(amount, balance) = AtLeast(balance - amount, 0)
  BY <1>3 DEF AtMost, AtLeast
<1> QED
  BY <1>2, <1>4, AccountArithmetic DEF Account!Charge

\* What HandlesAgree, Backed and the charges need of a state to map its steps.
AccountInv == HoldInv /\ ChargesKnown /\ ChargedOnce

LEMMA StepAccountInv == AccountInv /\ [Next]_vars => AccountInv'
<1> SUFFICES ASSUME AccountInv, [Next]_vars PROVE AccountInv'
  OBVIOUS
<1>1. HoldInv'
  BY StepHoldInv DEF AccountInv
<1>2. CASE Next
  BY <1>1, <1>2, StepCharges DEF AccountInv, HoldInv
<1>3. CASE UNCHANGED vars
  BY <1>1, <1>3 DEF vars, AccountInv, ChargesKnown, ChargedOnce, ChargesOf, Posted
<1> QED
  BY <1>2, <1>3

\* One step of a posting is as much of the ledger as the account needs.
LEMMA PostsOnlyKeys ==
  ASSUME NEW k, NEW w, NEW amount, NEW covered, NEW q, Posts(k, w, amount, covered, q)
  PROVE  PostsOnly({k, w})
  BY DEF Posts, PostsOnly

\* Every step of the model is one step of the account or none.
LEMMA StepAccount ==
  ASSUME AccountInv, Next
  PROVE  Account!Next \/ UNCHANGED Account!vars
<1>0. /\ IInv /\ LedgerInv /\ TablesTyped /\ Backed /\ ChargesKnown /\ ChargedOnce
      /\ ChargedOnce'
      /\ HoldStep /\ LedgerStep
      /\ held \in Nat /\ balance \in Nat
      /\ intent \in [Ids -> IntentRecords]
  BY LedgerSteps, HandlesHold, HoldSteps, StepAccountInv
     DEF AccountInv, HoldInv, IInv, LedgerInv, LedgerTyped, TablesTyped
<1>1. CASE UNCHANGED <<balance, ledger>>
  <2>1. UNCHANGED <<balance, Closed, Bill, Paid, Refunded>>
    BY <1>1 DEF Closed, Bill, BillOf, ChargesOf, Paid, Refunded, Posted
  <2>2. ASSUME NEW i \in Ids, NEW h \in Nat, Takes(i, h)
        PROVE  Account!Reserve(i)
    <3>1. Account!Extends(Reserved, Reserved', i) /\ Reserved'[i] = h
      BY <1>0, <2>2, ReservationSteps
    <3>2. i \notin Closed
      BY <1>0, <2>2 DEF Takes, Closed, IInv, CompletedIsCharged
    <3>3. h \in 0 .. AtLeast(balance - held, 0)
      BY <1>0, <2>2 DEF Takes, CanReserve, AtLeast
    <3>4. h \in 0 .. Account!Available
      BY <1>0, <3>3, AvailableIsSpendable
    <3> QED
      BY <2>1, <3>1, <3>2, <3>4 DEF Account!Reserve
  <2>3. ASSUME NEW i \in Ids, Frees(i) PROVE Account!Return(i)
    BY <1>0, <2>1, <2>3, ReservationSteps DEF Account!Return
  <2>4. KeepsHolds => UNCHANGED Account!vars
    BY <1>0, <2>1, ReservationSteps DEF Account!vars
  <2> QED
    BY <1>0, <2>2, <2>3, <2>4 DEF HoldStep, Account!Next
<1>2. ASSUME NEW i \in Ids, NEW q \in Rows, NEW owed \in Nat, SettlesIntent(i, q, owed)
      PROVE  Account!Settle(i, q)
  <2>1. Posts(IntentKey(i), IntentWriteOff(i), owed, AtMost(owed, balance), q)
    BY <1>0, <1>2, KindsPost
  <2>2. /\ IntentKey(i) \in {RequestKey(q)} \cup {IntentKey(j) : j \in Ids}
        /\ IntentWriteOff(i) \notin {RequestKey(r) : r \in Rows} \cup {IntentKey(j) : j \in Ids}
        /\ \A d \in Deposits : /\ DepositKey(d) \notin {IntentKey(i), IntentWriteOff(i)}
                              /\ ReversalKey(d) \notin {IntentKey(i), IntentWriteOff(i)}
    BY KeysDiffer
  <2>3. request[q].age = "none" /\ balance' = balance - AtMost(owed, balance)
    BY <1>2 DEF SettlesIntent, Posting
  <2>4. Account!Charge(q)
    BY <1>0, <2>1, <2>2, <2>3, ChargeIsBill
  <2>5. Paid' = Paid /\ Refunded' = Refunded
    BY <2>1, <2>2, PostsOnlyKeys, ViewStays
  <2>6. Closed' = Closed \cup {i}
    <3>1. \A j \in Ids : IntentKey(j) \in Posted' <=> (IntentKey(j) \in Posted \/ j = i)
      BY <2>1, KeysDiffer DEF Posts
    <3> QED
      BY <3>1 DEF Closed
  <2>7. /\ intent[i].state = "held" /\ intent'[i].state = "completed"
    BY <1>0, <1>2 DEF SettlesIntent, IntentRecords
  <2>8. Frees(i)
    BY <1>0, <1>2, <2>7 DEF HoldStep, Takes, Frees, KeepsHolds, SettlesIntent, IntentRecords
  <2>9. Account!Free(i)
    BY <1>0, <2>8, ReservationSteps
  <2> QED
    BY <2>4, <2>5, <2>6, <2>9 DEF Account!Settle
<1>3. ASSUME NEW q \in Rows, NEW owed \in Nat, SettlesRequest(q, owed) \/ Reconciles(q, owed)
      PROVE  Account!BillDirectly(q)
  <2>1. Posts(RequestKey(q), RequestWriteOff(q), owed, AtMost(owed, balance), q)
    BY <1>0, <1>3, KindsPost
  <2>2. /\ RequestWriteOff(q) \notin {RequestKey(r) : r \in Rows} \cup {IntentKey(j) : j \in Ids}
        /\ \A d \in Deposits : /\ DepositKey(d) \notin {RequestKey(q), RequestWriteOff(q)}
                              /\ ReversalKey(d) \notin {RequestKey(q), RequestWriteOff(q)}
        /\ \A i \in Ids : IntentKey(i) \notin {RequestKey(q), RequestWriteOff(q)}
    BY KeysDiffer
  <2>3. /\ request[q].age = "none" \/ (q \in job.orphans /\ RequestKey(q) \notin Posted)
        /\ balance' = balance - AtMost(owed, balance)
        /\ UNCHANGED intent
    BY <1>3 DEF SettlesRequest, Reconciles, Posting
  <2>4. Account!Charge(q)
    BY <1>0, <2>1, <2>2, <2>3, ChargeIsBill
  <2>5. Paid' = Paid /\ Refunded' = Refunded /\ Closed' = Closed
    BY <2>1, <2>2, PostsOnlyKeys, ViewStays
  <2>6. Reserved' = Reserved
    BY <1>0, <2>3, ReservationSteps
  <2> QED
    BY <2>4, <2>5, <2>6 DEF Account!BillDirectly
<1>4. ASSUME NEW d \in Deposits, NEW amount \in Nat, NEW recovered \in Nat,
             recovered <= amount, Refunds(d, amount, recovered)
      PROVE  Account!Refund(d)
  <2>1. Posts(ReversalKey(d), UnrecoveredKey(d), amount, recovered, None)
    BY <1>0, <1>4, KindsPost
  <2>2. /\ \A e \in Deposits : DepositKey(e) \notin {ReversalKey(d), UnrecoveredKey(d)}
        /\ \A i \in Ids : IntentKey(i) \notin {ReversalKey(d), UnrecoveredKey(d)}
        /\ \A q \in Rows : RequestKey(q) \notin {ReversalKey(d), UnrecoveredKey(d)}
    BY KeysDiffer
  <2>3. Paid' = Paid /\ Closed' = Closed /\ Bill' = Bill
    BY <2>1, <2>2, PostsOnlyKeys, ViewStays
  <2>4. Refunded' = Refunded \cup {d}
    <3>1. \A e \in Deposits : ReversalKey(e) \in Posted' <=> (ReversalKey(e) \in Posted \/ e = d)
      BY <2>1, KeysDiffer DEF Posts
    <3> QED
      BY <3>1 DEF Refunded
  <2>5. d \in DOMAIN Paid \ Refunded /\ Paid[d] = amount
    BY <1>4 DEF Refunds, Paid, Refunded
  <2>6. balance' = balance - AtMost(amount, AtLeast(balance - held, 0))
    BY <1>4 DEF Refunds, Posting
  <2>7. balance' = balance - Account!AtMost(Paid[d], Account!Available)
    BY <1>0, <2>5, <2>6, AvailableIsSpendable, AccountArithmetic
  <2>8. Reserved' = Reserved
    BY <1>0, <1>4, ReservationSteps DEF Refunds
  <2> QED
    BY <2>3, <2>4, <2>5, <2>7, <2>8 DEF Account!Refund
<1>5. ASSUME NEW d \in Deposits, NEW amount \in Amounts, Deposit(d, amount)
      PROVE  Account!Pay(d)
  <2>0. amount \in Nat
    BY Configured
  <2>1. /\ Posted' = Posted \cup {DepositKey(d)}
        /\ ledger'[DepositKey(d)] = [amount |-> amount, request |-> None]
        /\ \A x \in Posted : ledger'[x] = ledger[x]
    BY <1>0, <1>5, <2>0, DepositKeeps DEF LedgerInv
  <2>2. /\ \A i \in Ids : IntentKey(i) \notin {DepositKey(d)}
        /\ \A q \in Rows : RequestKey(q) \notin {DepositKey(d)}
        /\ \A e \in Deposits : ReversalKey(e) \notin {DepositKey(d)}
    BY KeysDiffer
  <2>3. PostsOnly({DepositKey(d)})
    BY <2>1 DEF PostsOnly
  <2>4. Closed' = Closed /\ Bill' = Bill /\ Refunded' = Refunded
    BY <2>2, <2>3, ViewStays
  <2>5. Account!Extends(Paid, Paid', d) /\ Paid'[d] = amount
    <3>1. DepositKey(d) \notin Posted
      BY <1>5 DEF Deposit
    <3>2. \A e \in Deposits : DepositKey(e) \in Posted' <=> (DepositKey(e) \in Posted \/ e = d)
      BY <2>1, KeysDiffer
    <3>3. /\ DOMAIN Paid = {e \in Deposits : DepositKey(e) \in Posted}
          /\ DOMAIN Paid' = {e \in Deposits : DepositKey(e) \in Posted'}
          /\ \A e \in DOMAIN Paid : Paid[e] = ledger[DepositKey(e)].amount
          /\ \A e \in DOMAIN Paid' : Paid'[e] = ledger'[DepositKey(e)].amount
      BY DEF Paid
    <3> QED
      BY <2>1, <3>1, <3>2, <3>3 DEF Account!Extends
  <2>6. balance' = balance + amount /\ UNCHANGED intent
    BY <1>5 DEF Deposit
  <2>7. Reserved' = Reserved
    BY <1>0, <2>6, ReservationSteps
  <2> QED
    BY <2>0, <2>4, <2>5, <2>6, <2>7 DEF Account!Pay
<1> QED
  BY <1>0, <1>1, <1>2, <1>3, <1>4, <1>5 DEF LedgerStep, Account!Next

\* Every step of a call, of the maintenance job or of the funds is one step of
\* the account Settlement promises, or does not show in it.
THEOREM SettlementImplemented ==
  ASSUME HandlesSafe
  PROVE  Spec => ImplementsSettlement
<1>1. Init => AccountInv
  <2> SUFFICES ASSUME Init PROVE ChargesKnown /\ ChargedOnce
    BY InitHoldInv DEF AccountInv
  <2>1. Posted = {} /\ job.orphans = {}
    BY DEF Init, Posted, NoJob
  <2> QED
    BY <2>1 DEF ChargesKnown, ChargedOnce, ChargesOf
<1>2. Init => Account!Init
  <2> SUFFICES ASSUME Init PROVE Account!Init
    OBVIOUS
  <2>1. Posted = {} /\ HeldIds = {} /\ balance = 0
    BY DEF Init, Posted, HeldIds, NoIntent
  <2>2. \A q \in Rows : ChargesOf(q) = {}
    BY <2>1 DEF ChargesOf
  <2> QED
    BY <2>1, <2>2 DEF Account!Init, Reserved, Bill, Paid, Closed, Refunded
<1>3. AccountInv /\ [Next]_vars => AccountInv'
  BY StepAccountInv
<1>4. AccountInv /\ [Next]_vars => [Account!Next]_Account!vars
  <2> SUFFICES ASSUME AccountInv, [Next]_vars PROVE [Account!Next]_Account!vars
    OBVIOUS
  <2>1. CASE Next
    BY <2>1, StepAccount
  <2>2. CASE UNCHANGED vars
    BY <2>2 DEF vars, Account!vars, Reserved, HeldIds, Closed, Bill, BillOf, ChargesOf,
                Paid, Refunded, Posted
  <2> QED
    BY <2>1, <2>2
<1> QED
  BY <1>1, <1>2, <1>3, <1>4, PTL DEF Spec, ImplementsSettlement, Account!Spec

-----------------------------------------------------------------------------
(* Refunds of one deposit, with the transaction of reverse() split where     *)
(* Read Committed lets others in (Reversal), for any number of reverse()     *)
(* calls, keys and amounts. The books balance and holds survive however the  *)
(* calls interleave; the total stays within the deposit when no two calls    *)
(* overlap, which is the condition the code does not enforce.                *)

-----------------------------------------------------------------------------
(* The invariant of the refunds.                                             *)

\* The part of the invariant that only concerns shapes: finitely many rows,
\* none of which wrote off more than it reversed, and a transaction past its
\* check has a key and an amount.
RefundShape ==
  /\ ReversalTypeOK
  /\ IsFiniteSet(PostedRefunds)
  /\ \A k \in PostedRefunds : reversals[k].unrecovered <= reversals[k].amount
  /\ \A t \in Callers : txn[t].pc = "checked" => txn[t].key \in RefundKeys

\* Every row contributes its own two amounts to the two sums.
LEMMA RefundRowsTyped ==
  ASSUME RefundShape
  PROVE  /\ \A k \in PostedRefunds : /\ Reversed(reversals)[k] \in Int
                                     /\ Unrecovered(reversals)[k] \in Int
         /\ TotalReversed \in Nat
         /\ TotalUnrecovered \in Nat
<1>1. \A k \in PostedRefunds : /\ Reversed(reversals)[k] \in Int
                               /\ Unrecovered(reversals)[k] \in Int
  BY DEF RefundShape, ReversalTypeOK, PostedRefunds, Reversed, Unrecovered
<1> QED
  BY <1>1, TotalType DEF RefundShape, TotalReversed, TotalUnrecovered

\* What a refund recovers fits both the refund and the spendable balance.
LEMMA RecoveredBounds ==
  ASSUME RefundShape, NEW amount \in Nat
  PROVE  LET recovered == AtMost(amount, Spendable)
         IN  /\ recovered \in Nat
             /\ recovered <= amount
             /\ recovered <= balance_usd
             /\ recovered > 0 => balance_usd - recovered >= held_usd
  BY DEF RefundShape, ReversalTypeOK, AtMost, Spendable, AtLeast

\* apply() posts one row: both sums grow by that row's amounts.
LEMMA ApplyPosts ==
  ASSUME RefundShape, NEW t \in Callers, Apply(t)
  PROVE  LET amount == txn[t].amount
             recovered == AtMost(amount, Spendable)
         IN  /\ PostedRefunds' = PostedRefunds \cup {txn[t].key}
             /\ IsFiniteSet(PostedRefunds')
             /\ reversals' \in [PostedRefunds' -> [amount : Nat, unrecovered : Nat]]
             /\ \A k \in PostedRefunds' : reversals'[k].unrecovered <= reversals'[k].amount
             /\ TotalReversed' = TotalReversed + amount
             /\ TotalUnrecovered' = TotalUnrecovered + (amount - recovered)
<1> DEFINE k == txn[t].key
           amount == txn[t].amount
           recovered == AtMost(amount, Spendable)
<1>1. amount \in Nat /\ k \in RefundKeys /\ k \notin PostedRefunds
  BY DEF RefundShape, ReversalTypeOK, Apply
<1>2. recovered \in Nat /\ recovered <= amount
  BY <1>1, RecoveredBounds
<1>3. reversals' = [x \in PostedRefunds \cup {k} |->
                      IF x = k THEN [amount |-> amount,
                                     unrecovered |-> amount - recovered]
                      ELSE reversals[x]]
  BY DEF Apply
<1>4. PostedRefunds' = PostedRefunds \cup {k}
  BY <1>3 DEF PostedRefunds
<1>5. IsFiniteSet(PostedRefunds')
  BY <1>4, FS_AddElement DEF RefundShape
<1>6. \A x \in PostedRefunds : reversals[x] \in [amount : Nat, unrecovered : Nat]
  BY DEF RefundShape, ReversalTypeOK
<1>7. reversals' \in [PostedRefunds' -> [amount : Nat, unrecovered : Nat]]
  BY <1>1, <1>2, <1>3, <1>4, <1>6
<1>8. \A x \in PostedRefunds' : reversals'[x].unrecovered <= reversals'[x].amount
  BY <1>1, <1>2, <1>3, <1>4, <1>6 DEF RefundShape
<1>9. /\ Reversed(reversals')[k] = amount
      /\ Unrecovered(reversals')[k] = amount - recovered
      /\ \A x \in PostedRefunds : /\ Reversed(reversals')[x] = Reversed(reversals)[x]
                                  /\ Unrecovered(reversals')[x] = Unrecovered(reversals)[x]
  BY <1>1, <1>3 DEF Reversed, Unrecovered, PostedRefunds
<1>10. IsFiniteSet(PostedRefunds)
  BY DEF RefundShape
<1>11. TotalReversed' = TotalReversed + AtLeast(amount, 0)
  <2> DEFINE f == Reversed(reversals)
             g == Reversed(reversals')
             e == k
  <2>1. /\ \A x \in PostedRefunds : f[x] \in Int
        /\ \A x \in PostedRefunds : g[x] = f[x]
        /\ g[e] \in Int
        /\ e \notin PostedRefunds
    BY <1>1, <1>9, RefundRowsTyped
  <2>2. g[e] = amount
    BY <1>9
  <2>3. PostedRefunds' = PostedRefunds \cup {e}
    BY <1>4
  <2>4. TotalReversed = Total(PostedRefunds, f) /\ TotalReversed' = Total(PostedRefunds', g)
    BY DEF TotalReversed
  <2> HIDE DEF f, g, e
  <2>5. Total(PostedRefunds \cup {e}, g) = Total(PostedRefunds, f) + AtLeast(g[e], 0)
    BY <2>1, <1>10, TotalAdd
  <2> QED
    BY <2>3, <2>4, <2>5, <2>2
<1>12. TotalUnrecovered' = TotalUnrecovered + AtLeast(amount - recovered, 0)
  <2> DEFINE f == Unrecovered(reversals)
             g == Unrecovered(reversals')
             e == k
  <2>1. /\ \A x \in PostedRefunds : f[x] \in Int
        /\ \A x \in PostedRefunds : g[x] = f[x]
        /\ g[e] \in Int
        /\ e \notin PostedRefunds
    BY <1>1, <1>2, <1>9, RefundRowsTyped
  <2>2. g[e] = amount - recovered
    BY <1>9
  <2>3. PostedRefunds' = PostedRefunds \cup {e}
    BY <1>4
  <2>4. TotalUnrecovered = Total(PostedRefunds, f) /\ TotalUnrecovered' = Total(PostedRefunds', g)
    BY DEF TotalUnrecovered
  <2> HIDE DEF f, g, e
  <2>5. Total(PostedRefunds \cup {e}, g) = Total(PostedRefunds, f) + AtLeast(g[e], 0)
    BY <2>1, <1>10, TotalAdd
  <2> QED
    BY <2>3, <2>4, <2>5, <2>2
<1>13. AtLeast(amount, 0) = amount /\ AtLeast(amount - recovered, 0) = amount - recovered
  BY <1>1, <1>2 DEF AtLeast
<1> QED
  BY <1>4, <1>5, <1>7, <1>8, <1>11, <1>12, <1>13

-----------------------------------------------------------------------------
(* The books of the refunds *)

RefundInv == RefundShape /\ ReversalBooks

\* At the deposit there are no rows.
LEMMA InitRefundInv == ReversalInit => RefundInv
<1> SUFFICES ASSUME ReversalInit PROVE RefundInv
  OBVIOUS
<1>1. PostedRefunds = {}
  BY DEF ReversalInit, PostedRefunds
<1>2. TotalReversed = 0 /\ TotalUnrecovered = 0
  BY <1>1, TotalEmpty DEF TotalReversed, TotalUnrecovered
<1>3. RefundShape
  BY <1>1, FS_EmptySet, ReversalAssumption
     DEF ReversalInit, RefundShape, ReversalTypeOK, Idle, ReversalAssumption
<1>4. ReversalBooks
  BY <1>2, ReversalAssumption DEF ReversalInit, ReversalBooks, ReversalAssumption
<1> QED
  BY <1>3, <1>4 DEF RefundInv

\* The rows, and what they add up to, are as they were.
LEMMA RefundRowsKept ==
  ASSUME UNCHANGED reversals
  PROVE  /\ PostedRefunds' = PostedRefunds
         /\ TotalReversed' = TotalReversed
         /\ TotalUnrecovered' = TotalUnrecovered
  BY DEF PostedRefunds, TotalReversed, TotalUnrecovered

\* One step of the account keeps the books.
LEMMA StepRefundInv ==
  ASSUME RefundInv, [ReversalNext]_reversalVars
  PROVE  RefundInv'
<1> USE DEF RefundInv
<1>1. ASSUME NEW t \in Callers, NEW k \in RefundKeys, NEW amount \in RefundAmounts,
             CheckHeadroom(t, k, amount)
      PROVE  RefundInv'
  <2>1. amount \in Nat
    BY ReversalAssumption DEF ReversalAssumption
  <2>2. UNCHANGED <<balance_usd, held_usd, spent, reversals>>
    BY <1>1 DEF CheckHeadroom
  <2>3. RefundShape'
    BY <1>1, <2>1, <2>2, RefundRowsKept DEF CheckHeadroom, RefundShape, ReversalTypeOK
  <2> QED
    BY <2>2, <2>3, RefundRowsKept DEF ReversalBooks
<1>2. ASSUME NEW t \in Callers, Apply(t) PROVE RefundInv'
  <2> DEFINE amount == txn[t].amount
             recovered == AtMost(amount, Spendable)
  <2>1. amount \in Nat /\ txn[t].key \in RefundKeys
    BY <1>2 DEF RefundShape, ReversalTypeOK, Apply
  <2>2. recovered \in Nat /\ recovered <= amount /\ recovered <= balance_usd
    BY <2>1, RecoveredBounds
  <2>3. /\ balance_usd' = balance_usd - recovered
        /\ UNCHANGED <<held_usd, spent>>
        /\ txn' = [txn EXCEPT ![t] = Idle]
    BY <1>2 DEF Apply
  <2>4. /\ PostedRefunds' = PostedRefunds \cup {txn[t].key}
        /\ IsFiniteSet(PostedRefunds')
        /\ reversals' \in [PostedRefunds' -> [amount : Nat, unrecovered : Nat]]
        /\ \A k \in PostedRefunds' : reversals'[k].unrecovered <= reversals'[k].amount
        /\ TotalReversed' = TotalReversed + amount
        /\ TotalUnrecovered' = TotalUnrecovered + (amount - recovered)
    BY <1>2, ApplyPosts
  <2>5. RefundShape'
    BY <2>1, <2>2, <2>3, <2>4 DEF RefundShape, ReversalTypeOK, Idle
  <2>6. balance_usd \in Nat /\ spent \in Nat /\ Original \in Nat
    BY ReversalAssumption DEF RefundShape, ReversalTypeOK, ReversalAssumption
  <2>7. ReversalBooks'
    BY <2>1, <2>2, <2>3, <2>4, <2>6, RefundRowsTyped DEF ReversalBooks
  <2> QED
    BY <2>5, <2>7
<1>3. ASSUME NEW t \in Callers, ReplayRejected(t) \/ ReturnRefusal(t) PROVE RefundInv'
  <2>1. /\ UNCHANGED <<balance_usd, held_usd, spent, reversals>>
        /\ txn' = [txn EXCEPT ![t] = Idle]
    BY <1>3 DEF ReplayRejected, ReturnRefusal
  <2>2. RefundShape'
    BY <2>1, RefundRowsKept DEF RefundShape, ReversalTypeOK, Idle
  <2> QED
    BY <2>1, <2>2, RefundRowsKept DEF ReversalBooks
<1>4. ASSUME NEW amount \in RefundAmounts, Hold(amount) PROVE RefundInv'
  <2>1. amount \in Nat
    BY ReversalAssumption DEF ReversalAssumption
  <2>2. UNCHANGED <<balance_usd, spent, reversals, txn>> /\ held_usd' = held_usd + amount
    BY <1>4 DEF Hold
  <2>3. RefundShape'
    BY <2>1, <2>2, RefundRowsKept DEF RefundShape, ReversalTypeOK
  <2> QED
    BY <2>2, <2>3, RefundRowsKept DEF ReversalBooks
<1>5. ASSUME NEW h \in RefundAmounts, NEW amount \in RefundAmounts \cup {0}, SettleHold(h, amount)
      PROVE  RefundInv'
  <2> DEFINE collectible == AtMost(amount, balance_usd)
  <2>1. amount \in Nat /\ h \in Nat
    BY ReversalAssumption DEF ReversalAssumption
  <2>2. /\ h <= held_usd
        /\ held_usd' = held_usd - h
        /\ balance_usd' = balance_usd - collectible
        /\ spent' = spent + collectible
        /\ UNCHANGED <<reversals, txn>>
    BY <1>5 DEF SettleHold
  <2>3. balance_usd \in Nat /\ held_usd \in Nat /\ spent \in Nat
    BY DEF RefundShape, ReversalTypeOK
  <2>4. collectible \in Nat /\ collectible <= balance_usd
    BY <2>1, <2>3 DEF AtMost
  <2>5. RefundShape'
    BY <2>1, <2>2, <2>3, <2>4, RefundRowsKept DEF RefundShape, ReversalTypeOK
  <2>6. ReversalBooks'
    BY <2>2, <2>3, <2>4, RefundRowsKept, RefundRowsTyped DEF ReversalBooks
  <2> QED
    BY <2>5, <2>6
<1>6. ASSUME UNCHANGED reversalVars PROVE RefundInv'
  BY <1>6, RefundRowsKept DEF reversalVars, RefundShape, ReversalTypeOK, ReversalBooks
<1> QED
  BY <1>1, <1>2, <1>3, <1>4, <1>5, <1>6 DEF ReversalNext

\* However refunds, charges and holds interleave on one account, the balance
\* is the deposit, less what was spent and reversed, plus what a reversal
\* could not recover and wrote off; and it never goes below zero.
THEOREM RefundsBalance == ReversalSpec => [](ReversalTypeOK /\ ReversalBooks)
<1>1. ReversalInit => RefundInv
  BY InitRefundInv
<1>2. RefundInv /\ [ReversalNext]_reversalVars => RefundInv'
  BY StepRefundInv
<1>3. RefundInv => ReversalTypeOK /\ ReversalBooks
  BY DEF RefundInv, RefundShape
<1> QED
  BY <1>1, <1>2, <1>3, PTL DEF ReversalSpec

\* recovery stops at balance_usd - held_usd: whatever the interleaving of
\* refunds with reservations, a refund that takes anything leaves at least
\* what requests in flight hold.
THEOREM RefundsSpareHolds == ReversalSpec => HoldsUntouched
<1> DEFINE Spared == balance_usd' # balance_usd /\ held_usd' = held_usd
                       => balance_usd' >= held_usd \/ balance_usd' >= balance_usd
<1>1. RefundInv /\ [ReversalNext]_reversalVars => [Spared]_reversalVars
  <2> SUFFICES ASSUME RefundInv, ReversalNext PROVE Spared
    OBVIOUS
  <2>1. balance_usd \in Nat /\ held_usd \in Nat /\ RefundShape
    BY DEF RefundInv, RefundShape, ReversalTypeOK
  <2>2. ASSUME NEW t \in Callers, NEW k \in RefundKeys, NEW amount \in RefundAmounts,
               CheckHeadroom(t, k, amount)
        PROVE  Spared
    BY <2>2 DEF CheckHeadroom
  <2>3. ASSUME NEW t \in Callers, Apply(t) PROVE Spared
    <3> DEFINE recovered == AtMost(txn[t].amount, Spendable)
    <3>1. txn[t].amount \in Nat
      BY DEF RefundInv, RefundShape, ReversalTypeOK
    <3>2. /\ recovered \in Nat
          /\ recovered > 0 => balance_usd - recovered >= held_usd
      BY <2>1, <3>1, RecoveredBounds
    <3>3. balance_usd' = balance_usd - recovered
      BY <2>3 DEF Apply
    <3> QED
      BY <2>1, <3>2, <3>3
  <2>4. ASSUME NEW t \in Callers, ReplayRejected(t) \/ ReturnRefusal(t) PROVE Spared
    BY <2>4 DEF ReplayRejected, ReturnRefusal
  <2>5. ASSUME NEW amount \in RefundAmounts, Hold(amount) PROVE Spared
    BY <2>5 DEF Hold
  <2>6. ASSUME NEW h \in RefundAmounts, NEW amount \in RefundAmounts \cup {0},
               SettleHold(h, amount)
        PROVE  Spared
    <3>1. h \in Nat \ {0}
      BY ReversalAssumption DEF ReversalAssumption
    <3>2. held_usd' = held_usd - h
      BY <2>6 DEF SettleHold
    <3> QED
      BY <2>1, <3>1, <3>2
  <2> QED
    BY <2>2, <2>3, <2>4, <2>5, <2>6 DEF ReversalNext
<1>2. ReversalInit => RefundInv
  BY InitRefundInv
<1>3. RefundInv /\ [ReversalNext]_reversalVars => RefundInv'
  BY StepRefundInv
<1> QED
  BY <1>1, <1>2, <1>3, PTL DEF ReversalSpec, HoldsUntouched

-----------------------------------------------------------------------------
(* The total, when calls do not overlap *)

\* No two reverse() calls are in progress at once.
Serial == \A s, t \in Callers : s = t

\* A transaction past its check still has the headroom it read.
HeadroomKept ==
  \A t \in Callers : txn[t].pc = "checked"
                      => txn[t].amount <= Original - AlreadyReversed

\* With one caller the check still holds when the rows are inserted.
LEMMA StepHeadroom ==
  ASSUME RefundInv, HeadroomKept, TotalWithinOriginal, Serial, [ReversalNext]_reversalVars
  PROVE  HeadroomKept' /\ TotalWithinOriginal'
<1> USE DEF HeadroomKept, TotalWithinOriginal
<1>1. RefundShape /\ Original \in Nat /\ TotalReversed \in Nat /\ TotalUnrecovered \in Nat
  BY RefundRowsTyped, ReversalAssumption DEF RefundInv, ReversalAssumption
<1>2. \A t \in Callers : txn[t].amount \in Nat
  BY <1>1 DEF RefundShape, ReversalTypeOK
<1>3. ASSUME NEW t \in Callers, NEW k \in RefundKeys, NEW amount \in RefundAmounts,
             CheckHeadroom(t, k, amount)
      PROVE  HeadroomKept' /\ TotalWithinOriginal'
  <2>1. amount \in Nat
    BY ReversalAssumption DEF ReversalAssumption
  <2>2. TotalReversed' = TotalReversed /\ AlreadyReversed' = AlreadyReversed
    BY <1>3, RefundRowsKept DEF CheckHeadroom, AlreadyReversed
  <2>3. AlreadyReversed \in Nat
    BY <1>1 DEF AlreadyReversed
  <2>4. txn' = [txn EXCEPT ![t] =
          [pc |-> IF amount > Original - AlreadyReversed THEN "refused" ELSE "checked",
           key |-> k, amount |-> amount]]
    BY <1>3 DEF CheckHeadroom
  <2>5. txn \in [Callers -> [pc : {"idle", "checked", "refused"},
                            key : RefundKeys \cup {"none"}, amount : Nat]]
    BY <1>1 DEF RefundShape, ReversalTypeOK
  <2>6. ASSUME NEW s \in Callers, txn'[s].pc = "checked"
        PROVE  txn'[s].amount <= Original - AlreadyReversed
    <3>1. CASE s = t
      BY <1>1, <2>1, <2>3, <2>4, <2>5, <2>6, <3>1
    <3>2. CASE s # t
      BY <2>4, <2>5, <2>6, <3>2
    <3> QED
      BY <3>1, <3>2
  <2> QED
    BY <2>2, <2>6
<1>4. ASSUME NEW t \in Callers, Apply(t)
      PROVE  HeadroomKept' /\ TotalWithinOriginal'
  <2> DEFINE recovered == AtMost(txn[t].amount, Spendable)
  <2>1. TotalReversed' = TotalReversed + txn[t].amount
    BY <1>1, <1>4, ApplyPosts
  <2>2. txn[t].pc = "checked" /\ txn' = [txn EXCEPT ![t] = Idle]
    BY <1>4 DEF Apply
  <2>3. txn[t].amount <= Original - (TotalReversed + TotalUnrecovered)
    BY <2>2 DEF AlreadyReversed
  <2>4. TotalWithinOriginal'
    BY <1>1, <1>2, <2>1, <2>3
  <2>5. \A s \in Callers : txn'[s].pc = "idle"
    BY <1>1, <2>2 DEF Serial, RefundShape, ReversalTypeOK, Idle
  <2> QED
    BY <2>4, <2>5
<1>5. ASSUME NEW t \in Callers, ReplayRejected(t) \/ ReturnRefusal(t)
      PROVE  HeadroomKept' /\ TotalWithinOriginal'
  <2>1. UNCHANGED reversals /\ txn' = [txn EXCEPT ![t] = Idle]
    BY <1>5 DEF ReplayRejected, ReturnRefusal
  <2>2. TotalReversed' = TotalReversed
    BY <2>1, RefundRowsKept
  <2>3. \A s \in Callers : txn'[s].pc = "idle"
    BY <1>1, <2>1 DEF Serial, RefundShape, ReversalTypeOK, Idle
  <2> QED
    BY <2>2, <2>3
<1>6. ASSUME UNCHANGED <<reversals, txn>>
      PROVE  HeadroomKept' /\ TotalWithinOriginal'
  BY <1>6, RefundRowsKept DEF AlreadyReversed
<1>7. ASSUME NEW amount \in RefundAmounts, Hold(amount) PROVE UNCHANGED <<reversals, txn>>
  BY <1>7 DEF Hold
<1>8. ASSUME NEW h \in RefundAmounts, NEW amount \in RefundAmounts \cup {0}, SettleHold(h, amount)
      PROVE  UNCHANGED <<reversals, txn>>
  BY <1>8 DEF SettleHold
<1> QED
  BY <1>3, <1>4, <1>5, <1>6, <1>7, <1>8 DEF ReversalNext, reversalVars

\* "the total reversed must never exceed the original", for any number of
\* keys and amounts and any charges in between, as long as one reverse() call
\* ends before the next begins.  With two at once it is false: the headroom is
\* read before the lock that would keep it true.
THEOREM SerialRefundsWithin ==
  ASSUME Serial
  PROVE  ReversalSpec => []TotalWithinOriginal
<1> DEFINE SInv == RefundInv /\ HeadroomKept /\ TotalWithinOriginal
<1>1. ReversalInit => SInv
  <2> SUFFICES ASSUME ReversalInit PROVE HeadroomKept /\ TotalWithinOriginal
    BY InitRefundInv
  <2>1. TotalReversed = 0
    BY TotalEmpty DEF ReversalInit, TotalReversed, PostedRefunds
  <2> QED
    BY <2>1, ReversalAssumption
       DEF ReversalInit, Idle, HeadroomKept, TotalWithinOriginal, ReversalAssumption
<1>2. SInv /\ [ReversalNext]_reversalVars => SInv'
  BY StepRefundInv, StepHeadroom
<1> QED
  BY <1>1, <1>2, PTL DEF ReversalSpec

=============================================================================
