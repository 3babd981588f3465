------------------------------ MODULE Reversal ------------------------------
(***************************************************************************)
(* BillingService.reverse against one deposit, with its transaction split  *)
(* where Read Committed lets others in: the headroom is summed from the    *)
(* committed rows first; the balance row is locked only afterwards.  From  *)
(* that lock to the commit the transaction is alone on the account, so     *)
(* the rest is one step.                                                   *)
(***************************************************************************)
EXTENDS UnitSums

CONSTANTS
  Callers,       \* reverse() calls in progress at once
  RefundKeys,    \* idempotency keys of reversals
  Original,      \* what the deposit being reversed posted
  RefundAmounts  \* amounts of reversals, charges and holds

ASSUME ReversalAssumption ==
  /\ Original \in Nat \ {0}
  /\ RefundAmounts \subseteq Nat \ {0}

VARIABLES
  balance_usd,  \* credits_balance.balance_usd
  held_usd,     \* credits_balance.held_usd
  spent,        \* what charges have collected since the deposit
  reversals,    \* the reversal rows posted, by idempotency key
  txn           \* the reverse() calls

reversalVars == <<balance_usd, held_usd, spent, reversals, txn>>

PostedRefunds == DOMAIN reversals
Reversed(r) == [k \in DOMAIN r |-> r[k].amount]
Unrecovered(r) == [k \in DOMAIN r |-> r[k].unrecovered]

TotalReversed == Total(PostedRefunds, Reversed(reversals))
TotalUnrecovered == Total(PostedRefunds, Unrecovered(reversals))

\* Mutant of AlreadyReversed: prior reversals are ignored.
AlreadyReversedIgnored == 0

\* priorRows holds the negative row of each reversal and the positive row of
\* what it could not recover; both carry reversalOf, and abs() adds both.
AlreadyReversed == TotalReversed + TotalUnrecovered

Idle == [pc |-> "idle", key |-> "none", amount |-> 0]

\* The transaction begins: find the original, sum the prior rows, compare.
CheckHeadroom(t, k, amount) ==
  /\ txn[t].pc = "idle"
  /\ txn' = [txn EXCEPT ![t] =
       [pc |-> IF amount > Original - AlreadyReversed THEN "refused" ELSE "checked",
        key |-> k, amount |-> amount]]
  /\ UNCHANGED <<balance_usd, held_usd, spent, reversals>>

Spendable == AtLeast(balance_usd - held_usd, 0)

\* Mutant of Apply: recovery from the whole balance, holds included, with the
\* shortfall posted as if only the spendable part had been recovered.
ApplyAgainstBalance(t) ==
  LET amount == txn[t].amount
      recovered == AtMost(amount, balance_usd)
  IN  /\ txn[t].pc = "checked"
      /\ txn[t].key \notin PostedRefunds
      /\ reversals' = [x \in PostedRefunds \cup {txn[t].key} |->
           IF x = txn[t].key
           THEN [amount |-> amount,
                 unrecovered |-> amount - AtMost(amount, Spendable)]
           ELSE reversals[x]]
      /\ balance_usd' = balance_usd - recovered
      /\ txn' = [txn EXCEPT ![t] = Idle]
      /\ UNCHANGED <<held_usd, spent>>

\* Mutant of Apply: the refund is taken in full whatever the balance is.
ApplyInFull(t) ==
  LET amount == txn[t].amount
  IN  /\ txn[t].pc = "checked"
      /\ txn[t].key \notin PostedRefunds
      /\ reversals' = [x \in PostedRefunds \cup {txn[t].key} |->
           IF x = txn[t].key
           THEN [amount |-> amount, unrecovered |-> 0]
           ELSE reversals[x]]
      /\ balance_usd' = balance_usd - amount
      /\ txn' = [txn EXCEPT ![t] = Idle]
      /\ UNCHANGED <<held_usd, spent>>

\* Insert the rows, lock and split the balance, commit.
Apply(t) ==
  LET amount == txn[t].amount
      recovered == AtMost(amount, Spendable)
  IN  /\ txn[t].pc = "checked"
      /\ txn[t].key \notin PostedRefunds
      /\ reversals' = [x \in PostedRefunds \cup {txn[t].key} |->
           IF x = txn[t].key
           THEN [amount |-> amount, unrecovered |-> amount - recovered]
           ELSE reversals[x]]
      /\ balance_usd' = balance_usd - recovered
      /\ txn' = [txn EXCEPT ![t] = Idle]
      /\ UNCHANGED <<held_usd, spent>>

\* The unique index rejects a replayed key: rolled back, a no-op.
ReplayRejected(t) ==
  /\ txn[t].pc = "checked"
  /\ txn[t].key \in PostedRefunds
  /\ txn' = [txn EXCEPT ![t] = Idle]
  /\ UNCHANGED <<balance_usd, held_usd, spent, reversals>>

\* ReversalRefusedError reaches the caller.
ReturnRefusal(t) ==
  /\ txn[t].pc = "refused"
  /\ txn' = [txn EXCEPT ![t] = Idle]
  /\ UNCHANGED <<balance_usd, held_usd, spent, reversals>>

\* The rest of the account: requests hold, give back and spend.
Hold(amount) ==
  /\ balance_usd - held_usd >= amount
  /\ held_usd' = held_usd + amount
  /\ UNCHANGED <<balance_usd, spent, reversals, txn>>

SettleHold(h, amount) ==
  /\ h <= held_usd
  /\ held_usd' = held_usd - h
  /\ LET collectible == AtMost(amount, balance_usd)
     IN  /\ balance_usd' = balance_usd - collectible
         /\ spent' = spent + collectible
  /\ UNCHANGED <<reversals, txn>>

ReversalInit ==
  /\ balance_usd = Original
  /\ held_usd = 0
  /\ spent = 0
  /\ reversals = [k \in {} |-> 0]
  /\ txn = [t \in Callers |-> Idle]

ReversalNext ==
  \/ \E t \in Callers :
       \/ \E k \in RefundKeys, amount \in RefundAmounts : CheckHeadroom(t, k, amount)
       \/ Apply(t)
       \/ ReplayRejected(t)
       \/ ReturnRefusal(t)
  \/ \E amount \in RefundAmounts : Hold(amount)
  \/ \E h \in RefundAmounts, amount \in RefundAmounts \cup {0} : SettleHold(h, amount)

ReversalSpec == ReversalInit /\ [][ReversalNext]_reversalVars

-----------------------------------------------------------------------------
(* Properties *)

\* Type invariant.
ReversalTypeOK ==
  /\ balance_usd \in Nat
  /\ held_usd \in Nat
  /\ spent \in Nat
  /\ PostedRefunds \subseteq RefundKeys
  /\ reversals \in [PostedRefunds -> [amount : Nat, unrecovered : Nat]]
  /\ txn \in [Callers -> [pc : {"idle", "checked", "refused"},
                          key : RefundKeys \cup {"none"}, amount : Nat]]

\* A reversal posted in full and its write-off keep the balance the sum of
\* the ledger, however it interleaves with charges and other reversals.
ReversalBooks == balance_usd + spent + TotalReversed = Original + TotalUnrecovered

\* The comment of reverse: recovery stops at balance_usd - held_usd, so a
\* refund never takes the credit a request in flight was told it had.
HoldsUntouched ==
  [][balance_usd' # balance_usd /\ held_usd' = held_usd
       => balance_usd' >= held_usd \/ balance_usd' >= balance_usd]_reversalVars

\* "the total reversed must never exceed the original".
TotalWithinOriginal == TotalReversed <= Original

=============================================================================
