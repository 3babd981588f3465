----------------------------- MODULE Settlement -----------------------------
(***************************************************************************)
(* What billing promises to the owner of an account, without the handles,  *)
(* lists and jobs it is done with.  Under an idempotency key credit is     *)
(* reserved, then the key is closed by one bill or the credit is returned; *)
(* a closed key is never reserved again.  A request is billed at most once *)
(* and a bill takes what there is, never more.  Credit is reserved only    *)
(* out of what is available, and a refund takes only that.                 *)
(***************************************************************************)
EXTENDS UnitSums

CONSTANTS
  Ids,       \* keys, each under one of its lives
  Rows,      \* requests
  Deposits   \* payments into the account

VARIABLES
  balance,   \* the credit of the account
  reserved,  \* what is reserved, under each key that is open
  closed,    \* the keys that have been billed
  bill,      \* the bill of each request that has one
  paid,      \* the amount of each deposit made
  refunded   \* the deposits taken back

vars == <<balance, reserved, closed, bill, paid, refunded>>

Available == AtLeast(balance - Total(DOMAIN reserved, reserved), 0)

\* g is f with one more argument, whatever its value.
Extends(f, g, x) ==
  /\ x \notin DOMAIN f /\ DOMAIN g = DOMAIN f \cup {x}
  /\ \A y \in DOMAIN f : g[y] = f[y]

Init ==
  /\ balance = 0
  /\ DOMAIN reserved = {} /\ DOMAIN bill = {} /\ DOMAIN paid = {}
  /\ closed = {} /\ refunded = {}

Reserve(i) ==
  /\ i \notin closed
  /\ Extends(reserved, reserved', i) /\ reserved'[i] \in 0 .. Available
  /\ UNCHANGED <<balance, closed, bill, paid, refunded>>

Free(i) ==
  /\ i \in DOMAIN reserved
  /\ reserved' = [j \in DOMAIN reserved \ {i} |-> reserved[j]]

Return(i) == Free(i) /\ UNCHANGED <<balance, closed, bill, paid, refunded>>

Charge(q) ==
  /\ Extends(bill, bill', q) /\ bill'[q] \in Nat
  /\ balance' = AtLeast(balance - bill'[q], 0)

\* The bill closes its key and frees what was reserved under it.
Settle(i, q) ==
  /\ Free(i) /\ Charge(q)
  /\ closed' = closed \cup {i} /\ UNCHANGED <<paid, refunded>>

\* A request without a key, or one recovered later.
BillDirectly(q) == Charge(q) /\ UNCHANGED <<reserved, closed, paid, refunded>>

Pay(d) ==
  /\ Extends(paid, paid', d) /\ paid'[d] \in Nat
  /\ balance' = balance + paid'[d]
  /\ UNCHANGED <<reserved, closed, bill, refunded>>

Refund(d) ==
  /\ d \in DOMAIN paid \ refunded
  /\ refunded' = refunded \cup {d}
  /\ balance' = balance - AtMost(paid[d], Available)
  /\ UNCHANGED <<reserved, closed, bill, paid>>

Next ==
  \/ \E i \in Ids : Reserve(i) \/ Return(i) \/ \E q \in Rows : Settle(i, q)
  \/ \E q \in Rows : BillDirectly(q)
  \/ \E d \in Deposits : Pay(d) \/ Refund(d)

Spec == Init /\ [][Next]_vars
=============================================================================
