---------------------- MODULE PrimeFirstInstallProofs ----------------------
(* Custody of the first installation, for any number of attempts, containers  *)
(* and file contents.  The argument: a command that stores a receipt holds in *)
(* its local variables the receipt on disk or its successor, and the one      *)
(* container a receipt names either is gone for good (docker hands out an id  *)
(* once) or still carries the label it was bound by.                          *)
EXTENDS PrimeFirstInstall, TLAPS

Arming == {"arm-override", "arm-receipt"}
Stopping == {"stop", "rm", "absence", "rolled-back-store"}

\* The container a receipt names has existed and, if it still does, is labelled
\* by the receipt's attempt.
Held(r) ==
  /\ r.container \in Ids /\ r.container <= created
  /\ \A c \in containers : c.id = r.container => c.label = r.attempt

ReceiptInv ==
  receipt # None =>
    /\ receipt.phase = "ARMED" => receipt.container = None
    /\ receipt.phase # "ARMED" => Held(receipt)

FreshInv == \A c \in containers : c.id <= created

LateInv ==
  \A id \in late : receipt # None /\ receipt.phase # "ARMED" /\ id = receipt.container

CmdInv ==
  /\ pc \in Arming => cmd \in ArmedCmd /\ receipt = None
  /\ pc = "bind-store" =>
       /\ receipt # None /\ receipt.phase = "ARMED"
       /\ cmd \in Receipt /\ cmd.phase = "BOUND" /\ cmd.attempt = receipt.attempt
       /\ Held(cmd)
  /\ pc = "stop-store" =>
       /\ receipt # None /\ receipt.phase # "ARMED"
       /\ cmd \in Receipt /\ cmd.phase = "STOPPING" /\ cmd.attempt = receipt.attempt
       /\ cmd.container = receipt.container
  /\ pc \in Stopping => receipt # None /\ cmd = receipt /\ receipt.phase = "STOPPING"

Gone(r) == \A c \in containers : c.id # r.container

GoneInv ==
  /\ pc = "rolled-back-store" => Gone(cmd)
  /\ receipt # None /\ receipt.phase = "ROLLED_BACK" => Gone(receipt)

\* The inductive invariant.
IInv == TypeOK /\ FreshInv /\ ReceiptInv /\ LateInv /\ CmdInv /\ GoneInv

\* It holds of the empty host on which nothing was armed.
LEMMA InitIInv == Init => IInv
BY BoundsAssumption, SMT DEF Init, IInv, TypeOK, FreshInv, ReceiptInv, LateInv, CmdInv, GoneInv,
   Attempts, Ids, Arming, Stopping

\* Every step of a command and of the host preserves it: one case per action, one
\* step per conjunct.
LEMMA NextIInv == IInv /\ [Next]_vars => IInv'
<1> SUFFICES ASSUME IInv, [Next]_vars PROVE IInv'
  OBVIOUS
<1> USE BoundsAssumption, NoneAssumption DEF Attempts, Ids, world, Done, IInv
<1>1. CASE ArmCheck
  <2>1. TypeOK'
    BY <1>1, SMT DEF ArmCheck, TypeOK, Receipt, ArmedCmd
  <2>2. FreshInv'
    BY <1>1, SMT DEF ArmCheck, TypeOK, FreshInv
  <2>3. ReceiptInv'
    BY <1>1, SMT DEF ArmCheck, TypeOK, ReceiptInv, Held, Receipt
  <2>4. LateInv'
    BY <1>1, SMT DEF ArmCheck, LateInv
  <2>5. CmdInv'
    BY <1>1, SMT DEF ArmCheck, TypeOK, CmdInv, Arming, Stopping, ArmedCmd
  <2>6. GoneInv'
    BY <1>1, SMT DEF ArmCheck, GoneInv, Gone
  <2> QED BY <2>1, <2>2, <2>3, <2>4, <2>5, <2>6
<1>2. CASE ArmOverride
  <2>1. TypeOK'
    BY <1>2, SMT DEF ArmOverride, TypeOK, Receipt, ArmedCmd, CmdInv, Arming
  <2>2. FreshInv'
    BY <1>2, SMT DEF ArmOverride, TypeOK, FreshInv
  <2>3. ReceiptInv'
    BY <1>2, SMT DEF ArmOverride, TypeOK, ReceiptInv, Held, Receipt
  <2>4. LateInv'
    BY <1>2, SMT DEF ArmOverride, LateInv
  <2>5. CmdInv'
    BY <1>2, SMT DEF ArmOverride, TypeOK, CmdInv, Arming, Stopping
  <2>6. GoneInv'
    BY <1>2, SMT DEF ArmOverride, GoneInv, Gone
  <2> QED BY <2>1, <2>2, <2>3, <2>4, <2>5, <2>6
<1>3. CASE ArmReceipt
  <2>1. TypeOK'
    BY <1>3, SMT DEF ArmReceipt, TypeOK, Receipt, ArmedCmd, CmdInv, Arming
  <2>2. FreshInv'
    BY <1>3, SMT DEF ArmReceipt, TypeOK, FreshInv
  <2>3. ReceiptInv'
    BY <1>3, SMT DEF ArmReceipt, TypeOK, ReceiptInv, Held, Receipt
  <2>4. LateInv'
    BY <1>3, SMT DEF ArmReceipt, LateInv, CmdInv, Arming
  <2>5. CmdInv'
    BY <1>3, SMT DEF ArmReceipt, TypeOK, CmdInv, Arming, Stopping
  <2>6. GoneInv'
    BY <1>3, SMT DEF ArmReceipt, GoneInv, Gone, TypeOK
  <2> QED BY <2>1, <2>2, <2>3, <2>4, <2>5, <2>6
<1>4. CASE \E a \in Attempts : BindCheck(a)
  <2>1. PICK c \in containers :
          /\ receipt # None /\ receipt.phase = "ARMED"
          /\ containers = {c} /\ c.label = receipt.attempt
          /\ cmd' = [attempt |-> receipt.attempt, source |-> receipt.source,
                      phase |-> "BOUND", container |-> c.id]
    BY <1>4 DEF BindCheck, Loadable, Owned
  <2>2. pc' = "bind-store" /\ UNCHANGED <<source, containers, created, override, receipt, attempts, late>>
    BY <1>4 DEF BindCheck
  <2>3. receipt \in Receipt /\ c.id \in Ids /\ c.id <= created
    BY <2>1, SMT DEF TypeOK, FreshInv
  <2>4. /\ cmd' \in Receipt /\ cmd'.phase = "BOUND"
        /\ cmd'.attempt = receipt.attempt /\ cmd'.container = c.id
    BY <2>1, <2>3, SMT DEF Receipt
  <2>5. TypeOK'
    BY <2>2, <2>4, SMT DEF TypeOK
  <2>6. FreshInv' /\ ReceiptInv' /\ LateInv'
    BY <2>2, SMT DEF FreshInv, ReceiptInv, Held, LateInv
  <2>7. CmdInv'
    BY <2>1, <2>2, <2>3, <2>4, SMT DEF CmdInv, Held, Arming, Stopping
  <2>8. GoneInv'
    BY <2>2, SMT DEF GoneInv, Gone
  <2> QED BY <2>5, <2>6, <2>7, <2>8
<1>5. CASE BindStore
  <2>1. TypeOK'
    BY <1>5, SMT DEF BindStore, TypeOK, Receipt, ArmedCmd, CmdInv
  <2>2. FreshInv'
    BY <1>5, SMT DEF BindStore, TypeOK, FreshInv
  <2>3. ReceiptInv'
    BY <1>5, SMT DEF BindStore, TypeOK, ReceiptInv, Held, Receipt, CmdInv
  <2>4. LateInv'
    BY <1>5, SMT DEF BindStore, LateInv, CmdInv, TypeOK, Receipt
  <2>5. CmdInv'
    BY <1>5, SMT DEF BindStore, TypeOK, CmdInv, Arming, Stopping
  <2>6. GoneInv'
    BY <1>5, SMT DEF BindStore, GoneInv, Gone, CmdInv
  <2> QED BY <2>1, <2>2, <2>3, <2>4, <2>5, <2>6
<1>6. CASE \E a \in Attempts : RollbackCheck(a)
  <2>1. TypeOK'
    BY <1>6, SMT DEF RollbackCheck, Loadable, Owned, TypeOK, Receipt, ArmedCmd
  <2>2. FreshInv'
    BY <1>6, SMT DEF RollbackCheck, Loadable, Owned, TypeOK, FreshInv
  <2>3. ReceiptInv'
    BY <1>6, SMT DEF RollbackCheck, Loadable, Owned, TypeOK, ReceiptInv, Held, Receipt
  <2>4. LateInv'
    BY <1>6, SMT DEF RollbackCheck, Loadable, Owned, LateInv
  <2>5. CmdInv'
    BY <1>6, SMT DEF RollbackCheck, Loadable, Owned, TypeOK, CmdInv, Arming, Stopping, Receipt, ReceiptInv
  <2>6. GoneInv'
    BY <1>6, SMT DEF RollbackCheck, Loadable, Owned, GoneInv, Gone
  <2> QED BY <2>1, <2>2, <2>3, <2>4, <2>5, <2>6
<1>7. CASE StopStore
  <2>1. TypeOK'
    BY <1>7, SMT DEF StopStore, TypeOK, Receipt, ArmedCmd, CmdInv
  <2>2. FreshInv'
    BY <1>7, SMT DEF StopStore, TypeOK, FreshInv
  <2>3. ReceiptInv'
    BY <1>7, SMT DEF StopStore, TypeOK, ReceiptInv, Held, Receipt, CmdInv
  <2>4. LateInv'
    BY <1>7, SMT DEF StopStore, LateInv, CmdInv, TypeOK, Receipt
  <2>5. CmdInv'
    BY <1>7, SMT DEF StopStore, TypeOK, CmdInv, Arming, Stopping, Receipt
  <2>6. GoneInv'
    BY <1>7, SMT DEF StopStore, GoneInv, Gone, CmdInv
  <2> QED BY <2>1, <2>2, <2>3, <2>4, <2>5, <2>6
<1>8. CASE Stop
  <2>1. TypeOK'
    BY <1>8, SMT DEF Stop, TypeOK, Receipt, ArmedCmd
  <2>2. FreshInv'
    BY <1>8, SMT DEF Stop, TypeOK, FreshInv
  <2>3. ReceiptInv'
    BY <1>8, SMT DEF Stop, TypeOK, ReceiptInv, Held, Receipt
  <2>4. LateInv'
    BY <1>8, SMT DEF Stop, LateInv
  <2>5. CmdInv'
    BY <1>8, SMT DEF Stop, TypeOK, CmdInv, Arming, Stopping
  <2>6. GoneInv'
    BY <1>8, SMT DEF Stop, GoneInv, Gone
  <2> QED BY <2>1, <2>2, <2>3, <2>4, <2>5, <2>6
<1>9. CASE Rm
  <2>1. TypeOK'
    BY <1>9, SMT DEF Rm, Remove, TypeOK, Receipt, ArmedCmd
  <2>2. FreshInv'
    BY <1>9, SMT DEF Rm, Remove, TypeOK, FreshInv
  <2>3. ReceiptInv'
    BY <1>9, SMT DEF Rm, Remove, TypeOK, ReceiptInv, Held, Receipt
  <2>4. LateInv'
    BY <1>9, SMT DEF Rm, Remove, LateInv
  <2>5. CmdInv'
    BY <1>9, SMT DEF Rm, Remove, TypeOK, CmdInv, Arming, Stopping, Held
  <2>6. GoneInv'
    BY <1>9, SMT DEF Rm, Remove, GoneInv, Gone
  <2> QED BY <2>1, <2>2, <2>3, <2>4, <2>5, <2>6
<1>10. CASE Absence
  <2>1. TypeOK'
    BY <1>10, SMT DEF Absence, Project, TypeOK, Receipt, ArmedCmd
  <2>2. FreshInv'
    BY <1>10, SMT DEF Absence, Project, TypeOK, FreshInv
  <2>3. ReceiptInv'
    BY <1>10, SMT DEF Absence, Project, TypeOK, ReceiptInv, Held, Receipt
  <2>4. LateInv'
    BY <1>10, SMT DEF Absence, Project, LateInv
  <2>5. CmdInv'
    BY <1>10, SMT DEF Absence, Project, TypeOK, CmdInv, Arming, Stopping
  <2>6. GoneInv'
    BY <1>10, SMT DEF Absence, Project, GoneInv, Gone
  <2> QED BY <2>1, <2>2, <2>3, <2>4, <2>5, <2>6
<1>11. CASE RolledBackStore
  <2>1. TypeOK'
    BY <1>11, SMT DEF RolledBackStore, TypeOK, Receipt, ArmedCmd, CmdInv, Stopping
  <2>2. FreshInv'
    BY <1>11, SMT DEF RolledBackStore, TypeOK, FreshInv
  <2>3. ReceiptInv'
    BY <1>11, SMT DEF RolledBackStore, TypeOK, ReceiptInv, Held, Receipt, CmdInv, Stopping
  <2>4. LateInv'
    BY <1>11, SMT DEF RolledBackStore, LateInv, CmdInv, Stopping, TypeOK, Receipt
  <2>5. CmdInv'
    BY <1>11, SMT DEF RolledBackStore, TypeOK, CmdInv, Arming, Stopping
  <2>6. GoneInv'
    BY <1>11, SMT DEF RolledBackStore, GoneInv, Gone, CmdInv, TypeOK, Receipt, Stopping
  <2> QED BY <2>1, <2>2, <2>3, <2>4, <2>5, <2>6
<1>12. CASE Abandon
  <2>1. TypeOK'
    <3>1. pc = "rm" => cmd.container \in Ids
      BY SMT DEF CmdInv, Stopping, ReceiptInv, Held
    <3>2. late' \subseteq Ids
      BY <1>12, <3>1 DEF Abandon, TypeOK
    <3> QED BY <1>12, <3>2, SMT DEF Abandon, TypeOK
  <2>2. FreshInv'
    BY <1>12, SMT DEF Abandon, TypeOK, FreshInv
  <2>3. ReceiptInv'
    BY <1>12, SMT DEF Abandon, TypeOK, ReceiptInv, Held, Receipt
  <2>4. LateInv'
    BY <1>12, SMT DEF Abandon, LateInv, CmdInv, Stopping
  <2>5. CmdInv'
    BY <1>12, SMT DEF Abandon, TypeOK, CmdInv, Arming, Stopping
  <2>6. GoneInv'
    BY <1>12, SMT DEF Abandon, GoneInv, Gone
  <2> QED BY <2>1, <2>2, <2>3, <2>4, <2>5, <2>6
<1>13. CASE LateRemove
  <2>1. TypeOK'
    BY <1>13, SMT DEF LateRemove, Remove, TypeOK, Receipt, ArmedCmd
  <2>2. FreshInv'
    BY <1>13, SMT DEF LateRemove, Remove, TypeOK, FreshInv
  <2>3. ReceiptInv'
    BY <1>13, SMT DEF LateRemove, Remove, TypeOK, ReceiptInv, Held, Receipt
  <2>4. LateInv'
    BY <1>13, SMT DEF LateRemove, Remove, LateInv
  <2>5. CmdInv'
    BY <1>13, SMT DEF LateRemove, Remove, TypeOK, CmdInv, Arming, Stopping, Held
  <2>6. GoneInv'
    BY <1>13, SMT DEF LateRemove, Remove, GoneInv, Gone
  <2> QED BY <2>1, <2>2, <2>3, <2>4, <2>5, <2>6
<1>14. CASE Create
  <2>1. TypeOK'
    BY <1>14, SMT DEF Create, TypeOK, Receipt, ArmedCmd
  <2>2. FreshInv'
    BY <1>14, SMT DEF Create, TypeOK, FreshInv
  <2>3. ReceiptInv'
    BY <1>14, SMT DEF Create, TypeOK, ReceiptInv, Held, Receipt
  <2>4. LateInv'
    BY <1>14, SMT DEF Create, LateInv
  <2>5. CmdInv'
    BY <1>14, SMT DEF Create, TypeOK, CmdInv, Arming, Stopping, Held, Receipt
  <2>6. GoneInv'
    BY <1>14, SMT DEF Create, GoneInv, Gone, CmdInv, Stopping, ReceiptInv, Held, TypeOK, Receipt
  <2> QED BY <2>1, <2>2, <2>3, <2>4, <2>5, <2>6
<1>15. CASE Disappear
  <2>1. TypeOK'
    BY <1>15, SMT DEF Disappear, Remove, TypeOK, Receipt, ArmedCmd
  <2>2. FreshInv'
    BY <1>15, SMT DEF Disappear, Remove, TypeOK, FreshInv
  <2>3. ReceiptInv'
    BY <1>15, SMT DEF Disappear, Remove, TypeOK, ReceiptInv, Held, Receipt
  <2>4. LateInv'
    BY <1>15, SMT DEF Disappear, Remove, LateInv
  <2>5. CmdInv'
    BY <1>15, SMT DEF Disappear, Remove, TypeOK, CmdInv, Arming, Stopping, Held
  <2>6. GoneInv'
    BY <1>15, SMT DEF Disappear, Remove, GoneInv, Gone
  <2> QED BY <2>1, <2>2, <2>3, <2>4, <2>5, <2>6
<1>16. CASE Edit
  <2>1. TypeOK'
    BY <1>16, SMT DEF Edit, TypeOK, Receipt, ArmedCmd
  <2>2. FreshInv'
    BY <1>16, SMT DEF Edit, TypeOK, FreshInv
  <2>3. ReceiptInv'
    BY <1>16, SMT DEF Edit, TypeOK, ReceiptInv, Held, Receipt
  <2>4. LateInv'
    BY <1>16, SMT DEF Edit, LateInv
  <2>5. CmdInv'
    BY <1>16, SMT DEF Edit, TypeOK, CmdInv, Arming, Stopping, Held
  <2>6. GoneInv'
    BY <1>16, SMT DEF Edit, GoneInv, Gone
  <2> QED BY <2>1, <2>2, <2>3, <2>4, <2>5, <2>6
<1>17. CASE UNCHANGED vars
  BY <1>17, SMT DEF TypeOK, FreshInv, ReceiptInv, LateInv, CmdInv, GoneInv, Held, Gone, vars
<1> QED BY <1>1, <1>2, <1>3, <1>4, <1>5, <1>6, <1>7, <1>8, <1>9, <1>10, <1>11, <1>12, <1>13, <1>14, <1>15, <1>16, <1>17 DEF Next, Command

\* The state is typed, and a receipt that says ROLLED_BACK names a container that is gone
\* (rollback() of prime-first-install.py).
THEOREM RolledBackSound == Spec => [](TypeOK /\ RolledBackIsAbsent)
<1>1. IInv => TypeOK /\ RolledBackIsAbsent
  BY DEF IInv, GoneInv, Gone, RolledBackIsAbsent, Project
<1> QED BY <1>1, InitIInv, NextIInv, PTL DEF Spec

\* Custody is taken once: whatever arm(), bind() and rollback() are interrupted at, a stored
\* attempt and its container are never replaced.
THEOREM CustodyTakenOnce == Spec => CustodyIsFinal
<1> DEFINE Kept ==
      receipt # None =>
        /\ receipt' # None /\ receipt'.attempt = receipt.attempt
        /\ receipt.container # None => receipt'.container = receipt.container
<1>1. IInv /\ [Next]_vars => [Kept]_vars
  <2> SUFFICES ASSUME IInv, Next, receipt # None PROVE Kept
    BY DEF vars
  <2>1. CASE ArmReceipt
    BY <2>1, SMT DEF ArmReceipt, IInv, CmdInv, Arming
  <2>2. CASE BindStore
    BY <2>2, NoneAssumption, SMT DEF BindStore, IInv, CmdInv, ReceiptInv
  <2>3. CASE StopStore
    BY <2>3, NoneAssumption, SMT DEF StopStore, IInv, CmdInv
  <2>4. CASE RolledBackStore
    <3>1. receipt \in Receipt /\ receipt' = [receipt EXCEPT !.phase = "ROLLED_BACK"]
      BY <2>4, SMT DEF RolledBackStore, IInv, CmdInv, Stopping, TypeOK
    <3>2. receipt' \in Receipt /\ receipt'.attempt = receipt.attempt
                              /\ receipt'.container = receipt.container
      BY <3>1, SMT DEF Receipt
    <3> QED BY <3>2, NoneAssumption
  <2>5. ASSUME ~(ArmReceipt \/ BindStore \/ StopStore \/ RolledBackStore)
        PROVE  UNCHANGED receipt
    BY <2>5, SMT DEF Next, Command, ArmCheck, ArmOverride, BindCheck, RollbackCheck, Stop, Rm,
       Absence, Abandon, LateRemove, Create, Disappear, Edit
  <2> QED BY <2>1, <2>2, <2>3, <2>4, <2>5
<1> QED BY <1>1, InitIInv, NextIInv, PTL DEF Spec, CustodyIsFinal

\* rollback() and the docker calls that outlive it remove no container but the one this
\* attempt labelled, whatever else has joined the project.
THEOREM RemovalOwned == Spec => RemovesOnlyOwned
<1> DEFINE Owns ==
      pc' # pc \/ late' # late => \A c \in containers \ containers' : c.label = receipt.attempt
<1>1. IInv /\ [Next]_vars => [Owns]_vars
  <2> SUFFICES ASSUME IInv, Next, pc' # pc \/ late' # late,
                      NEW c \in containers \ containers'
               PROVE  c.label = receipt.attempt
    BY DEF vars
  <2>1. CASE Rm
    <3>1. receipt # None /\ receipt.phase = "STOPPING" /\ c.id = receipt.container
      BY <2>1, SMT DEF Rm, Remove, IInv, CmdInv, Stopping
    <3> QED BY <3>1, SMT DEF IInv, ReceiptInv, Held
  <2>2. CASE LateRemove
    <3>1. receipt # None /\ receipt.phase # "ARMED" /\ c.id = receipt.container
      BY <2>2, SMT DEF LateRemove, Remove, IInv, LateInv
    <3> QED BY <3>1, SMT DEF IInv, ReceiptInv, Held
  <2>3. ASSUME ~(Rm \/ LateRemove) PROVE containers \subseteq containers'
    BY <2>3, SMT DEF Next, Command, ArmCheck, ArmOverride, ArmReceipt, BindCheck, BindStore,
       RollbackCheck, StopStore, Stop, Absence, RolledBackStore, Abandon, Create, Disappear, Edit,
       world
  <2> QED BY <2>1, <2>2, <2>3
<1> QED BY <1>1, InitIInv, NextIInv, PTL DEF Spec, RemovesOnlyOwned
=============================================================================
