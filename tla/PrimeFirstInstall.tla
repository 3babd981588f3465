-------------------------- MODULE PrimeFirstInstall --------------------------
(* deploy/prime-first-install.py: custody of the first installation of Prime. *)
(* `arm' records that nothing is installed, the operator starts the container *)
(* with the label of that attempt, `bind' takes custody of exactly that       *)
(* container, `rollback' stops and removes it and nothing else.  Commands     *)
(* exclude each other by a file lock; everything else on the host (compose up *)
(* by the operator, foreign containers, edits of the release and compose      *)
(* files, kills, docker calls that outlive their caller) goes on meanwhile.   *)
EXTENDS Integers, FiniteSets

CONSTANTS
  None,
  Sources,       \* contents of the release contract and compose file
  MaxAttempts,   \* attempts armed
  MaxContainers  \* containers ever created in the project

ASSUME BoundsAssumption == MaxAttempts \in Nat /\ MaxContainers \in Nat

VARIABLES
  source,      \* the release contract and the compose file now on the host
  override,    \* attempt.json: the label compose up gives, or None
  receipt,     \* receipt.json, or None
  attempts,    \* attempts generated so far
  containers,  \* containers of compose project `prime' that exist
  created,     \* ids handed out by docker so far
  late,        \* `docker rm' calls whose caller has gone
  pc, cmd      \* the running command's next step and its local variables

vars == <<source, override, receipt, attempts, containers, created, late, pc, cmd>>
world == <<source, containers, created>>

Ids == 1..MaxContainers
Attempts == 1..MaxAttempts

\* project(): docker's own list, or a refusal.
Project == {c.id : c \in containers}

\* owned(): the project holds exactly this container, labelled by this attempt,
\* made from the compose file that was armed.
Owned(r, id) ==
  /\ source = r.source
  /\ \E c \in containers : containers = {c} /\ c.id = id
                            /\ c.label = r.attempt /\ c.source = r.source

\* load(): the receipt, if it is the one asked for and nothing it pins changed.
Loadable(a) ==
  /\ receipt # None /\ receipt.attempt = a
  /\ receipt.source = source /\ override = receipt.attempt

Done == pc' = "idle" /\ cmd' = None

-----------------------------------------------------------------------------
\* Mutant of ArmCheck: an earlier receipt is overwritten.
ArmCheckAgain ==
  /\ pc = "idle" /\ Project = {} /\ attempts < MaxAttempts
  /\ attempts' = attempts + 1
  /\ cmd' = [attempt |-> attempts', source |-> source]
  /\ pc' = "arm-override"
  /\ UNCHANGED <<world, override, receipt, late>>

\* arm(): contract, absence and free port are observed first, then the two
\* files are stored one after the other.
ArmCheck ==
  /\ pc = "idle" /\ receipt = None /\ Project = {} /\ attempts < MaxAttempts
  /\ attempts' = attempts + 1
  /\ cmd' = [attempt |-> attempts', source |-> source]
  /\ pc' = "arm-override"
  /\ UNCHANGED <<world, override, receipt, late>>

ArmOverride ==
  /\ pc = "arm-override"
  /\ override' = cmd.attempt /\ pc' = "arm-receipt"
  /\ UNCHANGED <<world, receipt, attempts, late, cmd>>

ArmReceipt ==
  /\ pc = "arm-receipt"
  /\ receipt' = [attempt |-> cmd.attempt, source |-> cmd.source,
                 phase |-> "ARMED", container |-> None]
  /\ Done
  /\ UNCHANGED <<world, override, attempts, late>>

\* bind(): one container in the project, and it is ours; then the record.
BindCheck(a) ==
  /\ pc = "idle" /\ Loadable(a) /\ receipt.phase = "ARMED"
  /\ \E id \in Project :
       /\ Owned(receipt, id)
       /\ cmd' = [attempt |-> receipt.attempt, source |-> receipt.source,
                  phase |-> "BOUND", container |-> id]
  /\ pc' = "bind-store"
  /\ UNCHANGED <<world, override, receipt, attempts, late>>

BindStore ==
  /\ pc = "bind-store" /\ receipt' = cmd /\ Done
  /\ UNCHANGED <<world, override, attempts, late>>

\* rollback(): ownership is established before the phase is stored and again
\* between `docker stop' and `docker rm'.
RollbackCheck(a) ==
  /\ pc = "idle" /\ Loadable(a) /\ receipt.phase \in {"BOUND", "STOPPING"}
  /\ Owned(receipt, receipt.container)
  /\ cmd' = [receipt EXCEPT !.phase = "STOPPING"] /\ pc' = "stop-store"
  /\ UNCHANGED <<world, override, receipt, attempts, late>>

StopStore ==
  /\ pc = "stop-store" /\ receipt' = cmd /\ pc' = "stop"
  /\ UNCHANGED <<world, override, attempts, late, cmd>>

\* docker stop, then owned() again.
Stop ==
  /\ pc = "stop" /\ Owned(cmd, cmd.container) /\ pc' = "rm"
  /\ UNCHANGED <<world, override, receipt, attempts, late, cmd>>

Remove(id) == containers' = {c \in containers : c.id # id}

\* Mutant of Rm: everything in the project is removed.
RmProject ==
  /\ pc = "rm" /\ containers' = {} /\ pc' = "absence"
  /\ UNCHANGED <<source, created, override, receipt, attempts, late, cmd>>

\* docker rm names the container by its id, whatever joined the project since.
Rm ==
  /\ pc = "rm" /\ Remove(cmd.container) /\ pc' = "absence"
  /\ UNCHANGED <<source, created, override, receipt, attempts, late, cmd>>

Absence ==
  /\ pc = "absence" /\ Project = {} /\ pc' = "rolled-back-store"
  /\ UNCHANGED <<world, override, receipt, attempts, late, cmd>>

RolledBackStore ==
  /\ pc = "rolled-back-store"
  /\ receipt' = [cmd EXCEPT !.phase = "ROLLED_BACK"] /\ Done
  /\ UNCHANGED <<world, override, attempts, late>>

\* A refusal, an exception of store() or a kill ends the command where it is;
\* a `docker rm' in flight may still happen (Native.call kills only its client).
Abandon ==
  /\ pc # "idle" /\ Done
  /\ late' = IF pc = "rm" THEN late \cup {cmd.container} ELSE late
  /\ UNCHANGED <<world, override, receipt, attempts>>

-----------------------------------------------------------------------------
(* The host.                                                                 *)

LateRemove ==
  /\ \E id \in late : Remove(id) /\ late' = late \ {id}
  /\ UNCHANGED <<source, created, override, receipt, attempts, pc, cmd>>

\* A container appears in the project: compose up with the override, or foreign.
Create ==
  /\ created < MaxContainers /\ created' = created + 1
  /\ \E label \in {override, None} :
       containers' = containers \cup {[id |-> created', label |-> label, source |-> source]}
  /\ UNCHANGED <<source, override, receipt, attempts, late, pc, cmd>>

Disappear ==
  /\ \E id \in Project : Remove(id)
  /\ UNCHANGED <<source, created, override, receipt, attempts, late, pc, cmd>>

Edit ==
  /\ source' \in Sources \ {source}
  /\ UNCHANGED <<override, receipt, attempts, containers, created, late, pc, cmd>>

-----------------------------------------------------------------------------
Init ==
  /\ source \in Sources /\ override = None /\ receipt = None /\ attempts = 0
  /\ containers = {} /\ created = 0 /\ late = {} /\ pc = "idle" /\ cmd = None

Command ==
  \/ ArmCheck \/ ArmOverride \/ ArmReceipt
  \/ \E a \in Attempts : BindCheck(a) \/ RollbackCheck(a)
  \/ BindStore \/ StopStore \/ Stop \/ Rm \/ Absence \/ RolledBackStore
  \/ Abandon

Next == Command \/ LateRemove \/ Create \/ Disappear \/ Edit

Spec == Init /\ [][Next]_vars

-----------------------------------------------------------------------------
(* Properties.                                                               *)

Receipt == [attempt : Attempts, source : Sources, container : Ids \cup {None},
            phase : {"ARMED", "BOUND", "STOPPING", "ROLLED_BACK"}]
ArmedCmd == [attempt : Attempts, source : Sources]

ASSUME NoneAssumption == None \notin Receipt \cup ArmedCmd

\* Types of the files, the containers and the running command.
TypeOK ==
  /\ source \in Sources /\ override \in Attempts \cup {None}
  /\ receipt \in Receipt \cup {None} /\ attempts \in 0..MaxAttempts
  /\ containers \subseteq [id : Ids, label : Attempts \cup {None}, source : Sources]
  /\ created \in 0..MaxContainers /\ late \subseteq Ids
  /\ cmd \in Receipt \cup ArmedCmd \cup {None}

\* A removal by rollback(), even one that docker carries out late, never hits a
\* container that carries another attempt's label or none.
RemovesOnlyOwned ==
  [][pc' # pc \/ late' # late =>
       \A c \in containers \ containers' : c.label = receipt.attempt]_vars

\* Custody is taken once: an attempt that has a receipt is never replaced by
\* another, whatever crashes between the two files arm() stores.
CustodyIsFinal ==
  [][receipt # None =>
       /\ receipt' # None /\ receipt'.attempt = receipt.attempt
       /\ receipt.container # None => receipt'.container = receipt.container]_vars

\* A receipt that says ROLLED_BACK means that its own container is gone and
\* can never come back.
RolledBackIsAbsent ==
  receipt # None /\ receipt.phase = "ROLLED_BACK" => receipt.container \notin Project

=============================================================================
