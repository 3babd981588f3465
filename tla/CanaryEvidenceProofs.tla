------------------------ MODULE CanaryEvidenceProofs ------------------------
(***************************************************************************)
(* What a canary's evidence is worth, for any capture limit, output and    *)
(* history: the proofs of the properties of ProcessObservation and of      *)
(* CanaryEvidence, in that order.                                          *)
(***************************************************************************)
EXTENDS CanaryEvidence, FiniteSetTheorems, TLAPS

USE DEF Streams

-----------------------------------------------------------------------------
(* The observation. *)

Places ==
  {"idle", "spawn", "wait", "read", "decide", "kill", "finally", "reap", "reapLast",
   "drain", "observe", "judged", "recorded"}
Outcomes == {"verified", "failed", "not_measured"}
Observations ==
  [executed : BOOLEAN,
   kind : {"spawn_error", "timeout", "capture_limit", "capture_error",
           "none", "expected", "other", "signal"},
   complete : BOOLEAN, unchanged : BOOLEAN, matched : BOOLEAN,
   artifact : {"none", "match", "mismatch"}, verifiable : BOOLEAN, before : BOOLEAN,
   captured : Nat, outcome : Outcomes]

ObsTyped ==
  /\ proc \in [Holders -> {"none", "running", "detached", "zombie", "gone"}]
  /\ status \in {"none", "expected", "other", "signal"}
  /\ sent \in [Streams -> Nat] /\ got \in [Streams -> Nat] /\ pending \in [Streams -> Nat]
  /\ open \in SUBSET Streams /\ overflow \in BOOLEAN /\ info \in BOOLEAN
  /\ world \in [exec : {"pinned", "other"}, artifact : {"none", "match", "mismatch"}]
  /\ ran \in {"none", "pinned", "other"}
  /\ pc \in Places
  /\ result \in Observations

\* Every unit a holder wrote is captured, in the pipe, or was cut off by the cap.
Pipes ==
  /\ \A s \in Streams : got[s] + pending[s] <= sent[s] /\ sent[s] <= MaxBytes
  /\ ~overflow => \A s \in Streams : got[s] + pending[s] = sent[s]
  /\ Captured <= Cap
  /\ result.executed => \A s \in Streams \ open : pending[s] = 0 /\ Writers = {}

\* What the leader's end says, and where it has been seen.
Leader ==
  /\ proc["leader"] \in {"zombie", "gone"} => status # "none"
  /\ info => proc["leader"] \in {"zombie", "gone"}
  /\ pc \in {"idle", "spawn"} =>
       /\ proc["leader"] = "none" /\ ~info /\ ~result.executed
       /\ result.kind = "spawn_error"
  /\ pc \in {"wait", "read", "decide", "kill", "reap", "drain", "finally", "reapLast"} =>
       result.executed
  /\ result.kind = "expected" =>
       /\ pc \in {"kill", "reap", "drain", "observe", "judged"}
       /\ proc["leader"] \in {"zombie", "gone"} /\ status = "expected"

\* What the observation may say of the capture and of the bytes that ran.
Told ==
  /\ result.executed /\ world.exec = "pinned" => ran = "pinned"
  /\ pc \in {"kill", "reap", "drain"} /\ overflow => result.kind = "capture_limit"
  /\ result.complete =>
       pc \in {"observe", "judged"} /\ ~overflow /\ open = {} /\ result.executed
  /\ pc = "judged" /\ result.outcome = "verified" =>
       /\ result.executed /\ result.complete /\ result.kind = "expected"
       /\ world.exec = "pinned"

ObsInv == ObsTyped /\ Pipes /\ Leader /\ Told

LEMMA MinPair ==
  ASSUME NEW a \in Nat, NEW b \in Nat
  PROVE  Min({a, b}) = IF a <= b THEN a ELSE b
  BY DEF Min

LEMMA InitObsInv == ObsInit => ObsInv
<1> SUFFICES ASSUME ObsInit PROVE ObsInv
  OBVIOUS
<1>1. ObsTyped
  BY DEF ObsInit, ObsTyped, Idle, Zero, NoResult, Observations, Outcomes, Places, Holders
<1>2. Pipes
  BY ObservationAssumption DEF ObsInit, Pipes, Captured, Zero, NoResult
<1>3. Leader /\ Told
  BY DEF ObsInit, Leader, Told, Idle, NoResult, Holders
<1> QED
  BY <1>1, <1>2, <1>3 DEF ObsInv


\* One block is read from a stream: what does not fit is cut off.
LEMMA BlockRead ==
  ASSUME ObsTyped, Pipes, NEW s \in open, ReadBlock(s)
  PROVE  /\ got' \in [Streams -> Nat] /\ pending' \in [Streams -> Nat]
         /\ overflow' \in BOOLEAN /\ open' = open
         /\ \A x \in Streams : got'[x] + pending'[x] <= got[x] + pending[x]
         /\ ~overflow' => ~overflow /\ \A x \in Streams : got'[x] + pending'[x] = got[x] + pending[x]
         /\ overflow' => overflow \/ pending[s] > Cap - Captured
         /\ \A x \in Streams : pending[x] = 0 => pending'[x] = 0
         /\ got'["stdout"] + got'["stderr"] <= Cap
<1> DEFINE room == Cap - Captured
           block == IF pending[s] <= room THEN pending[s] ELSE room
<1>1. /\ s \in Streams /\ Captured \in Nat /\ Captured <= Cap /\ room \in Nat
      /\ pending[s] \in Nat /\ got[s] \in Nat
  BY ObservationAssumption DEF ObsTyped, Pipes, Captured
<1>2. Min({pending[s], room}) = block
  BY <1>1, MinPair
<1>3. /\ got' = [got EXCEPT ![s] = got[s] + block]
      /\ pending' = [pending EXCEPT ![s] = 0]
      /\ overflow' = (overflow \/ pending[s] > room) /\ open' = open
  BY <1>2 DEF ReadBlock
<1>4. block \in Nat /\ block <= pending[s] /\ block <= room
  BY <1>1
<1>5. pending[s] <= room => block = pending[s]
  OBVIOUS
<1>6. got \in [Streams -> Nat] /\ pending \in [Streams -> Nat] /\ overflow \in BOOLEAN
  BY DEF ObsTyped
<1>7. room + got["stdout"] + got["stderr"] = Cap
  BY <1>1, <1>6, ObservationAssumption DEF Captured
<1> HIDE DEF room, block
<1>8. got' \in [Streams -> Nat] /\ pending' \in [Streams -> Nat] /\ overflow' \in BOOLEAN
  BY <1>1, <1>3, <1>4, <1>6
<1>9. \A x \in Streams : got'[x] + pending'[x] <= got[x] + pending[x]
  BY <1>1, <1>3, <1>4, <1>6
<1>10. ~overflow' => ~overflow /\ \A x \in Streams : got'[x] + pending'[x] = got[x] + pending[x]
  <2> SUFFICES ASSUME ~overflow'
               PROVE  ~overflow /\ \A x \in Streams : got'[x] + pending'[x] = got[x] + pending[x]
    OBVIOUS
  <2>1. ~overflow /\ ~(pending[s] > room)
    BY <1>3, Zenon
  <2>3. pending[s] <= room
    BY <1>1, <2>1
  <2>2. block = pending[s]
    BY <1>5, <2>3
  <2> QED
    BY <1>1, <1>3, <1>6, <2>1, <2>2
<1>11. got'["stdout"] + got'["stderr"] <= Cap
  BY <1>1, <1>3, <1>4, <1>6, <1>7
<1>12. overflow' => overflow \/ pending[s] > Cap - Captured
  BY <1>3 DEF room
<1>13. \A x \in Streams : pending[x] = 0 => pending'[x] = 0
  BY <1>3, <1>6
<1> QED
  BY <1>3, <1>8, <1>9, <1>10, <1>11, <1>12, <1>13


\* A round of reading: a block, the end of a stream, or nothing.
ReadRound ==
  \/ \E s \in open : (pending[s] > 0 /\ ReadBlock(s)) \/ Unregister(s)
  \/ UNCHANGED <<got, overflow, pending, open>>

LEMMA RoundRead ==
  ASSUME ObsTyped, Pipes, ReadRound
  PROVE  /\ got' \in [Streams -> Nat] /\ pending' \in [Streams -> Nat]
         /\ overflow' \in BOOLEAN /\ open' \subseteq open
         /\ \A x \in Streams : got'[x] + pending'[x] <= got[x] + pending[x]
         /\ ~overflow' => ~overflow /\ \A x \in Streams : got'[x] + pending'[x] = got[x] + pending[x]
         /\ got'["stdout"] + got'["stderr"] <= Cap
         /\ \A x \in Streams : pending[x] = 0 => pending'[x] = 0
         /\ \A x \in open \ open' : pending'[x] = 0 /\ Writers = {}
<1>1. ASSUME NEW s \in open, ReadBlock(s)
      PROVE  /\ got' \in [Streams -> Nat] /\ pending' \in [Streams -> Nat]
             /\ overflow' \in BOOLEAN /\ open' = open
             /\ \A x \in Streams : got'[x] + pending'[x] <= got[x] + pending[x]
             /\ ~overflow' => ~overflow /\ \A x \in Streams : got'[x] + pending'[x] = got[x] + pending[x]
             /\ got'["stdout"] + got'["stderr"] <= Cap
             /\ \A x \in Streams : pending[x] = 0 => pending'[x] = 0
  BY <1>1, BlockRead
<1>2. ASSUME NEW s \in open, Unregister(s)
      PROVE  /\ UNCHANGED <<got, overflow, pending>> /\ open' \subseteq open
             /\ \A x \in open \ open' : pending[x] = 0 /\ Writers = {}
  BY <1>2 DEF Unregister, EOF
<1>3. CASE \E s \in open : ReadBlock(s)
  BY <1>1, <1>3
<1>4. CASE \E s \in open : Unregister(s)
  BY <1>2, <1>4 DEF ObsTyped, Pipes, Captured
<1>5. CASE UNCHANGED <<got, overflow, pending, open>>
  BY <1>5 DEF ObsTyped, Pipes, Captured
<1> QED
  BY <1>3, <1>4, <1>5 DEF ReadRound

\* The processes and the other users of the machine keep it.
LEMMA EnvironmentKeepsObs ==
  ASSUME ObsInv, Environment
  PROVE  ObsInv'
<1>0. ObsTyped /\ Pipes /\ Leader /\ Told
  BY DEF ObsInv
<1>1. ASSUME NEW h \in Holders, NEW s \in Streams, Write(h, s) PROVE ObsInv'
  <2>1. ObsTyped'
    BY <1>0, <1>1 DEF ObsTyped, Write, Holders, Places, Observations, Outcomes
  <2>2. Pipes'
    <3>1. /\ sent' \in [Streams -> Nat] /\ pending' \in [Streams -> Nat]
          /\ \A x \in Streams : sent'[x] <= MaxBytes
          /\ \A x \in Streams :
               (got[x] + pending[x] <= sent[x] => got'[x] + pending'[x] <= sent'[x])
          /\ \A x \in Streams :
               (got[x] + pending[x] = sent[x] => got'[x] + pending'[x] = sent'[x])
      BY <1>0, <1>1, ObservationAssumption DEF ObsTyped, Pipes, Write
    <3>2. h \in Writers
      BY <1>1 DEF Write, Writers
    <3>3. ~result.executed \/ open = Streams
      BY <1>0, <3>2 DEF Pipes, ObsTyped
    <3>4. UNCHANGED <<proc, got, open, overflow>> /\ result' = result
      BY <1>1 DEF Write
    <3>5. Captured' = Captured /\ Writers' = Writers
      BY <3>4 DEF Captured, Writers
    <3>9. /\ \A x \in Streams : got[x] + pending[x] <= sent[x]
          /\ ~overflow => \A x \in Streams : got[x] + pending[x] = sent[x]
      BY <1>0 DEF Pipes
    <3>6. \A x \in Streams : got'[x] + pending'[x] <= sent'[x] /\ sent'[x] <= MaxBytes
      BY <3>1, <3>9, Zenon
    <3>7. ~overflow' => \A x \in Streams : got'[x] + pending'[x] = sent'[x]
      BY <3>1, <3>4, <3>9, Zenon
    <3>8. result'.executed => Streams \ open' = {}
      BY <3>3, <3>4
    <3> QED
      BY <1>0, <3>5, <3>6, <3>7, <3>8 DEF Pipes
  <2>3. Leader'
    BY <1>0, <1>1 DEF ObsTyped, Leader, Write, Holders, Observations
  <2>4. Told'
    BY <1>0, <1>1 DEF ObsTyped, Leader, Told, Pipes, Write, Holders, Observations
  <2> QED
    BY <2>1, <2>2, <2>3, <2>4 DEF ObsInv
<1>2. ASSUME NEW h \in {"helper", "escapee"}, Fork(h) PROVE ObsInv'
  <2>1. ObsTyped'
    BY <1>0, <1>2 DEF ObsTyped, Fork, Holders, Places, Observations, Outcomes
  <2>2. Pipes'
    BY <1>0, <1>2 DEF ObsTyped, Pipes, Leader, Fork, Writers, Captured, Holders, Observations
  <2>3. Leader'
    BY <1>0, <1>2 DEF ObsTyped, Leader, Fork, Holders, Observations
  <2>4. Told'
    BY <1>0, <1>2 DEF ObsTyped, Leader, Told, Pipes, Fork, Holders, Observations
  <2> QED
    BY <2>1, <2>2, <2>3, <2>4 DEF ObsInv
<1>3. ASSUME NEW h \in {"helper", "escapee"}, OtherExits(h) PROVE ObsInv'
  <2>1. ObsTyped'
    BY <1>0, <1>3 DEF ObsTyped, OtherExits, Holders, Places, Observations, Outcomes
  <2>2. Pipes'
    BY <1>0, <1>3 DEF ObsTyped, Pipes, Leader, OtherExits, Writers, Captured, Holders, Observations
  <2>3. Leader'
    BY <1>0, <1>3 DEF ObsTyped, Leader, OtherExits, Holders, Observations
  <2>4. Told'
    BY <1>0, <1>3 DEF ObsTyped, Leader, Told, Pipes, OtherExits, Holders, Observations
  <2> QED
    BY <2>1, <2>2, <2>3, <2>4 DEF ObsInv
<1>4. ASSUME NEW how \in {"expected", "other", "signal"}, LeaderExits(how) PROVE ObsInv'
  <2>1. ObsTyped'
    BY <1>0, <1>4 DEF ObsTyped, LeaderExits, Holders, Places, Observations, Outcomes
  <2>2. Pipes'
    BY <1>0, <1>4 DEF ObsTyped, Pipes, Leader, LeaderExits, Writers, Captured, Holders, Observations
  <2>3. Leader'
    BY <1>0, <1>4 DEF ObsTyped, Leader, LeaderExits, Holders, Observations
  <2>4. Told'
    BY <1>0, <1>4 DEF ObsTyped, Leader, Told, Pipes, LeaderExits, Holders, Observations
  <2> QED
    BY <2>1, <2>2, <2>3, <2>4 DEF ObsInv
<1>5. ASSUME NEW how \in {"match", "mismatch"}, WriteArtifact(how) PROVE ObsInv'
  <2>1. ObsTyped'
    BY <1>0, <1>5 DEF ObsTyped, WriteArtifact, Holders, Places, Observations, Outcomes
  <2>2. Pipes'
    BY <1>0, <1>5 DEF ObsTyped, Pipes, Leader, WriteArtifact, Writers, Captured, Holders, Observations
  <2>3. Leader'
    BY <1>0, <1>5 DEF ObsTyped, Leader, WriteArtifact, Holders, Observations
  <2>4. Told'
    BY <1>0, <1>5 DEF ObsTyped, Leader, Told, Pipes, WriteArtifact, Holders, Observations
  <2> QED
    BY <2>1, <2>2, <2>3, <2>4 DEF ObsInv
<1>6. ASSUME Detach PROVE ObsInv'
  <2>1. ObsTyped'
    BY <1>0, <1>6 DEF ObsTyped, Detach, Holders, Places, Observations, Outcomes
  <2>2. Pipes'
    BY <1>0, <1>6 DEF ObsTyped, Pipes, Leader, Detach, Writers, Captured, Holders, Observations
  <2>3. Leader'
    BY <1>0, <1>6 DEF ObsTyped, Leader, Detach, Holders, Observations
  <2>4. Told'
    BY <1>0, <1>6 DEF ObsTyped, Leader, Told, Pipes, Detach, Holders, Observations
  <2> QED
    BY <2>1, <2>2, <2>3, <2>4 DEF ObsInv
<1>7. ASSUME Rewrite PROVE ObsInv'
  <2>1. ObsTyped'
    BY <1>0, <1>7 DEF ObsTyped, Rewrite, Holders, Places, Observations, Outcomes
  <2>2. Pipes'
    BY <1>0, <1>7 DEF ObsTyped, Pipes, Leader, Rewrite, Writers, Captured, Holders, Observations
  <2>3. Leader'
    BY <1>0, <1>7 DEF ObsTyped, Leader, Rewrite, Holders, Observations
  <2>4. Told'
    BY <1>0, <1>7 DEF ObsTyped, Leader, Told, Pipes, Rewrite, Holders, Observations
  <2> QED
    BY <2>1, <2>2, <2>3, <2>4 DEF ObsInv
<1> QED
  BY <1>1, <1>2, <1>3, <1>4, <1>5, <1>6, <1>7 DEF Environment

\* The observer keeps it.
LEMMA RunKeepsObs ==
  ASSUME ObsInv, Run
  PROVE  ObsInv'
<1>0. ObsTyped /\ Pipes /\ Leader /\ Told
  BY DEF ObsInv
<1>1. ASSUME Digest PROVE ObsInv'
  <2>1. ObsTyped'
    <3>1. NoResult \in Observations
      BY DEF NoResult, Observations, Outcomes
    <3>2. result' \in Observations
      BY <1>1, <3>1 DEF Digest, Observations
    <3>3. pc' \in Places
      BY <1>1 DEF Digest, Places
    <3> QED
      BY <1>0, <1>1, <3>2, <3>3 DEF ObsTyped, Digest
  <2>2. Pipes'
    BY <1>0, <1>1 DEF ObsTyped, Pipes, Leader, Digest, NoResult, Writers, Captured, Holders, Observations
  <2>3. Leader'
    BY <1>0, <1>1 DEF ObsTyped, Leader, Digest, NoResult, Holders, Observations
  <2>4. Told'
    BY <1>0, <1>1 DEF ObsTyped, Leader, Told, Pipes, Digest, NoResult, Holders, Observations
  <2> QED
    BY <2>1, <2>2, <2>3, <2>4 DEF ObsInv
<1>2. ASSUME Spawn PROVE ObsInv'
  <2>1. ObsTyped'
    <3>1. result' \in Observations
      BY <1>0, <1>2 DEF ObsTyped, Spawn, Observations
    <3>2. pc' \in Places /\ ran' \in {"none", "pinned", "other"} /\ open' \in SUBSET Streams
      BY <1>0, <1>2 DEF ObsTyped, Spawn, Places
    <3>3. proc' \in [Holders -> {"none", "running", "detached", "zombie", "gone"}]
      BY <1>0, <1>2 DEF ObsTyped, Spawn, Holders
    <3> QED
      BY <1>0, <1>2, <3>1, <3>2, <3>3 DEF ObsTyped, Spawn
  <2>2. Pipes'
    BY <1>0, <1>2 DEF ObsTyped, Pipes, Leader, Spawn, Writers, Captured, Holders, Observations
  <2>3. Leader'
    BY <1>0, <1>2 DEF ObsTyped, Leader, Spawn, Holders, Observations
  <2>4. Told'
    BY <1>0, <1>2 DEF ObsTyped, Leader, Told, Pipes, Spawn, Holders, Observations
  <2> QED
    BY <2>1, <2>2, <2>3, <2>4 DEF ObsInv
<1>3. ASSUME WaitId PROVE ObsInv'
  <2>1. ObsTyped'
    BY <1>0, <1>3 DEF ObsTyped, WaitId, Holders, Places, Observations, Outcomes
  <2>2. Pipes'
    BY <1>0, <1>3 DEF ObsTyped, Pipes, Leader, WaitId, Writers, Captured, Holders, Observations
  <2>3. Leader'
    BY <1>0, <1>3 DEF ObsTyped, Leader, WaitId, Holders, Observations
  <2>4. Told'
    BY <1>0, <1>3 DEF ObsTyped, Leader, Told, Pipes, WaitId, Holders, Observations
  <2> QED
    BY <2>1, <2>2, <2>3, <2>4 DEF ObsInv
<1>4. ASSUME Read PROVE ObsInv'
  <2>1. ObsTyped'
    <3>1. ReadRound
      BY <1>4 DEF Read, ReadRound
    <3>2. pc' \in Places
      BY <1>0, <1>4 DEF ObsTyped, Read, Places
    <3>3. /\ got' \in [Streams -> Nat] /\ pending' \in [Streams -> Nat]
          /\ overflow' \in BOOLEAN /\ open' \subseteq open
      BY <1>0, <3>1, RoundRead
    <3> QED
      BY <1>0, <1>4, <3>2, <3>3 DEF ObsTyped, Read
  <2>2. Pipes'
    <3>1. ReadRound
      BY <1>4 DEF Read, ReadRound
    <3>2. UNCHANGED <<sent, proc>> /\ result'.executed = result.executed
      BY <1>0, <1>4 DEF Read, ObsTyped, Observations
    <3>3. Writers' = Writers /\ Captured' = got'["stdout"] + got'["stderr"]
      BY <3>2 DEF Writers, Captured
    <3>4. /\ got' \in [Streams -> Nat] /\ pending' \in [Streams -> Nat]
          /\ \A x \in Streams : got'[x] + pending'[x] <= got[x] + pending[x]
          /\ ~overflow' => ~overflow /\ \A x \in Streams : got'[x] + pending'[x] = got[x] + pending[x]
          /\ got'["stdout"] + got'["stderr"] <= Cap
          /\ \A x \in Streams : pending[x] = 0 => pending'[x] = 0
          /\ \A x \in open \ open' : pending'[x] = 0 /\ Writers = {}
      BY <1>0, <3>1, RoundRead
    <3>5. \A s \in Streams : got'[s] + pending'[s] <= sent'[s] /\ sent'[s] <= MaxBytes
      BY <1>0, <3>2, <3>4, ObservationAssumption DEF ObsTyped, Pipes
    <3>6. ~overflow' => \A s \in Streams : got'[s] + pending'[s] = sent'[s]
      BY <1>0, <3>2, <3>4 DEF Pipes
    <3>7. result'.executed => \A s \in Streams \ open' : pending'[s] = 0 /\ Writers' = {}
      BY <1>0, <3>2, <3>3, <3>4 DEF Pipes
    <3> QED
      BY <3>3, <3>4, <3>5, <3>6, <3>7 DEF Pipes
  <2>3. Leader'
    BY <1>0, <1>4 DEF ObsTyped, Leader, Read, Unregister, EOF, Holders, Observations
  <2>4. Told'
    BY <1>0, <1>4 DEF ObsTyped, Leader, Told, Pipes, Read, Unregister, EOF, Holders, Observations
  <2> QED
    BY <2>1, <2>2, <2>3, <2>4 DEF ObsInv
<1>5. ASSUME Decide PROVE ObsInv'
  <2>1. ObsTyped'
    BY <1>0, <1>5 DEF ObsTyped, Decide, Holders, Places, Observations, Outcomes
  <2>2. Pipes'
    BY <1>0, <1>5 DEF ObsTyped, Pipes, Leader, Decide, Writers, Captured, Holders, Observations
  <2>3. Leader'
    BY <1>0, <1>5 DEF ObsTyped, Leader, Decide, Holders, Observations
  <2>4. Told'
    BY <1>0, <1>5 DEF ObsTyped, Leader, Told, Pipes, Decide, Holders, Observations
  <2> QED
    BY <2>1, <2>2, <2>3, <2>4 DEF ObsInv
<1>6. ASSUME CaptureError PROVE ObsInv'
  <2>1. ObsTyped'
    BY <1>0, <1>6 DEF ObsTyped, CaptureError, Holders, Places, Observations, Outcomes
  <2>2. Pipes'
    BY <1>0, <1>6 DEF ObsTyped, Pipes, Leader, CaptureError, Writers, Captured, Holders, Observations
  <2>3. Leader'
    BY <1>0, <1>6 DEF ObsTyped, Leader, CaptureError, Holders, Observations
  <2>4. Told'
    BY <1>0, <1>6 DEF ObsTyped, Leader, Told, Pipes, CaptureError, Holders, Observations
  <2> QED
    BY <2>1, <2>2, <2>3, <2>4 DEF ObsInv
<1>7. ASSUME KillGroup PROVE ObsInv'
  <2>1. ObsTyped'
    BY <1>0, <1>7 DEF ObsTyped, KillGroup, Killed, Group, Holders, Places, Observations, Outcomes
  <2>2. Pipes'
    BY <1>0, <1>7 DEF ObsTyped, Pipes, Leader, KillGroup, Killed, Group, Writers, Captured, Holders, Observations
  <2>3. Leader'
    BY <1>0, <1>7 DEF ObsTyped, Leader, KillGroup, Killed, Group, Holders, Observations
  <2>4. Told'
    BY <1>0, <1>7 DEF ObsTyped, Leader, Told, Pipes, KillGroup, Killed, Group, Holders, Observations
  <2> QED
    BY <2>1, <2>2, <2>3, <2>4 DEF ObsInv
<1>8. ASSUME Reap PROVE ObsInv'
  <2>1. ObsTyped'
    BY <1>0, <1>8 DEF ObsTyped, Reap, Holders, Places, Observations, Outcomes
  <2>2. Pipes'
    BY <1>0, <1>8 DEF ObsTyped, Pipes, Leader, Reap, Writers, Captured, Holders, Observations
  <2>3. Leader'
    BY <1>0, <1>8 DEF ObsTyped, Leader, Reap, Holders, Observations
  <2>4. Told'
    BY <1>0, <1>8 DEF ObsTyped, Leader, Told, Pipes, Reap, Holders, Observations
  <2> QED
    BY <2>1, <2>2, <2>3, <2>4 DEF ObsInv
<1>9. ASSUME Drain PROVE ObsInv'
  <2>1. ObsTyped'
    <3>1. ReadRound
      BY <1>9 DEF Drain, ReadRound
    <3>2. pc' \in Places
      BY <1>0, <1>9 DEF ObsTyped, Drain, Places
    <3>3. /\ got' \in [Streams -> Nat] /\ pending' \in [Streams -> Nat]
          /\ overflow' \in BOOLEAN /\ open' \subseteq open
      BY <1>0, <3>1, RoundRead
    <3>4. result' \in Observations
      <4>1. \A b \in BOOLEAN : [result EXCEPT !.complete = b] \in Observations
        BY <1>0 DEF ObsTyped, Observations
      <4>2. [result EXCEPT !.kind = "capture_limit"] \in Observations /\ result \in Observations
        BY <1>0 DEF ObsTyped, Observations
      <4>3. (open = {} /\ result.kind # "capture_limit") \in BOOLEAN
        OBVIOUS
      <4> QED
        BY <1>9, <4>1, <4>2, <4>3 DEF Drain
    <3> QED
      BY <1>0, <1>9, <3>2, <3>3, <3>4 DEF ObsTyped, Drain
  <2>2. Pipes'
    <3>1. ReadRound
      BY <1>9 DEF Drain, ReadRound
    <3>2. UNCHANGED <<sent, proc>> /\ result'.executed = result.executed
      BY <1>0, <1>9 DEF Drain, ObsTyped, Observations
    <3>3. Writers' = Writers /\ Captured' = got'["stdout"] + got'["stderr"]
      BY <3>2 DEF Writers, Captured
    <3>4. /\ got' \in [Streams -> Nat] /\ pending' \in [Streams -> Nat]
          /\ \A x \in Streams : got'[x] + pending'[x] <= got[x] + pending[x]
          /\ ~overflow' => ~overflow /\ \A x \in Streams : got'[x] + pending'[x] = got[x] + pending[x]
          /\ got'["stdout"] + got'["stderr"] <= Cap
          /\ \A x \in Streams : pending[x] = 0 => pending'[x] = 0
          /\ \A x \in open \ open' : pending'[x] = 0 /\ Writers = {}
      BY <1>0, <3>1, RoundRead
    <3>5. \A s \in Streams : got'[s] + pending'[s] <= sent'[s] /\ sent'[s] <= MaxBytes
      BY <1>0, <3>2, <3>4, ObservationAssumption DEF ObsTyped, Pipes
    <3>6. ~overflow' => \A s \in Streams : got'[s] + pending'[s] = sent'[s]
      BY <1>0, <3>2, <3>4 DEF Pipes
    <3>7. result'.executed => \A s \in Streams \ open' : pending'[s] = 0 /\ Writers' = {}
      BY <1>0, <3>2, <3>3, <3>4 DEF Pipes
    <3> QED
      BY <3>3, <3>4, <3>5, <3>6, <3>7 DEF Pipes
  <2>3. Leader'
    BY <1>0, <1>9 DEF ObsTyped, Leader, Drain, Unregister, EOF, Holders, Observations
  <2>4. Told'
    <3>1. pc = "drain" /\ UNCHANGED <<world, ran>> /\ result.executed /\ ~result.complete
      BY <1>0, <1>9 DEF Drain, Leader, Told, ObsTyped, Observations
    <3>2. CASE pc' = "observe"
      BY <1>0, <1>9, <3>1, <3>2 DEF Drain, Told, ObsTyped, Observations
    <3>3. ASSUME NEW s \in open, ReadBlock(s), UNCHANGED pc,
                 result' = IF pending[s] > Cap - Captured
                           THEN [result EXCEPT !.kind = "capture_limit"] ELSE result
          PROVE  Told'
      <4>1. overflow' => overflow \/ pending[s] > Cap - Captured
        BY <1>0, <3>3, BlockRead
      <4>2. overflow' => result'.kind = "capture_limit"
        BY <1>0, <3>1, <3>3, <4>1 DEF Told, ObsTyped, Observations
      <4> QED
        BY <1>0, <3>1, <3>3, <4>2 DEF Told, ObsTyped, Observations
    <3>4. ASSUME NEW s \in open, Unregister(s), UNCHANGED <<result, pc>> PROVE Told'
      BY <1>0, <3>1, <3>4 DEF Told, Unregister
    <3> QED
      BY <1>9, <3>2, <3>3, <3>4 DEF Drain
  <2> QED
    BY <2>1, <2>2, <2>3, <2>4 DEF ObsInv
<1>10. ASSUME Observe PROVE ObsInv'
  <2>1. ObsTyped'
    <3>1. pc' \in Places
      BY <1>10 DEF Observe, Places
    <3>2. Captured \in Nat /\ world.artifact \in {"none", "match", "mismatch"}
      BY <1>0 DEF ObsTyped, Captured
    <3> DEFINE seen == [result EXCEPT !.artifact = world.artifact,
                                      !.verifiable = (world.artifact # "none"),
                                      !.unchanged = (result.before /\ world.exec = "pinned"),
                                      !.matched = (got["stdout"] >= Wanted),
                                      !.captured = Captured]
    <3>7. \A r \in Observations, a \in {"none", "match", "mismatch"}, n \in Nat,
             v \in BOOLEAN, u \in BOOLEAN, m \in BOOLEAN :
            [r EXCEPT !.artifact = a, !.verifiable = v, !.unchanged = u,
                      !.matched = m, !.captured = n] \in Observations
      <4> SUFFICES ASSUME NEW r \in Observations, NEW a \in {"none", "match", "mismatch"},
                          NEW n \in Nat, NEW v \in BOOLEAN, NEW u \in BOOLEAN, NEW m \in BOOLEAN
                   PROVE  [r EXCEPT !.artifact = a, !.verifiable = v, !.unchanged = u,
                                    !.matched = m, !.captured = n] \in Observations
        OBVIOUS
      <4> DEFINE r1 == [r EXCEPT !.artifact = a]
                 r2 == [r1 EXCEPT !.verifiable = v]
                 r3 == [r2 EXCEPT !.unchanged = u]
                 r4 == [r3 EXCEPT !.matched = m]
                 r5 == [r4 EXCEPT !.captured = n]
      <4>1. r1 \in Observations
        BY DEF Observations
      <4>2. r2 \in Observations
        <5> HIDE DEF r1
        <5> QED
          BY <4>1 DEF Observations
      <4>3. r3 \in Observations
        <5> HIDE DEF r2
        <5> QED
          BY <4>2 DEF Observations
      <4>4. r4 \in Observations
        <5> HIDE DEF r3
        <5> QED
          BY <4>3 DEF Observations
      <4>5. r5 \in Observations
        <5> HIDE DEF r4
        <5> QED
          BY <4>4 DEF Observations
      <4> QED
        BY <4>5
    <3>3. seen \in Observations
      <4>1. result \in Observations /\ (world.artifact # "none") \in BOOLEAN
            /\ (result.before /\ world.exec = "pinned") \in BOOLEAN
            /\ (got["stdout"] >= Wanted) \in BOOLEAN
        BY <1>0 DEF ObsTyped
      <4> QED
        BY <3>2, <3>7, <4>1, ZenonT(60)
    <3>4. ExpectedOutcome(seen) \in Outcomes
      BY DEF ExpectedOutcome, Outcomes
    <3>5. result' = [seen EXCEPT !.outcome = ExpectedOutcome(seen)]
      BY <1>10 DEF Observe
    <3> HIDE DEF seen
    <3>6. result' \in Observations
      BY <3>3, <3>4, <3>5 DEF Observations
    <3> QED
      BY <1>0, <1>10, <3>1, <3>6 DEF ObsTyped, Observe
  <2>2. Pipes'
    BY <1>0, <1>10 DEF ObsTyped, Pipes, Leader, Observe, ExpectedOutcome, Writers, Captured, Holders, Observations
  <2>3. Leader'
    BY <1>0, <1>10 DEF ObsTyped, Leader, Observe, ExpectedOutcome, Holders, Observations
  <2>4. Told'
    BY <1>0, <1>10 DEF ObsTyped, Leader, Told, Pipes, Observe, ExpectedOutcome, Holders, Observations
  <2> QED
    BY <2>1, <2>2, <2>3, <2>4 DEF ObsInv
<1> QED
  BY <1>1, <1>2, <1>3, <1>4, <1>5, <1>6, <1>7, <1>8, <1>9, <1>10 DEF Run

\* What an observation that ends in "verified" has seen.
LEMMA ObsSaw == ObsInv => VerifiedSawEverything
<1> SUFFICES ASSUME ObsInv, pc = "judged", result.outcome = "verified"
             PROVE  /\ status = "expected" /\ ran = "pinned" /\ world.exec = "pinned"
                    /\ Writers = {} /\ got = sent /\ Captured <= Cap
  BY DEF VerifiedSawEverything
<1>1. /\ result.executed /\ result.complete /\ result.kind = "expected"
      /\ world.exec = "pinned"
  BY DEF ObsInv, Told
<1>2. ~overflow /\ open = {} /\ ran = "pinned"
  BY <1>1 DEF ObsInv, Told
<1>3. status = "expected"
  BY <1>1 DEF ObsInv, Leader
<1>4. /\ \A s \in Streams : pending[s] = 0 /\ got[s] + pending[s] = sent[s]
      /\ Writers = {} /\ Captured <= Cap
  BY <1>1, <1>2 DEF ObsInv, Pipes
<1>5. got \in [Streams -> Nat] /\ sent \in [Streams -> Nat]
  BY DEF ObsInv, ObsTyped
<1>6. got = sent
  BY <1>4, <1>5
<1> QED
  BY <1>1, <1>2, <1>3, <1>4, <1>6

\* Every step of the observation and of its surroundings.
LEMMA StepObsInv == ObsInv /\ (Environment \/ Run) => ObsInv'
  BY EnvironmentKeepsObs, RunKeepsObs

-----------------------------------------------------------------------------
(* The history. *)

Entries == [mode : {"none", "file", "exec"}, v : Nat, atts : Seq(Nat)]
Trees == [Paths -> Entries]
Commits == [tree : Trees, side : Nat, anc : SUBSET Nat, line : SUBSET Nat]

\* A log of commits: every one descends from the first, and from none that is
\* not in the log; the second is the one the probe ran on.
Grown(l) ==
  /\ l \in Seq(Commits) /\ Len(l) >= 2 /\ l[2].tree = RootTree
  /\ \A c \in 1..Len(l) :
       /\ {1, c} \subseteq l[c].anc /\ l[c].anc \subseteq 1..Len(l)
       /\ 1 \in l[c].line /\ l[c].line \subseteq 1..Len(l)

GitTyped ==
  /\ Grown(commits)
  /\ head \in 1..Len(commits) /\ base \in 1..Len(commits)
  /\ nextV \in 2..(MaxVersion + 1) /\ authored \in SUBSET (2..(nextV - 1))
  /\ measured \in {0, 2}
  /\ cashed.errors \in BOOLEAN

\* The base branch holds nothing that was written for the topic.
BaseIsOthers ==
  \A c \in commits[base].anc : \A p \in Code :
    Tree(c)[p].v < nextV /\ Tree(c)[p].v \notin authored

\* Before the probe has run nothing is committed or recorded; afterwards its
\* document says of the observation what was seen.
Record ==
  /\ measured = 0 => head = 2 /\ cashed = NotCashed /\ ObsInv
  /\ measured # 0 =>
       /\ pc = "recorded" /\ got = Zero /\ pending = Zero /\ sent = Zero
       /\ doc.outcome = "verified" => doc.saw /\ result.outcome = "verified"

\* An answer of consume() without errors still is its answer.
Cashing ==
  ~cashed.errors =>
    /\ measured # 0
    /\ \E dirty \in BOOLEAN, ref \in {0, base}, h \in Hosts :
         /\ ~ConsumeErrors(head, dirty, ref, h)
         /\ cashed.fresh = ~FreshnessNotMeasured(result, h) /\ cashed.host = h.tree

EvInv == GitTyped /\ BaseIsOthers /\ Record /\ Cashing

\* The greatest of some of the first numbers.
LEMMA MaxIn ==
  ASSUME NEW n \in Nat, NEW S \in SUBSET (0..n), S # {}
  PROVE  Max(S) \in S
<1> DEFINE D == {n - x : x \in S}
<1>1. D \subseteq Nat /\ D # {}
  <2>1. \A x \in S : n - x \in Nat
    OBVIOUS
  <2>2. PICK x \in S : TRUE
    OBVIOUS
  <2>3. n - x \in D
    BY <2>2
  <2> QED
    BY <2>1, <2>3
<1>2. PICK d \in D : \A e \in D : ~(<<e, d>> \in OpToRel(<, Nat))
  BY <1>1, NatLessThanWellFounded, WFMin
<1>3. PICK m \in S : d = n - m
  BY <1>2
<1>4. \A y \in S : m >= y
  <2> SUFFICES ASSUME NEW y \in S PROVE m >= y
    OBVIOUS
  <2>1. ~(<<n - y, d>> \in OpToRel(<, Nat)) /\ n - y \in Nat /\ d \in Nat
    BY <1>1, <1>2
  <2>2. ~(n - y < d)
    BY <2>1 DEF OpToRel
  <2> QED
    BY <1>3, <2>2
<1> QED
  BY <1>3, <1>4 DEF Max

LEMMA Files ==
  /\ \A v \in Nat : File(v) \in Entries /\ File(v).v = v
  /\ Absent \in Entries /\ RootTree \in Trees
  /\ \A p \in Code : p \in Paths /\ RootTree[p].v = 0
<1>1. << >> \in Seq(Nat)
  OBVIOUS
<1>2. /\ \A v \in Nat : File(v) \in Entries /\ File(v).v = v
      /\ Absent \in Entries
  BY <1>1 DEF File, Absent, Entries
<1>3. RootTree \in Trees
  BY <1>2 DEF RootTree, Trees
<1>4. \A p \in Code : p \in Paths /\ RootTree[p] = File(0)
  BY DEF RootTree, Code, Paths
<1> QED
  BY <1>2, <1>3, <1>4

\* A commit made on one of the log.
LEMMA CommitTyped ==
  ASSUME Grown(commits), NEW tree \in Trees, NEW parent \in 1..Len(commits),
         NEW side \in 0..Len(commits)
  PROVE  LET x == NewCommit(tree, parent, side)
             id == Len(commits) + 1
         IN  /\ x \in Commits /\ x.tree = tree
             /\ {1, id} \subseteq x.anc /\ x.anc \subseteq 1..id
             /\ 1 \in x.line /\ x.line \subseteq 1..id
             /\ side = 0 => x.anc = commits[parent].anc \cup {id}
<1> DEFINE id == Len(commits) + 1
           anc == commits[parent].anc \cup {id} \cup (IF side = 0 THEN {} ELSE commits[side].anc)
           line == commits[parent].line \cup {id}
<1>1. Len(commits) \in Nat /\ id \in Nat
  BY DEF Grown
<1>2. /\ {1, id} \subseteq anc /\ anc \subseteq 1..id
      /\ 1 \in line /\ line \subseteq 1..id
  BY <1>1 DEF Grown
<1>3. NewCommit(tree, parent, side) = [tree |-> tree, side |-> side, anc |-> anc, line |-> line]
  BY DEF NewCommit
<1>4. side = 0 => anc = commits[parent].anc \cup {id}
  OBVIOUS
<1>5. anc \subseteq Nat /\ line \subseteq Nat /\ side \in Nat
  BY <1>1, <1>2
<1> HIDE DEF anc, line, id
<1> QED
  BY <1>2, <1>3, <1>4, <1>5 DEF Commits, id

\* The log with one more commit.
LEMMA LogGrows ==
  ASSUME NEW l, Grown(l), NEW x \in Commits,
         {1, Len(l) + 1} \subseteq x.anc, x.anc \subseteq 1..(Len(l) + 1),
         1 \in x.line, x.line \subseteq 1..(Len(l) + 1)
  PROVE  LET k == Append(l, x)
         IN  /\ Grown(k) /\ Len(k) = Len(l) + 1 /\ k[Len(l) + 1] = x
             /\ \A c \in 1..Len(l) : k[c] = l[c]
<1> DEFINE k == Append(l, x)
<1>1. l \in Seq(Commits) /\ Len(l) \in Nat /\ Len(l) >= 2
  BY DEF Grown
<1>2. /\ k \in Seq(Commits) /\ Len(k) = Len(l) + 1 /\ k[Len(l) + 1] = x
      /\ \A c \in 1..Len(l) : k[c] = l[c]
  BY <1>1
<1> HIDE DEF k
<1>3. ASSUME NEW c \in 1..Len(k)
      PROVE  /\ {1, c} \subseteq k[c].anc /\ k[c].anc \subseteq 1..Len(k)
             /\ 1 \in k[c].line /\ k[c].line \subseteq 1..Len(k)
  <2>1. CASE c = Len(l) + 1
    BY <1>1, <1>2, <2>1
  <2>2. CASE c \in 1..Len(l)
    <3>1. /\ {1, c} \subseteq l[c].anc /\ l[c].anc \subseteq 1..Len(l)
          /\ 1 \in l[c].line /\ l[c].line \subseteq 1..Len(l)
      BY <2>2 DEF Grown
    <3>2. 1..Len(l) \subseteq 1..Len(k)
      BY <1>1, <1>2
    <3> QED
      BY <1>2, <2>2, <3>1, <3>2
  <2> QED
    BY <1>1, <1>2, <2>1, <2>2
<1>4. k[2].tree = RootTree
  BY <1>1, <1>2 DEF Grown
<1> QED
  BY <1>1, <1>2, <1>3, <1>4 DEF Grown, k

\* What every commit of a history has in common.
Longer ==
  /\ Grown(commits') /\ Len(commits) <= Len(commits')
  /\ \A c \in 1..Len(commits) : commits'[c] = commits[c]
  /\ head' \in 1..Len(commits') /\ base' \in 1..Len(commits')
  /\ authored' \subseteq authored \cup {nextV} /\ nextV' \in {nextV, nextV + 1}
  /\ nextV \in authored' => nextV' = nextV + 1

LEMMA LongerKeeps ==
  ASSUME EvInv, Room, Longer, UNCHANGED obsVars, UNCHANGED <<measured, doc, cashed>>,
         base' = base \/ BaseIsOthers'
  PROVE  EvInv'
<1>1. /\ nextV \in 2..MaxVersion /\ nextV' \in 2..(MaxVersion + 1) /\ nextV <= nextV'
      /\ authored' \subseteq 2..(nextV' - 1)
  <2>1. nextV \in 2..MaxVersion /\ MaxVersion \in Nat
    BY HistoryAssumption DEF EvInv, GitTyped, Room
  <2>2. nextV' \in 2..(MaxVersion + 1) /\ nextV <= nextV'
    BY <2>1 DEF Longer
  <2>3. ASSUME NEW v \in authored' PROVE v \in 2..(nextV' - 1)
    <3>1. v \in authored => v \in 2..(nextV - 1)
      BY DEF EvInv, GitTyped
    <3> QED
      BY <2>1, <2>2, <2>3, <3>1 DEF Longer
  <2> QED
    BY <2>1, <2>2, <2>3
<1>2. GitTyped'
  BY <1>1 DEF EvInv, GitTyped, Longer
<1>3. BaseIsOthers'
  <2> SUFFICES ASSUME base' = base PROVE BaseIsOthers'
    OBVIOUS
  <2>1. commits'[base] = commits[base] /\ commits[base].anc \subseteq 1..Len(commits)
    BY DEF EvInv, GitTyped, Longer, Grown
  <2>2. ASSUME NEW c \in commits[base].anc, NEW p \in Code
        PROVE  Tree(c)'[p].v < nextV' /\ Tree(c)'[p].v \notin authored'
    <3>1. Tree(c)' = Tree(c) /\ Tree(c) \in Trees
      <4>1. c \in 1..Len(commits) /\ commits'[c] = commits[c] /\ commits[c] \in Commits
        BY <2>1, <2>2 DEF Longer, EvInv, GitTyped, Grown
      <4> QED
        BY <4>1 DEF Tree, Commits
    <3>2. Tree(c)[p].v < nextV /\ Tree(c)[p].v \notin authored
      BY <2>2 DEF EvInv, BaseIsOthers
    <3>3. Tree(c)[p].v \in Nat
      BY <3>1, Files DEF Trees, Entries
    <3>4. nextV \in Nat /\ nextV' \in Nat
      BY <1>1, HistoryAssumption
    <3> QED
      BY <1>1, <3>1, <3>2, <3>3, <3>4 DEF Longer
  <2> QED
    BY <2>1, <2>2 DEF BaseIsOthers, Tree
<1>4. Record'
  BY DEF EvInv, Record, Room, obsVars
<1>5. Cashing'
  BY DEF Room, NotCashed, Cashing
<1> QED
  BY <1>2, <1>3, <1>4, <1>5 DEF EvInv

\* A commit on the topic branch, or on any branch but the base.
LEMMA OneCommit ==
  ASSUME EvInv, NEW tree \in Trees, NEW parent \in 1..Len(commits), NEW side \in 0..Len(commits),
         commits' = Append(commits, NewCommit(tree, parent, side))
  PROVE  /\ Grown(commits') /\ Len(commits') = Len(commits) + 1
         /\ \A c \in 1..Len(commits) : commits'[c] = commits[c]
         /\ Len(commits) <= Len(commits') /\ Len(commits') \in 1..Len(commits')
         /\ head \in 1..Len(commits') /\ base \in 1..Len(commits')
         /\ commits'[Len(commits')].tree = tree
         /\ side = 0 => commits'[Len(commits')].anc = commits[parent].anc \cup {Len(commits')}
<1>1. Grown(commits) /\ Len(commits) \in Nat
  BY DEF EvInv, GitTyped, Grown
<1> DEFINE x == NewCommit(tree, parent, side)
           id == Len(commits) + 1
<1>2. /\ x \in Commits /\ x.tree = tree
      /\ {1, id} \subseteq x.anc /\ x.anc \subseteq 1..id
      /\ 1 \in x.line /\ x.line \subseteq 1..id
      /\ side = 0 => x.anc = commits[parent].anc \cup {id}
  BY <1>1, CommitTyped
<1> HIDE DEF x
<1>3. /\ Grown(commits') /\ Len(commits') = id /\ commits'[id] = x
      /\ \A c \in 1..Len(commits) : commits'[c] = commits[c]
  BY <1>1, <1>2, LogGrows DEF x
<1>4. /\ Len(commits) <= Len(commits') /\ Len(commits') \in 1..Len(commits')
      /\ head \in 1..Len(commits') /\ base \in 1..Len(commits')
  BY <1>1, <1>3 DEF EvInv, GitTyped
<1> QED
  BY <1>2, <1>3, <1>4

\* A tree with one entry written.
LEMMA TreeWritten ==
  ASSUME NEW tree \in Trees, NEW p \in Paths, NEW e \in Entries
  PROVE  [tree EXCEPT ![p] = e] \in Trees
  BY DEF Trees

LEMMA TreesOfLog ==
  ASSUME Grown(commits), NEW c \in 1..Len(commits)
  PROVE  Tree(c) \in Trees
<1>1. commits[c] \in Commits
  BY DEF Grown
<1> QED
  BY <1>1 DEF Tree, Commits

LEMMA WritesTyped ==
  ASSUME NEW p \in Paths, NEW old \in Entries, nextV \in Nat, NEW e \in Writes(p, old)
  PROVE  e \in Entries
<1>1. /\ File(nextV) \in Entries /\ Absent \in Entries /\ File(ResultVersion) \in Entries
  BY Files DEF ResultVersion
<1>2. [old EXCEPT !.mode = "exec"] \in Entries
  BY DEF Entries
<1>3. \A v \in 2..nextV : [old EXCEPT !.atts = Append(@, v)] \in Entries
  <2> SUFFICES ASSUME NEW v \in 2..nextV PROVE [old EXCEPT !.atts = Append(old.atts, v)] \in Entries
    OBVIOUS
  <2>1. old.atts \in Seq(Nat) /\ v \in Nat
    BY DEF Entries
  <2>2. Append(old.atts, v) \in Seq(Nat)
    BY <2>1
  <2> QED
    BY <2>2 DEF Entries
<1> QED
  BY <1>1, <1>2, <1>3 DEF Writes

LEMMA TopicKeeps ==
  ASSUME EvInv, TopicCommit, UNCHANGED obsVars
  PROVE  EvInv'
<1>0. PICK p \in Paths : \E e \in Writes(p, Tree(head)[p]) :
        /\ commits' = Append(commits, NewCommit([Tree(head) EXCEPT ![p] = e], head, 0))
        /\ authored' = authored \cup ({e.v} \cap {nextV})
        /\ nextV' = IF e.v = nextV THEN nextV + 1 ELSE nextV
  BY DEF TopicCommit
<1>1. PICK e \in Writes(p, Tree(head)[p]) :
        /\ commits' = Append(commits, NewCommit([Tree(head) EXCEPT ![p] = e], head, 0))
        /\ authored' = authored \cup ({e.v} \cap {nextV})
        /\ nextV' = IF e.v = nextV THEN nextV + 1 ELSE nextV
  BY <1>0
<1>2. head \in 1..Len(commits) /\ Grown(commits) /\ nextV \in Nat /\ 0 \in 0..Len(commits)
  BY HistoryAssumption DEF EvInv, GitTyped, Grown
<1>3. Tree(head) \in Trees /\ Tree(head)[p] \in Entries
  BY <1>2, TreesOfLog DEF Trees
<1>4. e \in Entries
  BY <1>2, <1>3, WritesTyped
<1>5. [Tree(head) EXCEPT ![p] = e] \in Trees
  BY <1>3, <1>4, TreeWritten
<1> DEFINE tree == [Tree(head) EXCEPT ![p] = e]
<1> HIDE DEF tree
<1>6. /\ Grown(commits') /\ Len(commits) <= Len(commits')
      /\ \A c \in 1..Len(commits) : commits'[c] = commits[c]
      /\ Len(commits') \in 1..Len(commits') /\ base \in 1..Len(commits')
  BY <1>1, <1>2, <1>5, OneCommit DEF tree
<1>7. /\ authored' \subseteq authored \cup {nextV} /\ nextV' \in {nextV, nextV + 1}
      /\ nextV \in authored' => nextV' = nextV + 1
  <2>1. nextV \notin authored
    BY HistoryAssumption DEF EvInv, GitTyped
  <2> QED
    BY <1>1, <2>1
<1>8. head' = Len(commits') /\ UNCHANGED <<base, measured, doc, cashed>> /\ Room
  BY DEF TopicCommit
<1>9. Longer
  BY <1>6, <1>7, <1>8 DEF Longer
<1> QED
  BY <1>8, <1>9, LongerKeeps

LEMMA AmendKeeps ==
  ASSUME EvInv, Amend, UNCHANGED obsVars
  PROVE  EvInv'
<1> DEFINE parent == Max(commits[head].line \ {head})
<1>1. PICK p \in Code :
        /\ commits' = Append(commits, NewCommit([Tree(head) EXCEPT ![p] = File(nextV)], parent, 0))
        /\ authored' = authored \cup {nextV} /\ nextV' = nextV + 1
  BY DEF Amend
<1>2. /\ head \in 1..Len(commits) /\ head > 1 /\ Grown(commits) /\ nextV \in Nat
      /\ 0 \in 0..Len(commits) /\ Len(commits) \in Nat
  BY HistoryAssumption DEF EvInv, GitTyped, Grown, Amend
<1>3. parent \in 1..Len(commits)
  <2>1. 1 \in commits[head].line \ {head} /\ commits[head].line \subseteq 1..Len(commits)
    BY <1>2 DEF Grown
  <2>2. commits[head].line \ {head} \in SUBSET (0..Len(commits))
    BY <2>1
  <2> QED
    BY <1>2, <2>1, <2>2, MaxIn
<1>4. p \in Paths /\ File(nextV) \in Entries
  BY <1>2, Files
<1> DEFINE tree == [Tree(head) EXCEPT ![p] = File(nextV)]
<1>5. tree \in Trees
  BY <1>2, <1>4, TreesOfLog, TreeWritten
<1> HIDE DEF tree, parent
<1>6. /\ Grown(commits') /\ Len(commits) <= Len(commits')
      /\ \A c \in 1..Len(commits) : commits'[c] = commits[c]
      /\ Len(commits') \in 1..Len(commits') /\ base \in 1..Len(commits')
  BY <1>1, <1>2, <1>3, <1>5, OneCommit DEF tree
<1>7. head' = Len(commits') /\ UNCHANGED <<base, measured, doc, cashed>> /\ Room
  BY DEF Amend
<1>8. Longer
  BY <1>1, <1>6, <1>7 DEF Longer
<1> QED
  BY <1>7, <1>8, LongerKeeps

LEMMA BaseKeeps ==
  ASSUME EvInv, BaseCommit, UNCHANGED obsVars
  PROVE  EvInv'
<1>1. PICK p \in Paths :
        commits' = Append(commits, NewCommit([Tree(base) EXCEPT ![p] = File(nextV)], base, 0))
  BY DEF BaseCommit
<1>2. /\ base \in 1..Len(commits) /\ Grown(commits) /\ nextV \in Nat
      /\ 0 \in 0..Len(commits) /\ Len(commits) \in Nat
  BY HistoryAssumption DEF EvInv, GitTyped, Grown
<1>3. File(nextV) \in Entries /\ File(nextV).v = nextV
  BY <1>2, Files
<1> DEFINE tree == [Tree(base) EXCEPT ![p] = File(nextV)]
<1>4. tree \in Trees /\ Tree(base) \in Trees
  BY <1>2, <1>3, TreesOfLog, TreeWritten
<1>5. \A q \in Code : tree[q].v = IF q = p THEN nextV ELSE Tree(base)[q].v
  BY <1>3, <1>4, Files DEF Trees
<1> HIDE DEF tree
<1>6. /\ Grown(commits') /\ Len(commits) <= Len(commits') /\ Len(commits') = Len(commits) + 1
      /\ \A c \in 1..Len(commits) : commits'[c] = commits[c]
      /\ Len(commits') \in 1..Len(commits') /\ head \in 1..Len(commits')
      /\ commits'[Len(commits')].tree = tree
      /\ commits'[Len(commits')].anc = commits[base].anc \cup {Len(commits')}
  BY <1>1, <1>2, <1>4, OneCommit DEF tree
<1>7. /\ base' = Len(commits') /\ nextV' = nextV + 1 /\ authored' = authored
      /\ UNCHANGED <<head, measured, doc, cashed>> /\ Room
  BY DEF BaseCommit
<1>8. Longer
  BY <1>6, <1>7 DEF Longer
<1>9. BaseIsOthers'
  <2>1. ASSUME NEW c \in commits[base].anc, NEW q \in Code
        PROVE  Tree(c)'[q].v < nextV' /\ Tree(c)'[q].v \notin authored'
    <3>1. c \in 1..Len(commits)
      BY <1>2 DEF Grown
    <3>2. Tree(c)' = Tree(c) /\ Tree(c)[q].v \in Nat
      <4>1. Tree(c)' = Tree(c)
        BY <1>6, <3>1 DEF Tree
      <4>2. Tree(c) \in Trees
        BY <1>2, <3>1, TreesOfLog
      <4> QED
        BY <4>1, <4>2, Files DEF Trees, Entries
    <3> QED
      BY <1>2, <1>7, <2>1, <3>2 DEF EvInv, BaseIsOthers
  <2>2. ASSUME NEW q \in Code
        PROVE  tree[q].v < nextV' /\ tree[q].v \notin authored'
    <3>1. base \in commits[base].anc
      BY <1>2 DEF Grown
    <3>2. Tree(base)[q].v < nextV /\ Tree(base)[q].v \notin authored /\ Tree(base)[q].v \in Nat
      BY <1>4, <3>1, Files DEF EvInv, BaseIsOthers, Trees, Entries
    <3>3. nextV \notin authored
      BY HistoryAssumption DEF EvInv, GitTyped
    <3> QED
      BY <1>2, <1>5, <1>7, <3>2, <3>3
  <2> QED
    BY <1>6, <1>7, <2>1, <2>2 DEF BaseIsOthers, Tree
<1> QED
  BY <1>7, <1>8, <1>9, LongerKeeps

LEMMA MergeKeeps ==
  ASSUME EvInv, MergeBaseIntoTopic, UNCHANGED obsVars
  PROVE  EvInv'
<1>1. PICK t \in [Paths -> {"ours", "theirs"}] :
        commits' = Append(commits,
          NewCommit([p \in Paths |-> IF t[p] = "ours" THEN Tree(head)[p] ELSE Tree(base)[p]], head, base))
  BY DEF MergeBaseIntoTopic
<1>2. /\ head \in 1..Len(commits) /\ base \in 1..Len(commits) /\ Grown(commits)
      /\ base \in 0..Len(commits)
  BY DEF EvInv, GitTyped, Grown
<1> DEFINE tree == [p \in Paths |-> IF t[p] = "ours" THEN Tree(head)[p] ELSE Tree(base)[p]]
<1>3. tree \in Trees
  BY <1>2, TreesOfLog DEF Trees
<1> HIDE DEF tree
<1>4. /\ Grown(commits') /\ Len(commits) <= Len(commits')
      /\ \A c \in 1..Len(commits) : commits'[c] = commits[c]
      /\ Len(commits') \in 1..Len(commits') /\ base \in 1..Len(commits')
  BY <1>1, <1>2, <1>3, OneCommit DEF tree
<1>5. head' = Len(commits') /\ UNCHANGED <<base, measured, doc, nextV, authored, cashed>> /\ Room
  BY DEF MergeBaseIntoTopic
<1>6. nextV \notin authored
  BY HistoryAssumption DEF EvInv, GitTyped
<1>7. Longer
  BY <1>4, <1>5, <1>6 DEF Longer
<1> QED
  BY <1>5, <1>7, LongerKeeps

LEMMA SidewaysKeeps ==
  ASSUME EvInv, SidewaysMerge, UNCHANGED obsVars
  PROVE  EvInv'
<1> DEFINE id == Len(commits) + 1
           sideOf(p) == NewCommit([RootTree EXCEPT ![p] = File(nextV)], 1, 0)
           mergeOf(p) ==
             [tree |-> [Tree(head) EXCEPT ![p] = File(nextV)], side |-> id,
              anc |-> commits[head].anc \cup sideOf(p).anc \cup {id + 1},
              line |-> commits[head].line \cup {id + 1}]
<1>1. PICK p \in Code :
        /\ commits' = commits \o <<sideOf(p), mergeOf(p)>>
        /\ authored' = authored \cup {nextV} /\ nextV' = nextV + 1
  BY DEF SidewaysMerge
<1>2. /\ head \in 1..Len(commits) /\ base \in 1..Len(commits) /\ Grown(commits)
      /\ nextV \in Nat /\ Len(commits) \in Nat /\ 1 \in 1..Len(commits) /\ 0 \in 0..Len(commits)
  BY HistoryAssumption DEF EvInv, GitTyped, Grown
<1>3. p \in Paths /\ File(nextV) \in Entries
  BY <1>2, Files
<1> DEFINE side == sideOf(p)
           merge == mergeOf(p)
<1>4. /\ side \in Commits /\ {1, id} \subseteq side.anc /\ side.anc \subseteq 1..id
      /\ 1 \in side.line /\ side.line \subseteq 1..id
  <2> DEFINE tree == [RootTree EXCEPT ![p] = File(nextV)]
  <2>1. tree \in Trees
    BY <1>3, Files, TreeWritten
  <2> HIDE DEF tree
  <2>2. side = NewCommit(tree, 1, 0)
    BY DEF tree
  <2> HIDE DEF side
  <2> QED
    BY <1>2, <2>1, <2>2, CommitTyped
<1>5. /\ merge \in Commits /\ {1, id + 1} \subseteq merge.anc /\ merge.anc \subseteq 1..(id + 1)
      /\ 1 \in merge.line /\ merge.line \subseteq 1..(id + 1)
  <2>1. [Tree(head) EXCEPT ![p] = File(nextV)] \in Trees
    BY <1>2, <1>3, TreesOfLog, TreeWritten
  <2>2. /\ 1 \in commits[head].anc /\ commits[head].anc \subseteq 1..Len(commits)
        /\ 1 \in commits[head].line /\ commits[head].line \subseteq 1..Len(commits)
    BY <1>2 DEF Grown
  <2> DEFINE anc == commits[head].anc \cup side.anc \cup {id + 1}
             line == commits[head].line \cup {id + 1}
             tree == [Tree(head) EXCEPT ![p] = File(nextV)]
  <2> HIDE DEF side
  <2>3. /\ {1, id + 1} \subseteq anc /\ anc \subseteq 1..(id + 1)
        /\ 1 \in line /\ line \subseteq 1..(id + 1) /\ id \in Nat
    BY <1>2, <1>4, <2>2
  <2>4. anc \subseteq Nat /\ line \subseteq Nat
    BY <2>3
  <2>5. merge = [tree |-> tree, side |-> id, anc |-> anc, line |-> line]
    BY DEF side
  <2> HIDE DEF tree, anc, line, merge
  <2> QED
    BY <2>1, <2>3, <2>4, <2>5 DEF Commits, tree
<1> HIDE DEF side, merge
<1> DEFINE k == Append(commits, side)
<1>6. /\ Grown(k) /\ Len(k) = id /\ \A c \in 1..Len(commits) : k[c] = commits[c]
  BY <1>2, <1>4, LogGrows
<1>7. commits \o <<side, merge>> = Append(k, merge)
  <2>1. commits \in Seq(Commits)
    BY <1>2 DEF Grown
  <2> QED
    BY <1>4, <1>5, <2>1
<1> HIDE DEF k
<1>8. /\ Grown(commits') /\ Len(commits') = id + 1
      /\ \A c \in 1..id : commits'[c] = k[c]
  <2>1. commits' = Append(k, merge)
    BY <1>1, <1>7 DEF side, merge
  <2>2. /\ {1, Len(k) + 1} \subseteq merge.anc /\ merge.anc \subseteq 1..(Len(k) + 1)
        /\ 1 \in merge.line /\ merge.line \subseteq 1..(Len(k) + 1)
    BY <1>5, <1>6
  <2> HIDE DEF id
  <2>3. /\ Grown(Append(k, merge)) /\ Len(Append(k, merge)) = Len(k) + 1
        /\ \A c \in 1..Len(k) : Append(k, merge)[c] = k[c]
    BY <1>5, <1>6, <2>2, LogGrows
  <2> QED
    BY <1>6, <2>1, <2>3
<1>9. head' = Len(commits') /\ UNCHANGED <<base, measured, doc, cashed>> /\ Room
  BY DEF SidewaysMerge
<1>10. Longer
  BY <1>1, <1>2, <1>6, <1>8, <1>9 DEF Longer
<1> QED
  BY <1>9, <1>10, LongerKeeps

LEMMA ConsumeKeeps ==
  ASSUME EvInv, Consume, UNCHANGED obsVars
  PROVE  EvInv'
<1>1. PICK dirty \in BOOLEAN, ref \in {0, base}, h \in Hosts :
        cashed' = [errors |-> ConsumeErrors(head, dirty, ref, h),
                   fresh |-> ~FreshnessNotMeasured(result, h), host |-> h.tree]
  BY DEF Consume
<1>2. ConsumeErrors(head, dirty, ref, h) \in BOOLEAN
  BY DEF ConsumeErrors
<1>3. /\ UNCHANGED <<commits, head, base, measured, doc, nextV, authored>>
      /\ measured # 0
  BY DEF Consume
<1>4. cashed'.errors \in BOOLEAN
  BY <1>1, <1>2
<1>5. GitTyped' /\ BaseIsOthers' /\ Record'
  BY <1>3, <1>4 DEF EvInv, GitTyped, BaseIsOthers, Record, Tree, obsVars
<1>6. Cashing'
  <2> SUFFICES ASSUME ~cashed'.errors
               PROVE  \E d \in BOOLEAN, r \in {0, base}, g \in Hosts :
                        /\ ~ConsumeErrors(head, d, r, g)'
                        /\ cashed'.fresh = ~FreshnessNotMeasured(result, g)'
                        /\ cashed'.host = g.tree
    BY <1>3 DEF Cashing
  <2>1. ConsumeErrors(head, dirty, ref, h)' = ConsumeErrors(head, dirty, ref, h)
    BY <1>3 DEF ConsumeErrors, Tree, StructureErrors, ResultErrors, SourceErrors, BoundErrors,
        RecordDeltaErrors, IsAncestor, BaseMergedPaths, MergesSince, MergeBase, PathRefused,
        LedgerAppendErrors, RederivationErrors, FreshnessErrors, obsVars
  <2>2. FreshnessNotMeasured(result, h)' = FreshnessNotMeasured(result, h)
    BY DEF obsVars
  <2> QED
    BY <1>1, <2>1, <2>2
<1> QED
  BY <1>5, <1>6 DEF EvInv

LEMMA MeasureKeeps ==
  ASSUME EvInv, Measure
  PROVE  EvInv'
<1>1. /\ pc = "judged" /\ measured = 0 /\ measured' = 2 /\ pc' = "recorded"
      /\ ObsInv /\ cashed = NotCashed
      /\ UNCHANGED <<commits, head, base, nextV, authored, cashed>>
      /\ sent' = Zero /\ got' = Zero /\ pending' = Zero
      /\ result' = Representative(result)
  BY DEF EvInv, Record, Measure
<1>2. PICK verdict \in {"verified", "failed", "not_measured"}, clean \in BOOLEAN :
        doc' = [outcome |-> result.outcome, verdict |-> verdict, clean |-> clean,
                saw |-> status = "expected" /\ got = sent /\ ran = "pinned"]
  BY DEF Measure
<1>3. GitTyped' /\ BaseIsOthers'
  BY <1>1 DEF EvInv, GitTyped, BaseIsOthers, Tree
<1>4. ASSUME doc'.outcome = "verified"
      PROVE  doc'.saw /\ result'.outcome = "verified"
  <2>1. result.outcome = "verified"
    BY <1>2, <1>4
  <2>2. status = "expected" /\ got = sent /\ ran = "pinned"
    BY <1>1, <2>1, ObsSaw DEF VerifiedSawEverything
  <2>3. result.executed
    BY <1>1, <2>1 DEF ObsInv, Told
  <2>4. result'.outcome = "verified"
    BY <1>1, <2>1, <2>3 DEF Representative, NoResult
  <2> QED
    BY <1>2, <2>2, <2>4
<1>5. Record'
  BY <1>1, <1>4 DEF Record
<1>6. Cashing'
  BY <1>1 DEF Cashing, NotCashed
<1> QED
  BY <1>3, <1>5, <1>6 DEF EvInv

LEMMA ObservationKeeps ==
  ASSUME EvInv, Observation
  PROVE  EvInv'
<1>1. /\ measured = 0 /\ ObsInv /\ head = 2 /\ cashed = NotCashed
      /\ Environment \/ Run
      /\ UNCHANGED gitVars
  BY DEF EvInv, Record, Observation
<1>2. ObsInv'
  BY <1>1, StepObsInv
<1>3. GitTyped' /\ BaseIsOthers'
  BY <1>1 DEF EvInv, GitTyped, BaseIsOthers, Tree, gitVars
<1>4. Record'
  BY <1>1, <1>2 DEF Record, gitVars
<1>5. Cashing'
  BY <1>1 DEF Cashing, NotCashed, gitVars
<1> QED
  BY <1>3, <1>4, <1>5 DEF EvInv

LEMMA InitEvInv == EvInit => EvInv
<1> SUFFICES ASSUME EvInit PROVE EvInv
  OBVIOUS
<1>1. /\ commits = <<[tree |-> RootTree, side |-> 0, anc |-> {1}, line |-> {1}],
                     [tree |-> RootTree, side |-> 0, anc |-> {1, 2}, line |-> {1, 2}]>>
      /\ head = 2 /\ base = 1 /\ measured = 0 /\ nextV = 2 /\ authored = {}
      /\ cashed = NotCashed /\ ObsInit
  BY DEF EvInit
<1>2. /\ Len(commits) = 2 /\ commits \in Seq(Commits)
      /\ commits[1] = [tree |-> RootTree, side |-> 0, anc |-> {1}, line |-> {1}]
      /\ commits[2] = [tree |-> RootTree, side |-> 0, anc |-> {1, 2}, line |-> {1, 2}]
  <2>1. /\ [tree |-> RootTree, side |-> 0, anc |-> {1}, line |-> {1}] \in Commits
        /\ [tree |-> RootTree, side |-> 0, anc |-> {1, 2}, line |-> {1, 2}] \in Commits
    BY Files DEF Commits
  <2> QED
    BY <1>1, <2>1
<1>3. Grown(commits)
  BY <1>2 DEF Grown
<1>4. GitTyped
  BY <1>1, <1>2, <1>3, HistoryAssumption DEF GitTyped, NotCashed
<1>5. BaseIsOthers
  <2>1. \A c \in commits[base].anc : Tree(c) = RootTree
    BY <1>1, <1>2 DEF Tree
  <2> QED
    BY <1>1, <2>1, Files DEF BaseIsOthers
<1>6. Record
  BY <1>1, InitObsInv DEF Record
<1>7. Cashing
  BY <1>1 DEF Cashing, NotCashed
<1> QED
  BY <1>4, <1>5, <1>6, <1>7 DEF EvInv

LEMMA StepEvInv == EvInv /\ [EvNext]_<<obsVars, gitVars>> => EvInv'
<1> SUFFICES ASSUME EvInv, [EvNext]_<<obsVars, gitVars>> PROVE EvInv'
  OBVIOUS
<1>1. CASE Observation
  BY <1>1, ObservationKeeps
<1>2. CASE Measure
  BY <1>2, MeasureKeeps
<1>3. CASE History
  BY <1>3, TopicKeeps, AmendKeeps, BaseKeeps, MergeKeeps, SidewaysKeeps, ConsumeKeeps DEF History
<1>4. CASE UNCHANGED <<obsVars, gitVars>>
  <2>1. UNCHANGED obsVars /\ UNCHANGED <<commits, head, base, measured, doc, nextV, authored, cashed>>
    BY <1>4 DEF gitVars
  <2>2. GitTyped' /\ BaseIsOthers'
    BY <2>1 DEF EvInv, GitTyped, BaseIsOthers, Tree
  <2>3. ObsInv' <=> ObsInv
    BY <2>1 DEF obsVars, ObsInv, ObsTyped, Pipes, Leader, Told, Writers, Captured
  <2>4. Record'
    BY <2>1, <2>3 DEF EvInv, Record, obsVars
  <2>5. Cashing'
    <3> SUFFICES ASSUME ~cashed'.errors
                 PROVE  /\ measured' # 0
                        /\ \E d \in BOOLEAN, r \in {0, base'}, g \in Hosts :
                             /\ ~ConsumeErrors(head, d, r, g)'
                             /\ cashed'.fresh = ~FreshnessNotMeasured(result, g)'
                             /\ cashed'.host = g.tree
      BY DEF Cashing
    <3>1. measured # 0
      BY <2>1 DEF EvInv, Cashing
    <3>2. PICK d \in BOOLEAN, r \in {0, base}, g \in Hosts :
            /\ ~ConsumeErrors(head, d, r, g)
            /\ cashed.fresh = ~FreshnessNotMeasured(result, g) /\ cashed.host = g.tree
      BY <2>1 DEF EvInv, Cashing
    <3>3. ConsumeErrors(head, d, r, g)' = ConsumeErrors(head, d, r, g)
      BY <2>1 DEF ConsumeErrors, Tree, StructureErrors, ResultErrors, SourceErrors, BoundErrors,
          RecordDeltaErrors, IsAncestor, BaseMergedPaths, MergesSince, MergeBase, PathRefused,
          LedgerAppendErrors, RederivationErrors, FreshnessErrors, obsVars
    <3>4. FreshnessNotMeasured(result, g)' = FreshnessNotMeasured(result, g)
      BY <2>1 DEF obsVars
    <3> QED
      BY <2>1, <3>1, <3>2, <3>3, <3>4
  <2> QED
    BY <2>2, <2>4, <2>5 DEF EvInv
<1> QED
  BY <1>1, <1>2, <1>3, <1>4 DEF EvNext

LEMMA EvInvariant == EvSpec => []EvInv
  BY InitEvInv, StepEvInv, PTL DEF EvSpec

-----------------------------------------------------------------------------
(* What the evidence says. *)

\* The state is typed, for any limits.
THEOREM EvidenceTyped == EvSpec => []TypeOK
<1>1. EvInv => TypeOK
  <2> SUFFICES ASSUME EvInv PROVE TypeOK
    OBVIOUS
  <2>1. pc \in Places
    BY DEF EvInv, Record, ObsInv, ObsTyped, Places
  <2>2. \A s \in Streams : got[s] + pending[s] <= sent[s] /\ sent[s] <= MaxBytes
    BY ObservationAssumption DEF EvInv, Record, ObsInv, Pipes, Zero
  <2>3. measured \in 0..Len(commits)
    BY DEF EvInv, GitTyped, Grown
  <2> QED
    BY <2>1, <2>2, <2>3 DEF EvInv, GitTyped, TypeOK, Places
<1> QED
  BY <1>1, EvInvariant, PTL

\* For any capture limit and any output: an observation judged "verified" saw
\* the leader end as expected, captured everything any holder of the pipes
\* wrote, left no writer behind, and ran the pinned bytes. (process_observation.run)
THEOREM VerifiedWasSeen == EvSpec => []VerifiedSawEverything
<1>1. EvInv => VerifiedSawEverything
  BY ObsSaw DEF EvInv, Record, VerifiedSawEverything
<1> QED
  BY <1>1, EvInvariant, PTL

\* For any history of commits, merges, rewrites and ledger entries: a canary is
\* cashed only at a descendant of the commit it measured, whose executed files
\* are the ones that ran and whose other code nobody wrote on the topic or a
\* side branch. (canary_evidence.consume, record_delta_errors)
THEOREM EvidenceForThisCode == EvSpec => []EvidenceIsOfThisCode
<1>1. EvInv => EvidenceIsOfThisCode
  <2> SUFFICES ASSUME EvInv, ~cashed.errors
               PROVE  /\ IsAncestor(measured, head)
                      /\ \A p \in Executed : Tree(head)[p] = Tree(measured)[p]
                      /\ \A p \in Code : Tree(head)[p].v \notin authored
    BY DEF EvidenceIsOfThisCode, Accepted
  <2>1. PICK dirty \in BOOLEAN, ref \in {0, base}, h \in Hosts : ~ConsumeErrors(head, dirty, ref, h)
    BY DEF EvInv, Cashing
  <2>2. /\ measured = 2 /\ head \in 1..Len(commits) /\ base \in 1..Len(commits)
        /\ Grown(commits) /\ Tree(2) = RootTree
    BY DEF EvInv, GitTyped, Cashing, Grown, Tree
  <2>3. head = 2 \/ ~RecordDeltaErrors(2, head, ref)
    BY <2>1, <2>2 DEF ConsumeErrors, SourceErrors
  <2>4. \A p \in Code : RootTree[p].v \notin authored
    BY Files DEF EvInv, GitTyped
  <2>5. CASE head = 2
    BY <2>2, <2>4, <2>5 DEF IsAncestor, Grown
  <2>6. CASE ~RecordDeltaErrors(2, head, ref)
    <3> DEFINE merged == BaseMergedPaths(2, head, ref)
    <3>1. /\ IsAncestor(2, head)
          /\ \A p \in Paths : Tree(2)[p] # Tree(head)[p] => ~PathRefused(p, 2, head, merged)
      BY <2>6 DEF RecordDeltaErrors
    <3>2. \A p \in Executed : Tree(head)[p] = Tree(2)[p]
      BY <3>1 DEF PathRefused, Executed, Code, Paths, RecordDocs, Ledger
    <3>3. ASSUME NEW p \in Code, Tree(2)[p] # Tree(head)[p]
          PROVE  Tree(head)[p].v \notin authored
      <4>1. p \in merged /\ p \in Paths
        BY <3>1, <3>3, Files DEF PathRefused
      <4>2. /\ ref = base /\ p \in Paths
            /\ Tree(head)[p] = Tree(MergeBase(base, head))[p]
        BY <4>1 DEF BaseMergedPaths
      <4>3. MergeBase(base, head) \in commits[base].anc
        <5> DEFINE S == commits[base].anc \cap commits[head].anc
        <5>1. 1 \in S /\ S \in SUBSET (0..Len(commits)) /\ Len(commits) \in Nat
          BY <2>2 DEF Grown
        <5>2. Max(S) \in S
          BY <5>1, MaxIn
        <5> QED
          BY <5>2 DEF MergeBase
      <4> QED
        BY <4>2, <4>3 DEF EvInv, BaseIsOthers
    <3> QED
      BY <2>2, <2>4, <3>1, <3>2, <3>3
  <2> QED
    BY <2>3, <2>5, <2>6
<1> QED
  BY <1>1, EvInvariant, PTL

\* For any history and any consuming host: a row that is cashed as verified
\* cites an observation that saw everything in a clean tree, and where the
\* freshness of its files is claimed the host holds the recorded ones.
\* (canary_evidence.consume, process_observation.bound_errors)
THEOREM CashedWasSeen == EvSpec => []CashedVerdictWasSeen
<1>1. EvInv => CashedVerdictWasSeen
  <2> SUFFICES ASSUME EvInv, ~cashed.errors, doc.verdict = "verified"
               PROVE  doc.saw /\ doc.clean /\ (cashed.fresh => cashed.host = "same")
    BY DEF CashedVerdictWasSeen, Accepted
  <2>1. PICK dirty \in BOOLEAN, ref \in {0, base}, h \in Hosts :
          /\ ~ConsumeErrors(head, dirty, ref, h)
          /\ cashed.fresh = ~FreshnessNotMeasured(result, h) /\ cashed.host = h.tree
    BY DEF EvInv, Cashing
  <2>2. doc.outcome = "verified" /\ doc.clean
    BY <2>1 DEF ConsumeErrors, StructureErrors, SourceErrors
  <2>3. doc.saw /\ result.outcome = "verified"
    BY <2>2 DEF EvInv, Record, Cashing
  <2>4. ~FreshnessErrors(result, h)
    BY <2>1 DEF ConsumeErrors, BoundErrors
  <2>5. h.tree \in {"same", "changed", "partial", "absent"} /\ h.root \in BOOLEAN
    BY DEF Hosts
  <2>6. cashed.fresh => h.tree = "same"
    BY <2>1, <2>3, <2>4, <2>5, ObservationAssumption
    DEF FreshnessNotMeasured, FreshnessErrors, RemoteOrigin, TreePresent
  <2> QED
    BY <2>1, <2>2, <2>3, <2>6
<1> QED
  BY <1>1, EvInvariant, PTL

=============================================================================
