------------------------ MODULE AdmissionGateProofs ------------------------
(***************************************************************************)
(* A branch before the admission gate, for every set of tales and every    *)
(* length of the branch: what is admitted leaves nothing open, hides no    *)
(* bytes that nobody saw, and rests on exemptions of this very change; and *)
(* the ledger attach writes is one the gate takes for a record.            *)
(*                                                                         *)
(* The inductive invariant IInv ties the receipts on the desk to the       *)
(* commits they speak of, and the gate's answer to the state it was given  *)
(* in. From an answer "admit" the codes it does not hold say what the gate *)
(* has checked (AdmissionMeans); the commits behind the receipts are       *)
(* covered by the least commit at which a path changed (UntouchedStays).   *)
(***************************************************************************)
EXTENDS AdmissionGate, FiniteSetTheorems, WellFoundedInduction, TLAPS

------------------------------------------------------------------------------
(* Naturals, early returns.                                                 *)

\* A set of naturals that is not empty has a least element.
LEMMA LeastNatural ==
  ASSUME NEW T, T \subseteq Nat, T # {}
  PROVE  \E x \in T : \A y \in T : x <= y
<1> DEFINE R == {ss \in Nat \X Nat : ss[1] < ss[2]}
<1>1. IsWellFoundedOn(R, Nat)
  BY NatLessThanWellFounded DEF OpToRel
<1>2. PICK x \in T : \A y \in T : ~ (<<y, x>> \in R)
  <2> HIDE DEF R
  <2> QED
    BY <1>1, WFMin
<1>3. ASSUME NEW y \in T PROVE x <= y
  <2>1. <<y, x>> \in Nat \X Nat /\ <<y, x>> \notin R
    BY <1>2
  <2> QED
    BY <2>1
<1> QED
  BY <1>3

\* A bounded one has a greatest element.
LEMMA GreatestNatural ==
  ASSUME NEW h \in Nat, NEW T, T \subseteq 0..h, T # {}
  PROVE  \E x \in T : \A y \in T : y <= x
<1> DEFINE D == {h - y : y \in T}
<1>1. D \subseteq Nat /\ D # {}
  OBVIOUS
<1>2. PICK d \in D : \A e \in D : d <= e
  <2> HIDE DEF D
  <2> QED
    BY <1>1, LeastNatural
<1>3. PICK x \in T : d = h - x
  OBVIOUS
<1>4. ASSUME NEW y \in T PROVE y <= x
  <2>1. h - y \in D
    OBVIOUS
  <2>2. d <= h - y
    BY <1>2, <2>1
  <2> QED
    BY <1>3, <2>2
<1> QED
  BY <1>4

\* The library's Max is that element.
LEMMA MaxIsGreatest ==
  ASSUME NEW h \in Nat, NEW T, T \subseteq 0..h, T # {}
  PROVE  Max(T) \in T /\ \A y \in T : y <= Max(T)
<1>1. \E x \in T : \A y \in T : x >= y
  BY GreatestNatural
<1> QED
  BY <1>1 DEF Max

\* The early returns: when none applies the default answers, else one of the rules does.
LEMMA DecideAnswers ==
  ASSUME NEW rules, Len(rules) \in Nat, NEW otherwise
  PROVE  \/ /\ \A i \in 1..Len(rules) : ~rules[i][1]
            /\ Decide(rules, otherwise) = otherwise
         \/ \E i \in 1..Len(rules) : rules[i][1] /\ Decide(rules, otherwise) = rules[i][2]
<1> DEFINE hit == {i \in 1..Len(rules) : rules[i][1]}
<1>1. CASE hit = {}
  BY <1>1 DEF Decide
<1>2. CASE hit # {}
  <2>1. \E x \in hit : \A y \in hit : x <= y
    <3>1. hit \subseteq Nat
      OBVIOUS
    <3> HIDE DEF hit
    <3> QED
      BY <1>2, <3>1, LeastNatural
  <2>2. Min(hit) \in hit
    BY <2>1 DEF Min
  <2>3. Decide(rules, otherwise) = rules[Min(hit)][2]
    BY <1>2 DEF Decide
  <2> QED
    BY <2>2, <2>3
<1> QED
  BY <1>1, <1>2

\* The gate says `admit' only when no code refuses and none pauses.
LEMMA VerdictAdmits ==
  ASSUME NEW codes, Verdict(codes) = "admit"
  PROVE  codes \cap RefuseCodes = {} /\ codes \cap PauseCodes = {}
<1> DEFINE refused == codes \cap RefuseCodes # {}
           paused == codes \cap PauseCodes # {}
           rules == << <<refused, "refuse">>, <<paused, "paused_safe">> >>
<1>1. Len(rules) = 2
  OBVIOUS
<1>2. Decide(rules, "admit") = "admit"
  BY DEF Verdict
<1>3. rules[1][2] = "refuse" /\ rules[2][2] = "paused_safe" /\ rules[1][1] = refused /\ rules[2][1] = paused
  OBVIOUS
<1>4. ~rules[1][1] /\ ~rules[2][1]
  <2> HIDE DEF rules
  <2> QED
    BY <1>1, <1>2, <1>3, DecideAnswers
<1> QED
  BY <1>3, <1>4

------------------------------------------------------------------------------
(* The inductive invariant.                                                 *)

\* a receipt of this branch: what it says of its range is what the log holds there
MeasuredAt(r, l) ==
  /\ {"mode", "base", "head", "files", "verdicts", "exemptions", "rev", "admission"} \subseteq DOMAIN r
  /\ r.mode = "diff" /\ r.head \in (Base + 1)..Len(l) /\ r.base \in Base..(r.head - 1)
  /\ r.files = DOMAIN Changed([before |-> l[r.base], after |-> l[r.head]])
  /\ \A e \in DOMAIN r.verdicts : r.verdicts[e] \in Verdicts

\* commits are never rewritten: one tree after the other, over the same paths
LogOk ==
  /\ log \in Seq(Range(log)) /\ Len(log) \in Nat \ {0} /\ log[Base] = tale.tree
  /\ \A k \in 1..Len(log) : DOMAIN log[k] = DOMAIN tale.tree /\ BookOk(log[k][Book])

\* a merge takes a path the other branch left alone from this branch
JoinedOk ==
  /\ joined \subseteq (Base + 1)..Len(log)
  /\ \A k \in joined : \E t \in tale.trunk : \A p \in DOMAIN tale.tree :
       t[p] = log[Base][p] => log[k][p] = log[k - 1][p]

DeskOk ==
  /\ DOMAIN desk = ReceiptPaths /\ BookOk(folio)
  /\ \A p \in ReceiptPaths : \A r \in desk[p] : Earlier(r) \/ MeasuredAt(r, log)

\* while penned, the ledger on the desk is one that attach has judged
LedgerOk ==
  penned =>
    LET bound == Bound(desk, Len(log))
    IN /\ tale.program /\ \E r \in bound : r.item = {tale.item}
       /\ \E b \in folio : /\ folio = {b} /\ b.item = tale.item
                           /\ LedgerDocumentOk(b, LedgerAt(log[CoveredLedgerAnchor(log, bound)]), bound)

\* a receipt the gate wrote itself is of this branch, and holds no decision
OwnOk(own, l) == \A r \in own : MeasuredAt(r, l) /\ \A x \in r.exemptions : x.code # Decision

\* the gate's answer is about the commits, the records and the hour it still finds there
RulingOk ==
  \A q \in ruling :
    /\ ruling = {q} /\ OwnOk(q.own, log) /\ q.verdict = Verdict(q.codes)
    /\ q.codes = Gate(log, joined, desk, folio, hour, q.own, Bound(desk, Len(log)) \cup q.own,
                      RangeOf(log, joined, Len(log), NoOpinion))

IInv == tale \in Tales /\ LogOk /\ JoinedOk /\ DeskOk /\ LedgerOk /\ RulingOk

\* A commit is appended: the others stay where they are.
LEMMA Appended ==
  ASSUME NEW l, l \in Seq(Range(l)), NEW e
  PROVE  /\ Append(l, e) \in Seq(Range(Append(l, e)))
         /\ Len(Append(l, e)) = Len(l) + 1
         /\ \A k \in 1..Len(l) : Append(l, e)[k] = l[k]
         /\ Append(l, e)[Len(l) + 1] = e
<1> DEFINE S == Range(l) \cup {e}
           a == Append(l, e)
<1>1. l \in Seq(S) /\ e \in S
  OBVIOUS
<1>2. /\ a \in Seq(S) /\ Len(a) = Len(l) + 1
      /\ \A k \in 1..Len(l) : a[k] = l[k]
      /\ a[Len(l) + 1] = e
  BY <1>1
<1>3. a \in Seq(Range(a))
  <2> HIDE DEF a, S
  <2>1. a \in [1..Len(a) -> S] /\ Len(a) \in Nat
    BY <1>2
  <2>2. a \in [1..Len(a) -> Range(a)]
    BY <2>1 DEF Range
  <2> QED
    BY <2>1, <2>2
<1> QED
  BY <1>2, <1>3

\* What a receipt says of its range stays true when a commit is added.
LEMMA StillMeasured ==
  ASSUME NEW l, NEW m, Len(l) \in Nat, Len(m) \in Nat, Len(l) <= Len(m), \A k \in 1..Len(l) : m[k] = l[k],
         NEW r, MeasuredAt(r, l)
  PROVE  MeasuredAt(r, m)
<1>1. r.head \in (Base + 1)..Len(l) /\ r.base \in Base..(r.head - 1)
  BY DEF MeasuredAt
<1>2. r.head \in 1..Len(l) /\ r.base \in 1..Len(l) /\ r.head \in (Base + 1)..Len(m)
  BY <1>1 DEF Base
<1>3. m[r.head] = l[r.head] /\ m[r.base] = l[r.base]
  BY <1>2
<1> QED
  BY <1>2, <1>3 DEF MeasuredAt

\* One more commit of the same paths keeps the log.
LEMMA LogGrows ==
  ASSUME LogOk, tale' = tale, NEW e, log' = Append(log, e),
         DOMAIN e = DOMAIN tale.tree, BookOk(e[Book])
  PROVE  /\ LogOk' /\ Len(log') = Len(log) + 1 /\ log'[Len(log) + 1] = e
         /\ \A k \in 1..Len(log) : log'[k] = log[k]
<1>1. /\ log \in Seq(Range(log)) /\ Len(log) \in Nat \ {0} /\ log[Base] = tale.tree
      /\ \A k \in 1..Len(log) : DOMAIN log[k] = DOMAIN tale.tree /\ BookOk(log[k][Book])
  BY DEF LogOk
<1>2. /\ log' \in Seq(Range(log')) /\ Len(log') = Len(log) + 1 /\ log'[Len(log) + 1] = e
      /\ \A k \in 1..Len(log) : log'[k] = log[k]
  BY <1>1, Appended
<1>3. Base \in 1..Len(log)
  BY <1>1 DEF Base
<1>4. \A k \in 1..Len(log') : DOMAIN log'[k] = DOMAIN tale'.tree /\ BookOk(log'[k][Book])
  <2> TAKE k \in 1..Len(log')
  <2>1. k \in 1..Len(log) \/ k = Len(log) + 1
    BY <1>1, <1>2
  <2> QED
    BY <1>1, <1>2, <2>1
<1>5. Len(log') \in Nat \ {0} /\ log'[Base] = tale'.tree
  BY <1>1, <1>2, <1>3
<1>6. LogOk'
  BY <1>2, <1>4, <1>5 DEF LogOk
<1> QED
  BY <1>2, <1>6

\* The receipts on the desk stay receipts of the branch when a commit is added.
LEMMA DeskStays ==
  ASSUME LogOk, DeskOk, Len(log') \in Nat, Len(log) <= Len(log'), \A k \in 1..Len(log) : log'[k] = log[k],
         desk' = desk, folio' = folio
  PROVE  DeskOk'
<1>1. Len(log) \in Nat
  BY DEF LogOk
<1>2. \A r : MeasuredAt(r, log) => MeasuredAt(r, log')
  BY <1>1, StillMeasured
<1> QED
  BY <1>2 DEF DeskOk

\* A commit that is no merge leaves the merges as they are.
LEMMA JoinedStays ==
  ASSUME LogOk, JoinedOk, tale' = tale, joined' = joined, Len(log') \in Nat, Len(log) <= Len(log'),
         \A k \in 1..Len(log) : log'[k] = log[k]
  PROVE  JoinedOk'
<1>1. Len(log) \in Nat \ {0} /\ joined \subseteq (Base + 1)..Len(log)
  BY DEF LogOk, JoinedOk
<1>2. log'[Base] = log[Base] /\ joined' \subseteq (Base + 1)..Len(log')
  BY <1>1 DEF Base
<1>3. \A k \in joined : log'[k] = log[k] /\ log'[k - 1] = log[k - 1]
  <2> TAKE k \in joined
  <2>1. k \in 1..Len(log) /\ k - 1 \in 1..Len(log)
    BY <1>1 DEF Base
  <2> QED
    BY <2>1
<1>4. \A k \in joined' : \E t \in tale'.trunk : \A p \in DOMAIN tale'.tree :
        t[p] = log'[Base][p] => log'[k][p] = log'[k - 1][p]
  BY <1>2, <1>3 DEF JoinedOk
<1> QED
  BY <1>2, <1>4 DEF JoinedOk

\* An edit appends a tree over the same paths; what it checks out is older than the branch.
LEMMA EditKeeps ==
  ASSUME IInv, Edit
  PROVE  LogOk' /\ JoinedOk' /\ DeskOk'
<1> USE DEF IInv
<1>1. PICK patch \in tale.patches :
        /\ log' = Append(log, Over(patch, Last(log)))
        /\ Checkout(patch)
  BY DEF Edit
<1>2. tale' = tale /\ joined' = joined
  BY DEF Edit
<1>3. /\ {Book} \cup ReceiptPaths \subseteq DOMAIN tale.tree
      /\ DOMAIN patch \subseteq DOMAIN tale.tree /\ FilesOk(patch)
  BY TaleAssumption
<1>4. Len(log) \in Nat \ {0} /\ DOMAIN Last(log) = DOMAIN tale.tree /\ BookOk(Last(log)[Book])
  BY DEF LogOk, Last
<1> DEFINE e == Over(patch, Last(log))
<1>5. DOMAIN e = DOMAIN tale.tree
  BY <1>3, <1>4 DEF Over
<1>6. BookOk(e[Book])
  <2>1. CASE Book \in DOMAIN patch
    <3>1. e[Book] = patch[Book]
      BY <2>1 DEF Over
    <3> QED
      BY <2>1, <3>1, <1>3 DEF FilesOk
  <2>2. CASE Book \notin DOMAIN patch
    <3>1. e[Book] = Last(log)[Book]
      BY <2>2, <1>3, <1>4 DEF Over
    <3> QED
      BY <3>1, <1>4
  <2> QED
    BY <2>1, <2>2
<1>7. /\ LogOk' /\ Len(log') = Len(log) + 1
      /\ \A k \in 1..Len(log) : log'[k] = log[k]
  <2> HIDE DEF e
  <2>1. log' = Append(log, e)
    BY <1>1 DEF e
  <2> QED
    BY <1>2, <1>5, <1>6, <2>1, LogGrows
<1>8. Len(log') \in Nat /\ Len(log) <= Len(log')
  BY <1>4, <1>7
<1>9. JoinedOk'
  BY <1>2, <1>7, <1>8, JoinedStays
<1>10. \A r : MeasuredAt(r, log) => MeasuredAt(r, log')
  BY <1>4, <1>7, <1>8, StillMeasured
<1>11. DeskOk'
  <2>1. DOMAIN desk' = ReceiptPaths
    BY <1>1 DEF Checkout
  <2>2. BookOk(folio')
    BY <1>1, <1>3 DEF Checkout, FilesOk, DeskOk
  <2>3. ASSUME NEW p \in ReceiptPaths, NEW r \in desk'[p]
        PROVE  Earlier(r) \/ MeasuredAt(r, log')
    <3>1. CASE p \in DOMAIN patch
      <4>1. r \in patch[p]
        BY <3>1, <1>1 DEF Checkout
      <4> QED
        BY <4>1, <3>1, <1>3 DEF FilesOk
    <3>2. CASE p \notin DOMAIN patch
      <4>1. r \in desk[p]
        BY <3>2, <1>1 DEF Checkout
      <4> QED
        BY <4>1, <1>10 DEF DeskOk
    <3> QED
      BY <3>1, <3>2
  <2> QED
    BY <2>1, <2>2, <2>3 DEF DeskOk
<1> QED
  BY <1>7, <1>9, <1>11

\* A merge appends a tree that takes from this branch whatever the other one left alone.
LEMMA MergeKeeps ==
  ASSUME IInv, Merge
  PROVE  LogOk' /\ JoinedOk' /\ DeskOk'
<1> USE DEF IInv
<1>1. PICK t \in tale.trunk : \E ours \in SUBSET (Names(log[Base], t) \cap Names(log[Base], Last(log))) :
        log' = Append(log, [p \in DOMAIN t |-> IF p \in Names(log[Base], t) \ ours THEN t[p] ELSE Last(log)[p]])
  BY DEF Merge
<1>2. PICK ours \in SUBSET (Names(log[Base], t) \cap Names(log[Base], Last(log))) :
        log' = Append(log, [p \in DOMAIN t |-> IF p \in Names(log[Base], t) \ ours THEN t[p] ELSE Last(log)[p]])
  BY <1>1
<1>3. tale' = tale /\ joined = {} /\ joined' = {Len(log) + 1} /\ desk' = desk /\ folio' = folio
  BY DEF Merge
<1>4. /\ {Book} \cup ReceiptPaths \subseteq DOMAIN tale.tree
      /\ DOMAIN t = DOMAIN tale.tree /\ FilesOk(t)
  BY TaleAssumption
<1>5. Len(log) \in Nat \ {0} /\ DOMAIN Last(log) = DOMAIN tale.tree /\ BookOk(Last(log)[Book])
  BY DEF LogOk, Last
<1> DEFINE e == [p \in DOMAIN t |-> IF p \in Names(log[Base], t) \ ours THEN t[p] ELSE Last(log)[p]]
<1>6. DOMAIN e = DOMAIN tale.tree
  BY <1>4
<1>7. BookOk(e[Book])
  <2>1. e[Book] = t[Book] \/ e[Book] = Last(log)[Book]
    BY <1>4
  <2> QED
    BY <2>1, <1>4, <1>5 DEF FilesOk
<1>8. \A p \in DOMAIN tale.tree : t[p] = log[Base][p] => e[p] = Last(log)[p]
  BY <1>4 DEF Names
<1>9. /\ LogOk' /\ Len(log') = Len(log) + 1 /\ log'[Len(log) + 1] = e
      /\ \A k \in 1..Len(log) : log'[k] = log[k]
  <2> HIDE DEF e
  <2>1. log' = Append(log, e)
    BY <1>2 DEF e
  <2> QED
    BY <1>3, <1>6, <1>7, <2>1, LogGrows
<1>10. Len(log') \in Nat /\ Len(log) <= Len(log')
  BY <1>5, <1>9
<1>11. DeskOk'
  BY <1>3, <1>9, <1>10, DeskStays
<1>12. JoinedOk'
  <2> HIDE DEF e
  <2>1. joined' \subseteq (Base + 1)..Len(log')
    BY <1>3, <1>5, <1>9 DEF Base
  <2>2. log'[Base] = log[Base] /\ log'[Len(log) + 1 - 1] = Last(log)
    BY <1>5, <1>9 DEF Base, Last
  <2>3. \A p \in DOMAIN tale'.tree :
          t[p] = log'[Base][p] => log'[Len(log) + 1][p] = log'[Len(log) + 1 - 1][p]
    BY <1>3, <1>8, <1>9, <2>2
  <2> QED
    BY <1>3, <2>1, <2>3 DEF JoinedOk
<1> QED
  BY <1>9, <1>11, <1>12

\* A commit of records appends a tree with the receipts and the ledger of the desk.
LEMMA CommitRecordsKeeps ==
  ASSUME IInv, CommitRecords
  PROVE  LogOk' /\ JoinedOk' /\ DeskOk'
<1> USE DEF IInv
<1>1. PICK S \in SUBSET (ReceiptPaths \cup {Book}) :
        log' = Append(log, [p \in DOMAIN Last(log) |->
                 IF p \in S THEN (IF p = Book THEN folio ELSE desk[p]) ELSE Last(log)[p]])
  BY DEF CommitRecords
<1>2. tale' = tale /\ joined' = joined /\ desk' = desk /\ folio' = folio
  BY DEF CommitRecords
<1>3. /\ Len(log) \in Nat \ {0} /\ DOMAIN Last(log) = DOMAIN tale.tree /\ BookOk(Last(log)[Book])
      /\ Book \in DOMAIN tale.tree
  BY TaleAssumption DEF LogOk, Last
<1> DEFINE e == [p \in DOMAIN Last(log) |->
                   IF p \in S THEN (IF p = Book THEN folio ELSE desk[p]) ELSE Last(log)[p]]
<1>4. DOMAIN e = DOMAIN tale.tree
  BY <1>3
<1>5. BookOk(e[Book])
  <2>1. e[Book] = folio \/ e[Book] = Last(log)[Book]
    BY <1>3
  <2> QED
    BY <2>1, <1>3 DEF DeskOk
<1>6. /\ LogOk' /\ Len(log') = Len(log) + 1
      /\ \A k \in 1..Len(log) : log'[k] = log[k]
  <2> HIDE DEF e
  <2>1. log' = Append(log, e)
    BY <1>1 DEF e
  <2> QED
    BY <1>2, <1>4, <1>5, <2>1, LogGrows
<1>7. Len(log') \in Nat /\ Len(log) <= Len(log')
  BY <1>3, <1>6
<1> QED
  BY <1>2, <1>6, <1>7, JoinedStays, DeskStays

\* A receipt as verify.py writes it describes its range, and answers as it was answered.
LEMMA NewIsMeasured ==
  ASSUME NEW l, Len(l) \in Nat, NEW h \in (Base + 1)..Len(l), NEW b \in Base..(h - 1),
         NEW a, AnswerOk(a), NEW no, NEW at
  PROVE  /\ MeasuredAt(NewReceipt(l, b, h, a, no, at), l)
         /\ NewReceipt(l, b, h, a, no, at).verdicts = a.verdicts
         /\ NewReceipt(l, b, h, a, no, at).exemptions = a.exemptions
         /\ NewReceipt(l, b, h, a, no, at).base = b
         /\ NewReceipt(l, b, h, a, no, at).head = h
<1> DEFINE files == DOMAIN Changed([before |-> l[b], after |-> l[h]])
           f == [no |-> no, rev |-> 0, mode |-> "diff", base |-> b, head |-> h, captured |-> at,
                 files |-> files, admission |-> AdmissionVerdict(a.verdicts, a.exemptions)]
           r == NewReceipt(l, b, h, a, no, at)
<1>1. r = Over(f, a)
  BY DEF NewReceipt
<1>2. /\ DOMAIN f = {"no", "rev", "mode", "base", "head", "captured", "files", "admission"}
      /\ f["mode"] = "diff" /\ f["base"] = b /\ f["head"] = h /\ f["files"] = files
  OBVIOUS
<1>3. /\ {"mode", "base", "head", "files", "verdicts", "exemptions", "rev", "admission"} \subseteq DOMAIN r
      /\ r["mode"] = "diff" /\ r["base"] = b /\ r["head"] = h /\ r["files"] = files
      /\ r["verdicts"] = a["verdicts"] /\ r["exemptions"] = a["exemptions"]
  <2> HIDE DEF f, r, files
  <2> QED
    BY <1>1, <1>2 DEF Over, AnswerOk
<1>4. /\ r.mode = "diff" /\ r.base = b /\ r.head = h /\ r.files = files
      /\ r.verdicts = a.verdicts /\ r.exemptions = a.exemptions
  <2> HIDE DEF f, r
  <2> QED
    BY <1>3
<1>5. MeasuredAt(r, l)
  <2> HIDE DEF r
  <2> QED
    BY <1>3, <1>4 DEF MeasuredAt, AnswerOk
<1> QED
  BY <1>4, <1>5

\* A receipt file is written.
LEMMA DeskWritten ==
  ASSUME DeskOk, log' = log, folio' = folio, NEW p \in ReceiptPaths, NEW n, Earlier(n) \/ MeasuredAt(n, log),
         desk' = [desk EXCEPT ![p] = {n}]
  PROVE  DeskOk'
<1>1. DOMAIN desk' = ReceiptPaths /\ BookOk(folio')
  BY DEF DeskOk
<1>2. ASSUME NEW q \in ReceiptPaths, NEW r \in desk'[q]
      PROVE  Earlier(r) \/ MeasuredAt(r, log')
  <2>1. r = n \/ r \in desk[q]
    BY DEF DeskOk
  <2> QED
    BY <2>1 DEF DeskOk
<1> QED
  BY <1>1, <1>2 DEF DeskOk

\* Without a commit the log and its merges are as they were.
LEMMA LogStays ==
  ASSUME LogOk, JoinedOk, tale' = tale, log' = log, joined' = joined
  PROVE  LogOk' /\ JoinedOk'
<1>1. LogOk'
  BY DEF LogOk
<1>2. JoinedOk'
  BY DEF JoinedOk
<1> QED
  BY <1>1, <1>2

\* verify.py puts a receipt of the branch on the desk.
LEMMA IssueKeeps ==
  ASSUME IInv, Issue
  PROVE  LogOk' /\ JoinedOk' /\ DeskOk'
<1> USE DEF IInv
<1>1. PICK b \in Base..(Len(log) - 1), p \in ReceiptPaths, a \in tale.answers :
        desk' = [desk EXCEPT ![p] = {NewReceipt(log, b, Len(log), a, issued + 1, hour)}]
  BY DEF Issue
<1>2. tale' = tale /\ log' = log /\ joined' = joined /\ folio' = folio
  BY DEF Issue
<1>3. AnswerOk(a)
  BY TaleAssumption
<1>4. Len(log) \in Nat /\ Len(log) \in (Base + 1)..Len(log)
  BY DEF LogOk, Base
<1>5. MeasuredAt(NewReceipt(log, b, Len(log), a, issued + 1, hour), log)
  BY <1>3, <1>4, NewIsMeasured
<1> QED
  BY <1>1, <1>2, <1>5, DeskWritten, LogStays

\* So does reissue, in place of the one receipt of the work item.
LEMMA ReissueKeeps ==
  ASSUME IInv, Reissue
  PROVE  LogOk' /\ JoinedOk' /\ DeskOk'
<1> USE DEF IInv
<1> DEFINE p == Only(PreviousSelfReceipts(Last(log)))
<1>1. PICK a \in tale.answers :
        desk' = [desk EXCEPT ![p] = {NewReceipt(log, Base, Len(log), a, issued + 1, hour)}]
  BY DEF Reissue
<1>2. tale' = tale /\ log' = log /\ joined' = joined /\ folio' = folio
  BY DEF Reissue
<1>3. AnswerOk(a)
  BY TaleAssumption
<1>4. Len(log) \in Nat /\ Len(log) \in (Base + 1)..Len(log) /\ Base \in Base..(Len(log) - 1)
  BY DEF LogOk, Base, Reissue
<1>5. MeasuredAt(NewReceipt(log, Base, Len(log), a, issued + 1, hour), log)
  BY <1>3, <1>4, NewIsMeasured
<1>6. p \in ReceiptPaths
  <2>1. PreviousSelfReceipts(Last(log)) # {}
    <3>1. Cardinality(PreviousSelfReceipts(Last(log))) = 1
      BY DEF Reissue
    <3>2. Cardinality({}) = 0
      BY FS_EmptySet
    <3> QED
      BY <3>1, <3>2
  <2>2. p \in PreviousSelfReceipts(Last(log))
    BY <2>1 DEF Only
  <2> QED
    BY <2>2 DEF PreviousSelfReceipts
<1> HIDE DEF p
<1> QED
  BY <1>1, <1>2, <1>5, <1>6, DeskWritten, LogStays

\* The receipt an exempt command writes is of the range it was.
LEMMA ExemptedIsMeasured ==
  ASSUME NEW l, NEW r, Earlier(r) \/ MeasuredAt(r, l), NEW case, NEW g, NEW pins, NEW at
  PROVE  Earlier(Exempted(r, case, g, pins, at)) \/ MeasuredAt(Exempted(r, case, g, pins, at), l)
<1> DEFINE synth == SynthesizedEntity(case, g.head)
           verdicts == [e \in DOMAIN r.verdicts \cup {synth} |-> IF e = synth THEN N ELSE r.verdicts[e]]
           kept == {x \in r.exemptions : x.code \notin StructuralCodes} \cup StructuralExemption(g, case, pins, r, at)
           adm == AdmissionVerdict(verdicts, kept)
           n == Exempted(r, case, g, pins, at)
<1>1. n = [r EXCEPT !.verdicts = verdicts, !.exemptions = kept, !.rev = @ + 1, !.admission = adm]
  BY DEF Exempted
<1>2. (\A e \in DOMAIN r.verdicts : r.verdicts[e] \in Verdicts) => \A e \in DOMAIN verdicts : verdicts[e] \in Verdicts
  BY DEF Verdicts
<1> HIDE DEF n, verdicts, kept, adm
<1>3. /\ DOMAIN n = DOMAIN r
      /\ "mode" \in DOMAIN r => n.mode = r.mode
      /\ "base" \in DOMAIN r => n.base = r.base
      /\ "head" \in DOMAIN r => n.head = r.head
      /\ "files" \in DOMAIN r => n.files = r.files
      /\ "verdicts" \in DOMAIN r => n.verdicts = verdicts
  BY <1>1
<1>4. Earlier(r) => Earlier(n)
  BY <1>3 DEF Earlier
<1>5. MeasuredAt(r, l) => MeasuredAt(n, l)
  BY <1>2, <1>3 DEF MeasuredAt
<1> QED
  BY <1>4, <1>5, Zenon DEF n

\* A signed decision changes nothing of what the receipt says of its range.
LEMMA DecidedIsMeasured ==
  ASSUME NEW l, NEW r, Earlier(r) \/ MeasuredAt(r, l), NEW e, NEW class, NEW who, NEW at
  PROVE  Earlier(Decided(r, e, class, who, at)) \/ MeasuredAt(Decided(r, e, class, who, at), l)
<1> DEFINE x == [entity |-> e, code |-> Decision, owner |-> TRUE, expires |-> at + DecisionTtl, at |-> at,
                 binding |-> <<r.base, r.head>>, receipt |-> r.no, signer |-> who, class |-> class]
           kept == {y \in r.exemptions : y.entity # e} \cup {x}
           adm == AdmissionVerdict(r.verdicts, kept)
           n == Decided(r, e, class, who, at)
<1>1. n = [r EXCEPT !.exemptions = kept, !.rev = @ + 1, !.admission = adm]
  BY DEF Decided
<1> HIDE DEF n, kept, adm
<1>2. /\ DOMAIN n = DOMAIN r
      /\ "mode" \in DOMAIN r => n.mode = r.mode
      /\ "base" \in DOMAIN r => n.base = r.base
      /\ "head" \in DOMAIN r => n.head = r.head
      /\ "files" \in DOMAIN r => n.files = r.files
      /\ "verdicts" \in DOMAIN r => n.verdicts = r.verdicts
  BY <1>1
<1>3. Earlier(r) => Earlier(n)
  BY <1>2 DEF Earlier
<1>4. MeasuredAt(r, l) => MeasuredAt(n, l)
  BY <1>2 DEF MeasuredAt
<1> QED
  BY <1>3, <1>4, Zenon DEF n

\* exempt rewrites a receipt of the desk; one from before the branch stays one.
LEMMA ExemptKeeps ==
  ASSUME IInv, Exempt
  PROVE  LogOk' /\ JoinedOk' /\ DeskOk'
<1>1. PICK p \in ReceiptPaths : \E r \in desk[p] : \E b7 \in Opinions :
        /\ r.rev < tale.revisions
        /\ \E g \in {RangeOf(log, joined, Len(log), b7)} : \E split \in {SplitOutside(g)} :
           \E case \in {StructuralCaseOf(g, split)} \ {"none"} :
             /\ (case = "declaration_amend") = (b7 # NoOpinion)
             /\ EvaluateStructural(g, case, split).eligible
             /\ desk' = [desk EXCEPT ![p] = {Exempted(r, case, g, split.pins, hour)}]
  BY Zenon DEF Exempt
<1>2. PICK r \in desk[p] : \E g, case, pins :
        desk' = [desk EXCEPT ![p] = {Exempted(r, case, g, pins, hour)}]
  BY <1>1, ZenonT(40)
<1> USE DEF IInv
<1>3. PICK g, case, pins : desk' = [desk EXCEPT ![p] = {Exempted(r, case, g, pins, hour)}]
  BY <1>2, Zenon
<1>4. tale' = tale /\ log' = log /\ joined' = joined /\ folio' = folio
  BY DEF Exempt
<1>5. Earlier(r) \/ MeasuredAt(r, log)
  BY DEF DeskOk
<1>6. \/ Earlier(Exempted(r, case, g, pins, hour))
      \/ MeasuredAt(Exempted(r, case, g, pins, hour), log)
  BY <1>5, ExemptedIsMeasured
<1> QED
  BY <1>3, <1>4, <1>6, DeskWritten, LogStays

\* So does exempt-decision.
LEMMA ExemptDecisionKeeps ==
  ASSUME IInv, ExemptDecision
  PROVE  LogOk' /\ JoinedOk' /\ DeskOk'
<1> USE DEF IInv
<1>1. PICK p \in ReceiptPaths : \E r \in desk[p] : \E e, class, who :
        desk' = [desk EXCEPT ![p] = {Decided(r, e, class, who, hour)}]
  BY DEF ExemptDecision
<1>2. PICK r \in desk[p] : \E e, class, who :
        desk' = [desk EXCEPT ![p] = {Decided(r, e, class, who, hour)}]
  BY <1>1
<1>3. PICK e, class, who : desk' = [desk EXCEPT ![p] = {Decided(r, e, class, who, hour)}]
  BY <1>2
<1>4. tale' = tale /\ log' = log /\ joined' = joined /\ folio' = folio
  BY DEF ExemptDecision
<1>5. Earlier(r) \/ MeasuredAt(r, log)
  BY DEF DeskOk
<1>6. \/ Earlier(Decided(r, e, class, who, hour))
      \/ MeasuredAt(Decided(r, e, class, who, hour), log)
  BY <1>5, DecidedIsMeasured
<1> QED
  BY <1>3, <1>4, <1>6, DeskWritten, LogStays

\* The surroundings never change, so the gate's arithmetic is the same in both states of a step.
LEMMA SameTale ==
  ASSUME tale' = tale
  PROVE  /\ \A l, j, d, book, at, own, bound, g :
              Gate(l, j, d, book, at, own, bound, g)' = Gate(l, j, d, book, at, own, bound, g)
         /\ \A l, j, h, b7 : RangeOf(l, j, h, b7)' = RangeOf(l, j, h, b7)
         /\ \A tree : LedgerAt(tree)' = LedgerAt(tree)
         /\ \A l, bound : CoveredLedgerAnchor(l, bound)' = CoveredLedgerAnchor(l, bound)
<1>1. \A l, j, h : MergeOf(l, j, h)' = MergeOf(l, j, h)
  BY DEF MergeOf
<1>2. \A tree : RunsOf(tree)' = RunsOf(tree)
  BY DEF RunsOf
<1>3. \A l, j, h, b7 : RangeOf(l, j, h, b7)' = RangeOf(l, j, h, b7)
  BY <1>1, <1>2, ZenonT(40) DEF RangeOf
<1>4. \A e : PathOf(e)' = PathOf(e)
  BY DEF PathOf
<1>5. \A case, entities, g, pins : StructuralCovered(case, entities, g, pins)' = StructuralCovered(case, entities, g, pins)
  BY <1>4 DEF StructuralCovered
<1>6. \A l, r, struct, g, split, case : RecheckAs(l, r, struct, g, split, case)' = RecheckAs(l, r, struct, g, split, case)
  BY <1>5 DEF RecheckAs
<1>7. \A l, r, struct, g : RecheckOf(l, r, struct, g)' = RecheckOf(l, r, struct, g)
  BY <1>6 DEF RecheckOf, RecheckRange
<1>8. \A l, j, h, r, struct : RecheckStructural(l, j, h, r, struct)' = RecheckStructural(l, j, h, r, struct)
  BY <1>3, <1>7 DEF RecheckStructural
<1>9. \A l, b : DecisionSigners(l, b)' = DecisionSigners(l, b)
  BY DEF DecisionSigners
<1>10. \A l, r, e, class : DecisionEligible(l, r, e, class)' = DecisionEligible(l, r, e, class)
  BY <1>4 DEF DecisionEligible
<1>11. \A l, r, x, at : DecisionOk(l, r, x, at)' = DecisionOk(l, r, x, at)
  BY <1>9, <1>10 DEF DecisionOk
<1>12. \A l, r, at : UndecidedExemptions(l, r, at)' = UndecidedExemptions(l, r, at)
  BY <1>11 DEF UndecidedExemptions
<1>13. \A tree : LedgerAt(tree)' = LedgerAt(tree)
  BY DEF LedgerAt, EmptyLedger
<1>14. \A l, bound : CoveredLedgerAnchor(l, bound)' = CoveredLedgerAnchor(l, bound)
  BY DEF CoveredLedgerAnchor
<1>15. \A l, h, bound : LedgerPathOk(l, h, bound)' = LedgerPathOk(l, h, bound)
  BY <1>13, <1>14 DEF LedgerPathOk
<1>16. \A l, j, k : TouchedBy(l, j, k)' = TouchedBy(l, j, k)
  BY DEF TouchedBy
<1>17. \A l, j, h, bound : TrailingPaths(l, j, h, bound)' = TrailingPaths(l, j, h, bound)
  BY <1>16 DEF TrailingPaths
<1>18. \A l, j, d, g, bound : TrailingRecords(l, j, d, g, bound)' = TrailingRecords(l, j, d, g, bound)
  <2> TAKE l, j, d, g, bound
  <2>1. TrailingPaths(l, j, g.head, bound)' = TrailingPaths(l, j, g.head, bound)
    BY <1>17
  <2>2. LedgerPathOk(l, g.head, bound)' = LedgerPathOk(l, g.head, bound)
    BY <1>15
  <2> QED
    BY <2>1, <2>2 DEF TrailingRecords
<1>19. \A r, book : EvidenceMissing(r, book)' = EvidenceMissing(r, book)
  BY DEF EvidenceMissing
<1>20. \A bound, book : EvidenceGap(bound, book)' = EvidenceGap(bound, book)
  BY <1>19 DEF EvidenceGap
<1>21. \A d, h, book, own, bound, changed, records :
         GateCodes(d, h, book, own, bound, changed, records)' = GateCodes(d, h, book, own, bound, changed, records)
  <2> TAKE d, h, book, own, bound, changed, records
  <2>1. EvidenceGap(bound, book)' = EvidenceGap(bound, book)
    BY <1>20
  <2> QED
    BY <2>1, ZenonT(40) DEF GateCodes
<1>22. \A l, j, d, book, at, own, bound, g :
         Gate(l, j, d, book, at, own, bound, g)' = Gate(l, j, d, book, at, own, bound, g)
  BY <1>8, <1>12, <1>18, <1>21 DEF Gate
<1> QED
  BY <1>3, <1>13, <1>14, <1>22

\* The receipts that bind the range are receipts of this branch.
LEMMA BoundIsMeasured ==
  ASSUME LogOk, DeskOk, NEW h \in Nat, NEW r \in Bound(desk, h)
  PROVE  MeasuredAt(r, log)
<1>1. PICK p \in ReceiptPaths : r \in desk[p]
  BY DEF Bound, Range, DeskOk
<1>2. r.head \in (Base + 1)..h
  BY DEF Bound, ReceiptBinds
<1>3. ~Earlier(r)
  BY <1>2 DEF Earlier, Base
<1> QED
  BY <1>1, <1>3 DEF DeskOk

\* One more commit binds no other receipt of the desk.
LEMMA BoundStays ==
  ASSUME LogOk, DeskOk
  PROVE  Bound(desk, Len(log) + 1) = Bound(desk, Len(log))
<1>1. Len(log) \in Nat
  BY DEF LogOk
<1>2. ASSUME NEW r \in UNION Range(desk)
      PROVE  ReceiptBinds(r, Len(log) + 1) <=> ReceiptBinds(r, Len(log))
  <2>1. PICK p \in ReceiptPaths : r \in desk[p]
    BY DEF Range, DeskOk
  <2>2. CASE Earlier(r)
    BY <1>1, <2>2 DEF Earlier, Base, ReceiptBinds
  <2>3. CASE MeasuredAt(r, log)
    BY <1>1, <2>3 DEF MeasuredAt, Base, ReceiptBinds
  <2> QED
    BY <2>1, <2>2, <2>3 DEF DeskOk
<1> QED
  BY <1>2 DEF Bound

\* The ledger's anchor is a commit of the log, and the same after one more commit.
LEMMA AnchorStays ==
  ASSUME NEW l, Len(l) \in Nat \ {0}, NEW m, \A k \in 1..Len(l) : m[k] = l[k],
         NEW bound, \A r \in bound : MeasuredAt(r, l)
  PROVE  /\ CoveredLedgerAnchor(m, bound) = CoveredLedgerAnchor(l, bound)
         /\ CoveredLedgerAnchor(l, bound) \in 1..Len(l)
<1> DEFINE Covers(q, k) == /\ q.mode = "diff" /\ q.base = Base /\ q.item = {tale.item} /\ Book \in q.files
                           /\ k[q.head][Book] # {} /\ k[q.head][Book] # k[Base][Book]
           heads(k) == {r.head : r \in {q \in bound : Covers(q, k)}}
<1>1. \A q \in bound : q.head \in 1..Len(l) /\ m[q.head] = l[q.head]
  <2> TAKE q \in bound
  <2>1. q.head \in (Base + 1)..Len(l)
    BY DEF MeasuredAt
  <2>2. q.head \in 1..Len(l)
    BY <2>1 DEF Base
  <2> QED
    BY <2>2
<1>2. m[Base] = l[Base] /\ Base \in 1..Len(l)
  BY DEF Base
<1>3. \A q \in bound : Covers(q, m) <=> Covers(q, l)
  BY <1>1, <1>2
<1>4. heads(m) = heads(l)
  <2> HIDE DEF Covers
  <2> QED
    BY <1>3
<1>5. heads(l) \subseteq 0..Len(l) /\ heads(l) \subseteq 1..Len(l)
  BY <1>1
<1>6. /\ CoveredLedgerAnchor(m, bound) = IF heads(m) = {} THEN Base ELSE Max(heads(m))
      /\ CoveredLedgerAnchor(l, bound) = IF heads(l) = {} THEN Base ELSE Max(heads(l))
  BY DEF CoveredLedgerAnchor
<1>7. heads(l) # {} => Max(heads(l)) \in heads(l)
  <2> HIDE DEF heads
  <2> QED
    BY <1>5, MaxIsGreatest
<1> QED
  <2> HIDE DEF heads
  <2> QED
    BY <1>2, <1>4, <1>5, <1>6, <1>7

\* The ledger attach writes is one it has judged.
LEMMA AttachKeeps ==
  ASSUME IInv, Attach
  PROVE  LogOk' /\ JoinedOk' /\ DeskOk' /\ LedgerOk'
<1>0. tale \in Tales /\ LogOk /\ JoinedOk /\ DeskOk
  BY DEF IInv
<1> DEFINE h == Len(log)
           bound == Bound(desk, h)
           anchor == LedgerAt(log[CoveredLedgerAnchor(log, bound)])
           ledger == IF folio = {} THEN anchor ELSE Only(folio)
<1> DEFINE digest(p) == Digest(Only(desk[p]))
           status(p, d) == IF digest(p) \in {x.digest : x \in ledger.rows} THEN "not_measured" ELSE d[1]
           att(p, d) == [digest |-> digest(p), path |-> p, delivery |-> status(p, d)]
<1>1. PICK p \in ReceiptPaths, d \in tale.deliveries :
        /\ desk[p] # {} /\ desk[p] \subseteq bound /\ Only(desk[p]).item = {tale.item}
        /\ Attachable(ledger, MergeAttachment(ledger, att(p, d), anchor), anchor, bound)
        /\ folio' = {MergeAttachment(ledger, att(p, d), anchor)}
  BY DEF Attach
<1> DEFINE merged == MergeAttachment(ledger, att(p, d), anchor)
<1>11. /\ desk[p] # {} /\ desk[p] \subseteq bound /\ Only(desk[p]).item = {tale.item}
       /\ Attachable(ledger, merged, anchor, bound) /\ folio' = {merged}
  BY <1>1
<1> HIDE DEF att
<1>2. tale' = tale /\ log' = log /\ joined' = joined /\ desk' = desk /\ tale.program
  BY DEF Attach
<1>3. h \in Nat \ {0} /\ \A r \in bound : MeasuredAt(r, log)
  BY <1>0, BoundIsMeasured DEF LogOk
<1>4. CoveredLedgerAnchor(log, bound) \in 1..h
  <2> HIDE DEF bound
  <2> QED
    BY <1>3, AnchorStays
<1>5. DOMAIN ledger = {"item", "rest", "rows"}
  <2>1. DOMAIN anchor = {"item", "rest", "rows"}
    <3> DEFINE tree == log[CoveredLedgerAnchor(log, bound)]
    <3>1. BookOk(tree[Book])
      <4> HIDE DEF bound
      <4> QED
        BY <1>0, <1>4 DEF LogOk
    <3> HIDE DEF tree
    <3>2. DOMAIN LedgerAt(tree) = {"item", "rest", "rows"}
      <4>1. CASE tree[Book] = {}
        BY <4>1 DEF LedgerAt, EmptyLedger
      <4>2. CASE tree[Book] # {}
        <5>1. Only(tree[Book]) \in tree[Book]
          BY <4>2 DEF Only
        <5>2. DOMAIN Only(tree[Book]) = {"item", "rest", "rows"}
          BY <3>1, <4>2, <5>1 DEF BookOk
        <5> QED
          BY <4>2, <5>2 DEF LedgerAt
      <4> QED
        BY <4>1, <4>2
    <3> QED
      BY <3>2 DEF tree
  <2>2. folio # {} => DOMAIN Only(folio) = {"item", "rest", "rows"}
    <3>1. folio # {} => Only(folio) \in folio
      BY DEF Only
    <3> QED
      BY <1>0, <3>1 DEF DeskOk, BookOk
  <2> QED
    BY <2>1, <2>2
<1> HIDE DEF ledger, anchor, bound
<1>6. DOMAIN merged = {"item", "rest", "rows"} /\ merged.item = ledger.item
  BY <1>5 DEF MergeAttachment
<1> HIDE DEF merged
<1>7. merged.item = tale.item /\ LedgerDocumentOk(merged, anchor, bound)
  BY <1>11, <1>6 DEF Attachable
<1>8. LogOk' /\ JoinedOk'
  BY <1>0, <1>2, LogStays
<1>9. DeskOk'
  BY <1>0, <1>11, <1>2, <1>6 DEF DeskOk, BookOk
<1>10. LedgerOk'
  <2>1. Bound(desk', Len(log')) = bound
    BY <1>2 DEF bound
  <2>2. LedgerAt(log[CoveredLedgerAnchor(log, Bound(desk, Len(log)))])' = anchor
    BY <1>2, SameTale DEF anchor, bound
  <2>3. \E r \in bound : r.item = {tale.item}
    <3>1. Only(desk[p]) \in desk[p]
      BY <1>11 DEF Only
    <3> QED
      BY <1>11, <3>1
  <2> QED
    BY <1>2, <1>7, <1>11, <2>1, <2>2, <2>3 DEF LedgerOk
<1> QED
  BY <1>8, <1>9, <1>10

\* A judged ledger, committed with the receipts of the desk, is a record to the gate.
LEMMA JudgedIsRecord == IInv => AttachedIsAdmissible
<1> SUFFICES ASSUME IInv, penned
             PROVE  LET tree == [p \in DOMAIN Last(log) |->
                                   IF p = Book THEN folio ELSE IF p \in ReceiptPaths THEN desk[p] ELSE Last(log)[p]]
                        l == Append(log, tree)
                        g == RangeOf(l, joined, Len(l), NoOpinion)
                    IN Book \notin TrailingRecords(l, joined, desk, g, Bound(desk, Len(l))).after
  BY Zenon DEF AttachedIsAdmissible
<1>0. tale \in Tales /\ LogOk /\ DeskOk /\ LedgerOk
  BY DEF IInv
<1> DEFINE h == Len(log)
           bound == Bound(desk, h)
           anchor == LedgerAt(log[CoveredLedgerAnchor(log, bound)])
           tree == [p \in DOMAIN Last(log) |->
                      IF p = Book THEN folio ELSE IF p \in ReceiptPaths THEN desk[p] ELSE Last(log)[p]]
           l == Append(log, tree)
           g == RangeOf(l, joined, Len(l), NoOpinion)
<1>1. /\ tale.program /\ \E r \in bound : r.item = {tale.item}
      /\ \E b \in folio : folio = {b} /\ b.item = tale.item /\ LedgerDocumentOk(b, anchor, bound)
  BY <1>0 DEF LedgerOk
<1>2. PICK b \in folio : folio = {b} /\ b.item = tale.item /\ LedgerDocumentOk(b, anchor, bound)
  BY <1>1
<1>3. h \in Nat \ {0} /\ \A r \in bound : MeasuredAt(r, log)
  BY <1>0, BoundIsMeasured DEF LogOk
<1>4. Book \in DOMAIN Last(log)
  BY <1>0, TaleAssumption DEF LogOk, Last
<1>5. tree[Book] = {b}
  BY <1>2, <1>4
<1>6. /\ Len(l) = h + 1 /\ l[h + 1] = tree
      /\ \A k \in 1..h : l[k] = log[k]
  <2> HIDE DEF tree
  <2> QED
    BY <1>0, Appended DEF LogOk
<1>7. Bound(desk, Len(l)) = bound
  <2> HIDE DEF l
  <2> QED
    BY <1>0, <1>6, BoundStays
<1> HIDE DEF tree, l, bound, anchor
<1>8. /\ CoveredLedgerAnchor(l, bound) = CoveredLedgerAnchor(log, bound)
      /\ CoveredLedgerAnchor(log, bound) \in 1..h
  BY <1>3, <1>6, AnchorStays
<1>9. LedgerAt(l[CoveredLedgerAnchor(l, bound)]) = anchor
  <2>1. l[CoveredLedgerAnchor(log, bound)] = log[CoveredLedgerAnchor(log, bound)]
    BY <1>6, <1>8
  <2> QED
    BY <2>1, <1>8 DEF anchor
<1>10. Only(l[h + 1][Book]) = b /\ l[h + 1][Book] # {}
  BY <1>5, <1>6 DEF Only
<1>11. LedgerPathOk(l, h + 1, bound)
  BY <1>1, <1>2, <1>9, <1>10 DEF LedgerPathOk
<1>12. g.head = h + 1
  BY <1>6 DEF RangeOf
<1>13. Book \notin TrailingRecords(l, joined, desk, g, bound).after
  <2> HIDE DEF g
  <2> QED
    BY <1>11, <1>12 DEF TrailingRecords, SortRecords
<1> QED
  BY <1>7, <1>13 DEF tree, l

\* The receipt the gate writes for an automated author.
LEMMA OwnIsMeasured ==
  ASSUME IInv, Len(log) > Base, NEW own \in OwnReceipts
  PROVE  OwnOk(own, log)
<1> DEFINE g == RangeOf(log, joined, Len(log), NoOpinion)
<1>1. CASE own = {}
  BY <1>1 DEF OwnOk
<1>2. CASE own # {}
  <2>1. PICK a \in tale.answers : own = SynthesizeAutomatedReceipt(log, g, a, hour)
    BY <1>2 DEF OwnReceipts
  <2>2. AnswerOk(a) /\ Len(log) \in Nat /\ Len(log) \in (Base + 1)..Len(log) /\ Base \in Base..(Len(log) - 1)
    BY TaleAssumption DEF IInv, LogOk, Base
  <2>3. g.base = Base /\ g.head = Len(log)
    BY DEF RangeOf
  <2> HIDE DEF g
  <2> DEFINE rules == << <<tale.job = "none", N>>, <<tale.conclusion = "success", V>>, <<tale.conclusion = "none", N>> >>
             job == Decide(rules, F)
             unit == {e \in DOMAIN a.verdicts : e[1] = "unit"}
             measured == [e \in DOMAIN a.verdicts |->
                            IF e \in unit /\ a.verdicts[e] # F /\ job # V THEN job ELSE a.verdicts[e]]
             author == <<"authorship", g.head>>
             exempt == [entity |-> author, code |-> "automated", owner |-> TRUE, expires |-> hour + StructuralTtl]
             judged == AdmissionVerdict(measured, {})
             verdicts == [e \in DOMAIN measured \cup {author} |-> IF e = author THEN N ELSE measured[e]]
             adm == IF judged = "admitted" THEN "admitted_with_exemptions" ELSE judged
             n == NewReceipt(log, g.base, g.head, a, 0, hour)
             r == [n EXCEPT !.verdicts = verdicts, !.exemptions = @ \cup {exempt}, !.admission = adm]
  <2>4. own = {r}
    BY <1>2, <2>1 DEF SynthesizeAutomatedReceipt
  <2>5. job \in Verdicts
    <3>1. /\ Len(rules) = 3
          /\ rules[1][2] = N /\ rules[2][2] = V /\ rules[3][2] = N
      OBVIOUS
    <3> HIDE DEF rules
    <3>2. Decide(rules, F) = F \/ \E i \in 1..Len(rules) : Decide(rules, F) = rules[i][2]
      BY <3>1, DecideAnswers
    <3> QED
      BY <3>1, <3>2 DEF Verdicts
  <2> HIDE DEF job
  <2>6. \A e \in DOMAIN verdicts : verdicts[e] \in Verdicts
    BY <2>2, <2>5 DEF AnswerOk, Verdicts
  <2>7. MeasuredAt(n, log) /\ n.exemptions = a.exemptions
    BY <2>2, <2>3, NewIsMeasured
  <2> HIDE DEF n, verdicts, adm, exempt
  <2>8. /\ DOMAIN r = DOMAIN n /\ r.mode = n.mode /\ r.base = n.base /\ r.head = n.head /\ r.files = n.files
        /\ r.verdicts = verdicts /\ r.exemptions = n.exemptions \cup {exempt}
    BY <2>7 DEF MeasuredAt
  <2>9. MeasuredAt(r, log)
    <3> HIDE DEF r
    <3> QED
      BY <2>6, <2>7, <2>8 DEF MeasuredAt
  <2>10. \A x \in r.exemptions : x.code # Decision
    <3> HIDE DEF r
    <3>1. exempt.code = "automated"
      BY DEF exempt
    <3> QED
      BY <2>2, <2>7, <2>8, <3>1 DEF AnswerOk, Decision
  <2> QED
    BY <2>4, <2>9, <2>10 DEF OwnOk
<1> QED
  BY <1>1, <1>2

\* The invariant holds where a branch starts.
LEMMA InitHolds == Init => IInv
<1> SUFFICES ASSUME Init PROVE IInv
  OBVIOUS
<1>1. /\ tale \in Tales /\ log = <<tale.tree>> /\ joined = {} /\ ruling = {} /\ penned = FALSE
      /\ desk = [p \in ReceiptPaths |-> tale.tree[p]] /\ folio = tale.tree[Book]
  BY DEF Init
<1>2. {Book} \cup ReceiptPaths \subseteq DOMAIN tale.tree /\ FilesOk(tale.tree)
  BY <1>1, TaleAssumption
<1>3. BookOk(tale.tree[Book]) /\ \A p \in ReceiptPaths : \A r \in tale.tree[p] : Earlier(r)
  BY <1>2 DEF FilesOk
<1>4. LogOk
  <2>1. Len(log) = 1 /\ log[1] = tale.tree /\ log \in Seq({tale.tree})
    BY <1>1
  <2>2. Range(log) = {tale.tree}
    BY <1>1 DEF Range
  <2> QED
    BY <1>3, <2>1, <2>2 DEF LogOk, Base
<1>5. JoinedOk
  BY <1>1 DEF JoinedOk
<1>6. DeskOk
  BY <1>1, <1>3 DEF DeskOk
<1> QED
  BY <1>1, <1>4, <1>5, <1>6 DEF IInv, LedgerOk, RulingOk

\* Nothing but the clock or the ruling moves: the penned ledger is as it was.
LEMMA LedgerStays ==
  ASSUME LedgerOk, tale' = tale, log' = log, desk' = desk, folio' = folio, penned' = penned
  PROVE  LedgerOk'
<1> DEFINE bound == Bound(desk, Len(log))
           anchor == LedgerAt(log[CoveredLedgerAnchor(log, bound)])
<1>1. Bound(desk', Len(log')) = bound
  OBVIOUS
<1>2. LedgerAt(log[CoveredLedgerAnchor(log, Bound(desk, Len(log)))])' = anchor
  BY SameTale
<1> QED
  BY <1>1, <1>2 DEF LedgerOk

\* The gate's answer is about the state it was given in.
LEMMA JudgeKeeps ==
  ASSUME IInv, Judge
  PROVE  LogOk' /\ JoinedOk' /\ DeskOk' /\ LedgerOk' /\ RulingOk'
<1> DEFINE g == RangeOf(log, joined, Len(log), NoOpinion)
           G(own) == Gate(log, joined, desk, folio, hour, own, Bound(desk, Len(log)) \cup own, g)
<1>1. /\ tale' = tale /\ log' = log /\ joined' = joined /\ desk' = desk /\ folio' = folio /\ hour' = hour
      /\ penned' = penned /\ Len(log) > Base
  BY DEF Judge
<1>2. PICK own \in OwnReceipts : ruling' = {[codes |-> G(own), verdict |-> Verdict(G(own)), own |-> own]}
  BY DEF Judge
<1>3. OwnOk(own, log)
  BY <1>1, OwnIsMeasured
<1>4. LogOk' /\ JoinedOk' /\ DeskOk' /\ LedgerOk'
  <2>1. LogOk /\ JoinedOk /\ DeskOk /\ LedgerOk
    BY DEF IInv
  <2>2. DeskOk'
    BY <1>1, <2>1 DEF DeskOk
  <2> QED
    BY <1>1, <2>1, <2>2, LogStays, LedgerStays
<1>5. RangeOf(log, joined, Len(log), NoOpinion)' = g
  BY <1>1, SameTale
<1>6. \A o : Gate(log, joined, desk, folio, hour, o, Bound(desk, Len(log)) \cup o,
                  RangeOf(log, joined, Len(log), NoOpinion))' = G(o)
  BY <1>1, <1>5, SameTale
<1> HIDE DEF G, g
<1>7. RulingOk'
  <2>1. \A q \in ruling' : /\ ruling' = {q} /\ q.own = own /\ q.codes = G(q.own) /\ q.verdict = Verdict(q.codes)
    BY <1>2
  <2>2. \A q \in ruling' : OwnOk(q.own, log')
    BY <1>1, <1>3, <2>1
  <2> QED
    BY <1>6, <2>1, <2>2 DEF RulingOk
<1> QED
  BY <1>4, <1>7

\* Every step of the author and of the gate keeps the invariant.
LEMMA StepKeeps == IInv /\ [Next]_vars => IInv'
<1> SUFFICES ASSUME IInv, [Next]_vars PROVE IInv'
  OBVIOUS
<1>1. tale \in Tales /\ LogOk /\ JoinedOk /\ DeskOk /\ LedgerOk /\ RulingOk
  BY DEF IInv
<1>2. tale' \in Tales
  BY <1>1 DEF Next, vars, Edit, Merge, Issue, Reissue, Exempt, ExemptDecision, Attach, CommitRecords, Tick, Judge
<1>3. ASSUME ruling = {}, ruling' = ruling PROVE RulingOk'
  BY <1>3 DEF RulingOk
<1>4. ASSUME penned' = FALSE PROVE LedgerOk'
  BY <1>4 DEF LedgerOk
<1>5. CASE Edit
  <2>1. ruling = {} /\ ruling' = ruling /\ penned' = FALSE
    BY <1>5 DEF Edit, Open
  <2> QED
    BY <1>2, <1>3, <1>4, <1>5, <2>1, EditKeeps DEF IInv
<1>6. CASE Merge
  <2>1. ruling = {} /\ ruling' = ruling /\ penned' = FALSE
    BY <1>6 DEF Merge, Open
  <2> QED
    BY <1>2, <1>3, <1>4, <1>6, <2>1, MergeKeeps DEF IInv
<1>7. CASE Issue
  <2>1. ruling = {} /\ ruling' = ruling /\ penned' = FALSE
    BY <1>7 DEF Issue, Open
  <2> QED
    BY <1>2, <1>3, <1>4, <1>7, <2>1, IssueKeeps DEF IInv
<1>8. CASE Reissue
  <2>1. ruling = {} /\ ruling' = ruling /\ penned' = FALSE
    BY <1>8 DEF Reissue, Open
  <2> QED
    BY <1>2, <1>3, <1>4, <1>8, <2>1, ReissueKeeps DEF IInv
<1>9. CASE Exempt
  <2>1. ruling = {} /\ ruling' = ruling /\ penned' = FALSE
    BY <1>9 DEF Exempt, Open
  <2> QED
    BY <1>2, <1>3, <1>4, <1>9, <2>1, ExemptKeeps DEF IInv
<1>10. CASE ExemptDecision
  <2>1. ruling = {} /\ ruling' = ruling /\ penned' = FALSE
    BY <1>10 DEF ExemptDecision, Open
  <2> QED
    BY <1>2, <1>3, <1>4, <1>10, <2>1, ExemptDecisionKeeps DEF IInv
<1>11. CASE Attach
  <2>1. ruling = {} /\ ruling' = ruling
    BY <1>11 DEF Attach, Open
  <2> QED
    BY <1>2, <1>3, <1>11, <2>1, AttachKeeps DEF IInv
<1>12. CASE CommitRecords
  <2>1. ruling = {} /\ ruling' = ruling /\ penned' = FALSE
    BY <1>12 DEF CommitRecords, Open
  <2> QED
    BY <1>2, <1>3, <1>4, <1>12, <2>1, CommitRecordsKeeps DEF IInv
<1>13. CASE Tick
  <2>1. /\ ruling = {} /\ ruling' = ruling
        /\ tale' = tale /\ log' = log /\ joined' = joined /\ desk' = desk /\ folio' = folio /\ penned' = penned
    BY <1>13 DEF Tick, Open
  <2>2. DeskOk'
    BY <1>1, <2>1 DEF DeskOk
  <2> QED
    BY <1>1, <1>2, <1>3, <2>1, <2>2, LogStays, LedgerStays DEF IInv
<1>14. CASE Judge
  BY <1>2, <1>14, JudgeKeeps DEF IInv
<1>15. CASE UNCHANGED vars
  <2>1. /\ ruling' = ruling /\ hour' = hour
        /\ tale' = tale /\ log' = log /\ joined' = joined /\ desk' = desk /\ folio' = folio /\ penned' = penned
    BY <1>15 DEF vars
  <2>2. DeskOk'
    BY <1>1, <2>1 DEF DeskOk
  <2>3. RulingOk'
    <3> DEFINE g == RangeOf(log, joined, Len(log), NoOpinion)
               G(own) == Gate(log, joined, desk, folio, hour, own, Bound(desk, Len(log)) \cup own, g)
    <3>1. RangeOf(log, joined, Len(log), NoOpinion)' = g
      BY <2>1, SameTale
    <3>2. \A own : Gate(log, joined, desk, folio, hour, own, Bound(desk, Len(log)) \cup own,
                        RangeOf(log, joined, Len(log), NoOpinion))' = G(own)
      BY <2>1, <3>1, SameTale
    <3>3. \A q \in ruling : /\ ruling = {q} /\ OwnOk(q.own, log) /\ q.verdict = Verdict(q.codes)
                            /\ q.codes = G(q.own)
      BY <1>1 DEF RulingOk
    <3> HIDE DEF G, g
    <3> QED
      BY <2>1, <3>2, <3>3 DEF RulingOk
  <2> QED
    BY <1>1, <1>2, <2>1, <2>2, <2>3, LogStays, LedgerStays DEF IInv
<1> QED
  BY <1>5, <1>6, <1>7, <1>8, <1>9, <1>10, <1>11, <1>12, <1>13, <1>14, <1>15 DEF Next

\* The invariant holds of every branch on its way through the gate.
LEMMA Invariant == Spec => []IInv
BY InitHolds, StepKeeps, PTL DEF Spec

\* Whatever `attach' has written can be committed with the receipts as they stand, and the gate takes
\* the ledger for a record and not for an edit nobody saw (trailing_record_commits).
THEOREM AttachedRecordIsAdmitted == Spec => []AttachedIsAdmissible
BY Invariant, JudgedIsRecord, PTL

\* A rule that applies shows its code.
LEMMA RuleShows ==
  ASSUME NEW rows, NEW c, NEW name, <<c, name>> \in rows, name \notin Codes(rows)
  PROVE  ~c
BY DEF Codes

\* Without a code that refuses, some receipt binds the range and no path behind it is unseen.
LEMMA NoRangeCode ==
  ASSUME NEW d, NEW h, NEW book, NEW own, NEW bound, NEW changed, NEW records,
         GateCodes(d, h, book, own, bound, changed, records) \cap RefuseCodes = {}
  PROVE  bound # {} /\ records.after = {}
<1> DEFINE uncovered == changed \ ((UNION {r.files : r \in bound}) \cup records.admitted)
           codes == GateCodes(d, h, book, own, bound, changed, records)
           rows == {
       <<tale.description = "bypass", "C01">>, <<own # {}, "C14">>,
       <<tale.author # "human" /\ own = {}, "C15">>,
       <<tale.explicit /\ Unbound(d, h) # {}, "C05">>,
       <<bound = {}, "C03">>, <<bound = {} /\ tale.description = "claim", "C02">>,
       <<bound # {} /\ (uncovered \cup records.after) # {}, "C06">>,
       <<tale.enforcement # "off" /\ EvidenceGap(bound, book), "C13">> }
<1>1. codes = Codes(rows)
  BY DEF GateCodes
<1>2. "C03" \notin Codes(rows) /\ "C06" \notin Codes(rows)
  <2> HIDE DEF rows, codes
  <2> QED
    BY <1>1 DEF RefuseCodes, codes
<1>3. <<bound = {}, "C03">> \in rows /\ <<bound # {} /\ (uncovered \cup records.after) # {}, "C06">> \in rows
  OBVIOUS
<1> HIDE DEF rows
<1>4. ~(bound = {})
  BY <1>2, <1>3, RuleShows
<1>5. ~(bound # {} /\ (uncovered \cup records.after) # {})
  BY <1>2, <1>3, RuleShows
<1> QED
  BY <1>4, <1>5

\* Without a code that refuses or pauses, a receipt's exemptions were rechecked and cover what it leaves open.
LEMMA NoReceiptCode ==
  ASSUME NEW r, NEW undecided, NEW recheck, NEW codes, codes = GateReceipt(r, undecided, recheck),
         codes \cap RefuseCodes = {}, codes \cap PauseCodes = {},
         \A e \in DOMAIN r.verdicts : r.verdicts[e] \in Verdicts
  PROVE  /\ recheck.ok
         /\ \A e \in DOMAIN r.verdicts : r.verdicts[e] # V =>
              \E x \in r.exemptions : x.entity = e /\ r.captured < x.expires /\ x \notin undecided
<1> DEFINE struct == StructuralOf(r)
           valid == {x.entity : x \in DatedExemptions(r)} \ ({x.entity : x \in undecided} \cup
                      IF recheck.ok THEN {} ELSE {x.entity : x \in struct})
           verdict == ProbeEffective(r)
           open == {verdict[e] : e \in DOMAIN verdict \ valid}
           claims == r.far \ valid
           rows == {
       <<~r.conformant, "C04">>, <<~r.fresh, "C07">>, <<~r.covers, "C18">>,
       <<DatedExemptions(r) # r.exemptions, "C10">>, <<undecided # {}, "C21">>,
       <<~recheck.ok, "C16">>, <<recheck.ok /\ recheck.gap, "C17">>, <<verdict # r.verdicts, "C19">>,
       <<F \in open, "C08">>, <<N \in open, "C09">>,
       <<r.admission = "paused_safe", "C11p">>,
       <<r.admission \notin {"admitted", "admitted_with_exemptions", "paused_safe"}, "C11">>,
       <<\E c \in CashedCanaries(r, claims) : CanaryProblem(c), "C12">>,
       <<~(claims \subseteq CanaryCovered(r)), "C12">> }
<1>1. codes = Codes(rows)
  BY DEF GateReceipt
<1>2. <<~recheck.ok, "C16">> \in rows /\ <<F \in open, "C08">> \in rows /\ <<N \in open, "C09">> \in rows
  OBVIOUS
<1> HIDE DEF rows, open, valid
<1>3. "C16" \notin Codes(rows) /\ "C08" \notin Codes(rows) /\ "C09" \notin Codes(rows)
  BY <1>1 DEF RefuseCodes, PauseCodes
<1>4. ~~recheck.ok
  BY <1>2, <1>3, RuleShows
<1>5. ~(F \in open)
  BY <1>2, <1>3, RuleShows
<1>6. ~(N \in open)
  BY <1>2, <1>3, RuleShows
<1>7. ASSUME NEW e \in DOMAIN r.verdicts, r.verdicts[e] # V
      PROVE  \E x \in r.exemptions : x.entity = e /\ r.captured < x.expires /\ x \notin undecided
  <2>1. DOMAIN verdict = DOMAIN r.verdicts /\ verdict[e] = r.verdicts[e]
    BY <1>7 DEF ProbeEffective
  <2>2. verdict[e] = N \/ verdict[e] = F
    BY <1>7, <2>1 DEF Verdicts
  <2>3. e \in valid
    <3> HIDE DEF verdict
    <3> QED
      BY <1>5, <1>6, <2>1, <2>2 DEF open
  <2>4. PICK x \in DatedExemptions(r) : x.entity = e
    BY <2>3 DEF valid
  <2>5. x \notin undecided
    BY <2>3, <2>4 DEF valid
  <2> QED
    BY <2>4, <2>5 DEF DatedExemptions
<1> QED
  BY <1>4, <1>7

\* What an admission says: the receipts it rests on are of this branch, no path behind them is
\* unseen, the exemptions of every one were rechecked and cover what it leaves open.
LEMMA AdmissionMeans ==
  ASSUME IInv, Admitted
  PROVE  /\ Judged # {} /\ \A r \in Judged : MeasuredAt(r, log)
         /\ TrailingRecords(log, joined, desk, RangeOf(log, joined, Len(log), NoOpinion), Judged).after = {}
         /\ \A r \in Judged : RecheckStructural(log, joined, Len(log), r, StructuralOf(r)).ok
         /\ \A r \in Judged : \A e \in DOMAIN r.verdicts : r.verdicts[e] # V =>
              \E x \in r.exemptions : x.entity = e /\ r.captured < x.expires
                                      /\ (x.code = Decision => DecisionOk(log, r, x, hour))
<1>1. PICK q \in ruling : q.verdict = "admit"
  BY DEF Admitted
<1> DEFINE h == Len(log)
           g == RangeOf(log, joined, h, NoOpinion)
           bound == Bound(desk, h) \cup q.own
           range == GateCodes(desk, g.head, folio, q.own, bound, DOMAIN Changed(g),
                              TrailingRecords(log, joined, desk, g, bound))
           undecided(r) == IF r \in q.own THEN {} ELSE UndecidedExemptions(log, r, hour)
           recheck(r) == RecheckStructural(log, joined, g.head, r, StructuralOf(r))
<1>2. ruling = {q} /\ OwnOk(q.own, log) /\ q.verdict = Verdict(q.codes)
  BY DEF IInv, RulingOk
<1>3. q.codes = Gate(log, joined, desk, folio, hour, q.own, bound, g)
  BY DEF IInv, RulingOk
<1>4. Judged = bound
  BY <1>2 DEF Judged
<1>5. q.codes \cap RefuseCodes = {} /\ q.codes \cap PauseCodes = {}
  BY <1>1, <1>2, VerdictAdmits
<1>6. h \in Nat /\ \A r \in bound : MeasuredAt(r, log)
  BY <1>2, BoundIsMeasured DEF IInv, LogOk, OwnOk
<1>7. g.head = h
  BY DEF RangeOf
<1>8. /\ range \subseteq q.codes
      /\ \A r \in bound : GateReceipt(r, undecided(r), recheck(r)) \subseteq q.codes
  <2> HIDE DEF g, bound
  <2> QED
    BY <1>3 DEF Gate
<1>9. bound # {} /\ TrailingRecords(log, joined, desk, g, bound).after = {}
  <2>1. range \cap RefuseCodes = {}
    <3> HIDE DEF range
    <3> QED
      BY <1>5, <1>8
  <2> HIDE DEF g, bound
  <2> QED
    BY <2>1, NoRangeCode
<1> HIDE DEF g, bound
<1>10. ASSUME NEW r \in bound
       PROVE  /\ recheck(r).ok
              /\ \A e \in DOMAIN r.verdicts : r.verdicts[e] # V =>
                   \E x \in r.exemptions : x.entity = e /\ r.captured < x.expires
                                           /\ (x.code = Decision => DecisionOk(log, r, x, hour))
  <2> DEFINE codes == GateReceipt(r, undecided(r), recheck(r))
  <2>1. codes \cap RefuseCodes = {} /\ codes \cap PauseCodes = {}
    <3>1. codes \subseteq q.codes
      BY <1>8
    <3> HIDE DEF codes
    <3> QED
      BY <1>5, <3>1
  <2>2. \A e \in DOMAIN r.verdicts : r.verdicts[e] \in Verdicts
    BY <1>6 DEF MeasuredAt
  <2> HIDE DEF undecided, recheck
  <2>3. /\ recheck(r).ok
        /\ \A e \in DOMAIN r.verdicts : r.verdicts[e] # V =>
             \E x \in r.exemptions : x.entity = e /\ r.captured < x.expires /\ x \notin undecided(r)
    BY <2>1, <2>2, NoReceiptCode
  <2>4. ASSUME NEW x \in r.exemptions, x \notin undecided(r), x.code = Decision
        PROVE  DecisionOk(log, r, x, hour)
    <3>1. r \notin q.own
      BY <1>2, <2>4 DEF OwnOk
    <3>2. x \notin UndecidedExemptions(log, r, hour)
      BY <2>4, <3>1 DEF undecided
    <3>3. Decision \notin StructuralCodes
      BY DEF Decision, StructuralCodes
    <3> QED
      BY <2>4, <3>2, <3>3 DEF UndecidedExemptions
  <2> QED
    BY <2>3, <2>4
<1> QED
  BY <1>4, <1>6, <1>7, <1>9, <1>10 DEF g

\* Nothing open is admitted.
LEMMA AdmittedIsAccounted == IInv => OpenIsAccounted
<1> SUFFICES ASSUME IInv, Admitted, NEW r \in Judged, NEW e \in DOMAIN r.verdicts, r.verdicts[e] # V
             PROVE  \E x \in r.exemptions :
                      /\ x.entity = e /\ r.captured < x.expires
                      /\ x.code = Decision =>
                           /\ r.verdicts[e] = N /\ hour < x.expires
                           /\ x.signer \in (IF tale.program THEN UNION log[Base]["policy"] ELSE tale.pinned)
  BY DEF OpenIsAccounted
<1>1. PICK x \in r.exemptions : x.entity = e /\ r.captured < x.expires
                                /\ (x.code = Decision => DecisionOk(log, r, x, hour))
  BY AdmissionMeans
<1> QED
  BY <1>1 DEF DecisionOk, DecisionEligible, DecisionSigners

\* The gate admits no range with an open entity: each one that is not verified has an exemption that
\* still holds, a decision among them only for one not measured, in time, and signed by a key that the
\* base enrols (C08, C09, C10, C21 of `gate').
THEOREM AdmittedLeavesNothingOpen == Spec => []OpenIsAccounted
BY Invariant, AdmittedIsAccounted, PTL

\* A path that no commit after m touched is at the head as it was at m. The induction over the
\* commits is by the least one that differs.
LEMMA UntouchedStays ==
  ASSUME LogOk, JoinedOk, NEW m \in 1..Len(log), NEW p \in DOMAIN tale.tree,
         \A k \in (m + 1)..Len(log) : p \notin TouchedBy(log, joined, k)
  PROVE  log[m][p] = log[Len(log)][p]
<1> DEFINE D == {k \in m..Len(log) : log[k][p] # log[m][p]}
<1>1. Len(log) \in Nat \ {0} /\ \A k \in 1..Len(log) : DOMAIN log[k] = DOMAIN tale.tree
  BY DEF LogOk
<1>2. CASE D = {}
  BY <1>1, <1>2
<1>3. CASE D # {}
  <2>1. PICK k \in D : \A i \in D : k <= i
    <3>1. D \subseteq Nat
      BY <1>1
    <3> HIDE DEF D
    <3> QED
      BY <1>3, <3>1, LeastNatural
  <2>2. k \in (m + 1)..Len(log) /\ k - 1 \in m..Len(log) /\ k - 1 \in 1..Len(log)
    BY <1>1
  <2>3. log[k - 1][p] = log[m][p]
    BY <1>1, <2>1, <2>2
  <2>4. p \notin TouchedBy(log, joined, k)
    BY <2>2
  <2>5. CASE k \notin joined
    BY <1>1, <2>2, <2>3, <2>4, <2>5 DEF TouchedBy, Names
  <2>6. CASE k \in joined
    <3>1. PICK t \in tale.trunk : t[p] = log[Base][p] => log[k][p] = log[k - 1][p]
      BY <2>6 DEF JoinedOk
    <3>2. p \notin Names(log[Base], t)
      BY <2>4, <2>6 DEF TouchedBy
    <3>3. t[p] = log[Base][p]
      BY <1>1, <3>2 DEF Names, Base
    <3> QED
      BY <2>3, <3>1, <3>3
  <2> QED
    BY <2>5, <2>6
<1> QED
  BY <1>2, <1>3

\* The artefacts that the declared verifiers prove.
LEMMA ProvedRuns ==
  ASSUME NEW g, g.worktree = TRUE, NEW paths, VerifyDeclaredArtefacts(g, paths) = V, NEW p \in paths
  PROVE  DerivedRun(g.runs[p]) = <<V, V>>
<1> DEFINE stop == FirstUnproved(g, paths)
           run == DerivedRun(g.runs[Only(stop)])
           otherwise == IF stop = {} THEN V ELSE IF run = <<N, N>> THEN N ELSE F
           rules == << <<~g.worktree, N>>, <<stop = {}, V>> >>
<1>1. Decide(rules, otherwise) = V
  BY DEF VerifyDeclaredArtefacts
<1>2. Len(rules) = 2
  OBVIOUS
<1>3. stop = {}
  <2>1. SUFFICES ASSUME stop # {} PROVE FALSE
    OBVIOUS
  <2>2. otherwise # V
    BY <2>1 DEF V, N, F
  <2>3. ~rules[1][1] /\ ~rules[2][1]
    BY <2>1
  <2> HIDE DEF rules, otherwise, stop
  <2>4. ~\E i \in 1..Len(rules) : rules[i][1]
    BY <1>2, <2>3
  <2> QED
    BY <1>1, <1>2, <2>2, <2>4, DecideAnswers
<1>4. {q \in paths : DerivedRun(g.runs[q]) # <<V, V>>} = {}
  BY <1>3 DEF FirstUnproved
<1> QED
  BY <1>4

\* The records among the trailing paths, and why the gate knows them.
LEMMA RecordIsKnown ==
  ASSUME IInv, NEW g, g = RangeOf(log, joined, Len(log), NoOpinion), \A r \in Judged : MeasuredAt(r, log),
         TrailingRecords(log, joined, desk, g, Judged).after = {},
         NEW p \in TrailingPaths(log, joined, Len(log), Judged)
  PROVE  Known(p)
<1> DEFINE h == Len(log)
           trailing == TrailingPaths(log, joined, h, Judged)
           ledgers == IF LedgerPathOk(log, h, Judged) THEN {Book} ELSE {}
           receipts == {x \in trailing \cap ReceiptPaths : desk[x] # {} /\ desk[x] \subseteq Judged /\ log[h][x] = desk[x]}
           ledger == trailing \cap ledgers
           derived == {x \in trailing \ (receipts \cup ledger) : x # Book /\ RecordPathOk(g, x, FALSE)}
           proved == IF derived # {} /\ VerifyDeclaredArtefacts(g, derived) = V THEN derived ELSE {}
<1>1. g.head = h /\ g.before = log[Base] /\ g.worktree = TRUE
  BY DEF RangeOf
<1>2. p \in receipts \cup ledger \cup proved
  <2>1. TrailingRecords(log, joined, desk, g, Judged) = SortRecords(log, desk, g, Judged, trailing, ledgers)
    BY <1>1 DEF TrailingRecords
  <2>2. SortRecords(log, desk, g, Judged, trailing, ledgers).after = trailing \ (receipts \cup ledger \cup proved)
    <3> HIDE DEF trailing, ledgers
    <3> QED
      BY <1>1 DEF SortRecords
  <2> HIDE DEF receipts, ledger, proved
  <2> QED
    BY <2>1, <2>2
<1>3. CASE p \in receipts
  BY <1>3 DEF Known
<1>4. CASE p \in ledger
  <2>1. p = Book /\ LedgerPathOk(log, h, Judged)
    BY <1>4
  <2> DEFINE anchor == LedgerAt(log[CoveredLedgerAnchor(log, Judged)])
  <2>2. log[h][Book] # {} /\ LedgerDocumentOk(Only(log[h][Book]), anchor, Judged)
    BY <2>1 DEF LedgerPathOk
  <2>3. BookOk(log[h][Book])
    BY DEF IInv, LogOk
  <2>4. \A b \in log[h][Book] : b = Only(log[h][Book])
    BY <2>2, <2>3 DEF BookOk, Only
  <2> HIDE DEF anchor
  <2>5. \A b \in log[h][Book] : /\ b.rest = anchor.rest
                                 /\ \A x \in b.rows \ anchor.rows : x.digest \in {Digest(r) : r \in Judged}
    BY <2>2, <2>4 DEF LedgerDocumentOk
  <2> QED
    BY <2>1, <2>5 DEF Known, anchor
<1>5. CASE p \in proved
  <2>1. p \in derived /\ VerifyDeclaredArtefacts(g, derived) = V
    BY <1>5
  <2>2. RecordPathOk(g, p, FALSE)
    BY <2>1
  <2>3. DerivedRun(g.runs[p]) = <<V, V>>
    <3> HIDE DEF derived
    <3> QED
      BY <1>1, <2>1, ProvedRuns
  <2>4. p \in DeclaredArtefacts(ReadDeclaration(log[Base]))
    BY <1>1, <2>2 DEF RecordPathOk
  <2> QED
    BY <2>3, <2>4, Zenon DEF Known
<1> QED
  BY <1>2, <1>3, <1>4, <1>5

\* An admitted range has no bytes that nobody saw: a changed path is a record, or the receipt with
\* the last head saw it as it is.
LEMMA FinalBytesSeen == IInv => AdmittedSawFinalBytes
<1> SUFFICES ASSUME IInv, Admitted, \A r \in Judged : r.base = Base, NEW p \in Names(log[Base], Last(log))
             PROVE  Known(p)
  BY DEF AdmittedSawFinalBytes
<1> DEFINE h == Len(log)
           g == RangeOf(log, joined, h, NoOpinion)
<1>1. /\ Judged # {} /\ \A r \in Judged : MeasuredAt(r, log)
      /\ TrailingRecords(log, joined, desk, g, Judged).after = {}
  BY AdmissionMeans
<1>2. LogOk /\ JoinedOk /\ h \in Nat \ {0} /\ log[Base] = tale.tree /\ Last(log) = log[h]
  BY DEF IInv, LogOk, Last
<1>3. p \in DOMAIN tale.tree /\ log[Base][p] # log[h][p]
  BY <1>2 DEF Names
<1>4. CASE p \in TrailingPaths(log, joined, h, Judged)
  <2> HIDE DEF g
  <2>1. g = RangeOf(log, joined, Len(log), NoOpinion)
    BY DEF g
  <2> QED
    BY <1>1, <1>4, <2>1, RecordIsKnown
<1>5. CASE p \notin TrailingPaths(log, joined, h, Judged)
  <2>1. PICK r \in Judged : \A q \in Judged : q.head <= r.head
    <3> DEFINE heads == {q.head : q \in Judged}
    <3>1. heads \subseteq 0..h /\ heads # {}
      <4>1. ASSUME NEW q \in Judged PROVE q.head \in 0..h
        <5>1. q.head \in (Base + 1)..h
          BY <1>1 DEF MeasuredAt
        <5> QED
          BY <1>2, <5>1 DEF Base
      <4> QED
        BY <1>1, <4>1
    <3>2. PICK m \in heads : \A k \in heads : k <= m
      <4> HIDE DEF heads
      <4> QED
        BY <1>2, <3>1, GreatestNatural
    <3> QED
      BY <3>2
  <2>2. r.head \in (Base + 1)..h /\ r.base = Base /\ \A q \in Judged : q.head \in (Base + 1)..h
    BY <1>1 DEF MeasuredAt
  <2>3. ASSUME NEW k \in (r.head + 1)..h PROVE p \notin TouchedBy(log, joined, k)
    <3>1. k \in (Base + 1)..h /\ \A q \in Judged : q.head < k
      BY <1>2, <2>1, <2>2 DEF Base
    <3>2. k \in TrailingCommits(h, Judged)
      BY <3>1 DEF TrailingCommits
    <3>3. p \in Names(log[Base], log[h])
      BY <1>2
    <3>4. p \notin UNION {TouchedBy(log, joined, i) : i \in TrailingCommits(h, Judged)}
      BY <1>5, <3>3 DEF TrailingPaths
    <3> QED
      BY <3>2, <3>4, Zenon
  <2>4. r.head \in 1..h
    BY <2>2 DEF Base
  <2>5. log[r.head][p] = log[h][p]
    BY <1>2, <1>3, <2>3, <2>4, UntouchedStays
  <2> DEFINE own == [before |-> log[Base], after |-> log[r.head]]
  <2>6. r.files = DOMAIN Changed(own)
    BY <1>1, <2>2 DEF MeasuredAt
  <2>7. own.before = log[Base] /\ own.after = log[r.head]
    OBVIOUS
  <2> HIDE DEF own
  <2>8. DOMAIN Changed(own) = Moved(own) \ RenamedFrom(own)
    BY DEF Changed
  <2>9. p \in Moved(own)
    BY <1>2, <1>3, <2>5, <2>7 DEF Moved
  <2>10. CASE p \in RenamedFrom(own)
    <3>1. p \in ReceiptPaths /\ log[h][p] = {}
      BY <2>5, <2>7, <2>10 DEF RenamedFrom
    <3> QED
      BY <3>1 DEF Known
  <2>11. CASE p \notin RenamedFrom(own)
    BY <2>5, <2>6, <2>8, <2>9, <2>11 DEF Known
  <2> QED
    BY <2>10, <2>11
<1> QED
  BY <1>4, <1>5

\* When every receipt starts at the gate's base, each path an admitted range changed ends as a verified
\* receipt saw it, or is a record (C06 and trailing_record_commits).
THEOREM AdmittedRangeWasSeen == Spec => []AdmittedSawFinalBytes
BY Invariant, FinalBytesSeen, PTL

------------------------------------------------------------------------------
(* The range of a structural exemption. *)

\* What the batteries read of a range apart from the opinions on it.
SameRange(g, k) ==
  /\ g.before = k.before /\ g.after = k.after /\ g.base = k.base /\ g.commits = k.commits /\ g.merge = k.merge

\* The case of a change does not depend on who gave an opinion of it.
LEMMA CaseOfRange ==
  ASSUME NEW g, NEW k, SameRange(g, k)
  PROVE  StructuralCaseOf(g, SplitOutside(g)) = StructuralCaseOf(k, SplitOutside(k))
<1> USE DEF SameRange
<1>1. Moved(g) = Moved(k)
  BY DEF Moved
<1>2. RenamedTo(g) = RenamedTo(k)
  BY <1>1 DEF RenamedTo
<1>3. RenamedFrom(g) = RenamedFrom(k)
  BY <1>1, <1>2 DEF RenamedFrom
<1>4. Changed(g) = Changed(k)
  BY <1>1, <1>2, <1>3 DEF Changed
<1>5. Added(g) = Added(k)
  BY <1>4 DEF Added
<1>6. Managed(g) = Managed(k)
  BY DEF Managed
<1>7. (Bootstraps(g) <=> Bootstraps(k)) /\ DeclarationInForce(g) = DeclarationInForce(k)
  BY <1>5 DEF Bootstraps, DeclarationInForce
<1>8. \A outside : SplitSelfUpdateReceipt(g, outside) = SplitSelfUpdateReceipt(k, outside)
  <2>1. \A p : SelfUpdateReceiptOk(g, p) <=> SelfUpdateReceiptOk(k, p)
    BY <1>5 DEF SelfUpdateReceiptOk
  <2> SUFFICES ASSUME NEW outside PROVE SplitSelfUpdateReceipt(g, outside) = SplitSelfUpdateReceipt(k, outside)
    OBVIOUS
  <2> DEFINE candidates == outside \cap ReceiptPaths
             Own(r) == {p \in candidates : SelfUpdateReceiptOk(r, p)}
             Triples(r) == UNION {q.triples : q \in UNION {r.after[p] : p \in Own(r)}}
             Records(r) == {t \in Triples(r) : t \subseteq outside \cap Added(r)}
  <2>2. Own(g) = Own(k)
    BY <2>1
  <2>3. Triples(g) = Triples(k)
    BY <2>2
  <2>4. Records(g) = Records(k)
    BY <1>5, <2>3
  <2> HIDE DEF Own, Triples, Records
  <2> QED
    BY <2>2, <2>3, <2>4 DEF SplitSelfUpdateReceipt, Own, Triples, Records
<1>9. \A outside : SplitBaseBranchMerge(g, outside) = SplitBaseBranchMerge(k, outside)
  BY <1>6 DEF SplitBaseBranchMerge
<1>10. \A own, merge, declared : SplitRest(g, own, merge, declared) = SplitRest(k, own, merge, declared)
  <2>1. \A p : PinOnlyEdit(g, p) <=> PinOnlyEdit(k, p)
    BY DEF PinOnlyEdit, BaseLocalWorkflowBound
  <2> QED
    BY <2>1 DEF SplitRest
<1>11. SplitOutside(g) = SplitOutside(k)
  BY <1>4, <1>6, <1>7, <1>8, <1>9, <1>10 DEF SplitOutside, SplitAround
<1>12. \A paths : IsSpentReceiptArchive(g, paths) <=> IsSpentReceiptArchive(k, paths)
  BY DEF IsSpentReceiptArchive, ArchiveBytes, ArchiveMoved, SameReceiptOutsideArchive
<1> QED
  BY <1>4, <1>6, <1>7, <1>11, <1>12 DEF StructuralCaseOf

\* The range the gate rechecks an exemption over is the one it judges, whatever opinion came with it.
LEMMA RangeOfOpinion ==
  ASSUME NEW h, NEW b, NEW c
  PROVE  /\ SameRange(RangeOf(log, joined, h, b), RangeOf(log, joined, h, c))
         /\ RangeOf(log, joined, h, b).runs = RangeOf(log, joined, h, c).runs
BY DEF RangeOf, SameRange

\* The receipt a refresh files of itself is a path the range adds.
LEMMA FiledIsAdded ==
  ASSUME NEW g
  PROVE  SplitOutside(g).receipt \subseteq Moved(g)
<1>1. \A receipt : SplitAround(g, receipt).receipt = receipt.own
  BY DEF SplitAround, SplitRest
<1>2. \A outside : SplitSelfUpdateReceipt(g, outside).own \subseteq Added(g)
  <2> SUFFICES ASSUME NEW outside PROVE SplitSelfUpdateReceipt(g, outside).own \subseteq Added(g)
    OBVIOUS
  <2> DEFINE own == {p \in outside \cap ReceiptPaths : SelfUpdateReceiptOk(g, p)}
  <2>1. own \subseteq Added(g)
    BY DEF SelfUpdateReceiptOk
  <2>2. SplitSelfUpdateReceipt(g, outside).own \in {own, {}}
    <3> DEFINE triples == UNION {r.triples : r \in UNION {g.after[p] : p \in own}}
               records == {t \in triples : t \subseteq outside \cap Added(g)}
               split == IF Cardinality(outside \cap ReceiptPaths) # 1 \/ own = {} THEN [own |-> {}, rest |-> outside]
                        ELSE [own |-> own, rest |-> outside \ (own \cup IF Cardinality(triples) = 1 THEN UNION records ELSE {})]
    <3>1. SplitSelfUpdateReceipt(g, outside) = split
      BY DEF SplitSelfUpdateReceipt
    <3> HIDE DEF own, triples, records
    <3> QED
      BY <3>1
  <2> HIDE DEF own
  <2> QED
    BY <2>1, <2>2
<1>3. Added(g) \subseteq Moved(g)
  BY DEF Added, Changed
<1> QED
  BY <1>1, <1>2, <1>3 DEF SplitOutside

\* An exemption is bound to the judged range, or to the receipt's own with nothing but records since.
BoundToRange(l, r, g, filed, x) ==
  \/ x.binding = <<Base, g.head>>
  \/ /\ x.binding = <<Base, r.head>>
     /\ \A p \in Names(l[r.head], g.after) \ filed : RecordPathOk(g, p, TRUE) /\ DerivedRun(g.runs[p]) = <<V, V>>

\* What a recheck without a problem says of one exemption of the receipt.
LEMMA RecheckMeans ==
  ASSUME NEW l, NEW r, NEW g, NEW struct, NEW x, x \in struct, RecheckOf(l, r, struct, g).ok
  PROVE  x.code = StructuralCaseOf(g, SplitOutside(g)) /\ BoundToRange(l, r, g, SplitOutside(g).receipt, x)
<1> DEFINE split == SplitOutside(g)
           case == StructuralCaseOf(g, split)
           covered == StructuralCovered(case, DOMAIN r.verdicts, g, split.pins)
           filed == IF case = "gate_self_update" THEN split.receipt ELSE {}
           record == RecordRangeOk(g, l, filed, r.head)
           battery == EvaluateStructural(g, case, split)
<1>1. RecheckOf(l, r, struct, g) = RecheckAs(l, r, struct, g, split, case)
  BY DEF RecheckOf, RecheckRange
<1>2. case # "none" /\ RecheckCase(l, r, struct, g, split, case, covered, record, battery).ok
  <2> HIDE DEF split, case
  <2>1. CASE case = "none"
    BY <1>1, <2>1 DEF RecheckAs
  <2>2. CASE case # "none"
    BY <1>1, <2>2 DEF RecheckAs
  <2> QED
    BY <2>1, <2>2
<1>3. record => filed = split.receipt /\ \A p \in Names(l[r.head], g.after) \ filed : RecordPathOk(g, p, TRUE)
  <2> HIDE DEF split, case
  <2> QED
    BY DEF RecordRangeOk
<1>4. /\ x.code = case
      /\ x.binding = <<Base, g.head>> \/ (record /\ x.binding = <<Base, r.head>>)
      /\ (record /\ \E y \in struct : y.binding[2] = r.head) =>
           \A p \in Names(l[r.head], g.after) \ split.receipt : DerivedRunVerdict(g, p, split.derived)
  <2> HIDE DEF split, case, covered, record, battery
  <2> QED
    BY <1>2 DEF RecheckCase
<1>5. CASE record /\ x.binding = <<Base, r.head>>
  <2>1. \E y \in struct : y.binding[2] = r.head
    BY <1>5
  <2>2. \A p \in Names(l[r.head], g.after) \ split.receipt : DerivedRunVerdict(g, p, split.derived)
    BY <1>4, <1>5, <2>1
  <2> HIDE DEF split, case, record
  <2> QED
    BY <1>3, <1>4, <1>5, <2>2 DEF DerivedRunVerdict, BoundToRange, split, case
<1> HIDE DEF split, case, record
<1> QED
  BY <1>4, <1>5 DEF BoundToRange, split, case

\* An exemption that the gate let stand covers the range the gate judges.
LEMMA ExemptionCoversRange == IInv => ExemptionIsForTheseBytes
<1> SUFFICES ASSUME IInv, Admitted, NEW r \in Judged, NEW x \in StructuralOf(r)
             PROVE  /\ \A g \in {RangeOf(log, joined, Len(log), NoOpinion)} : StructuralCaseOf(g, SplitOutside(g)) = x.code
                    /\ (\A q \in Judged : q.base = Base) => \A p \in Names(log[x.binding[2]], Last(log)) : Known(p)
  BY DEF ExemptionIsForTheseBytes
<1> DEFINE h == Len(log)
           struct == StructuralOf(r)
           b7 == Only(struct).b7
           k == RangeOf(log, joined, h, b7)
           g == RangeOf(log, joined, h, NoOpinion)
<1>1. RecheckOf(log, r, struct, k).ok
  <2>1. RecheckStructural(log, joined, h, r, struct).ok
    BY AdmissionMeans
  <2>2. struct # {}
    OBVIOUS
  <2> HIDE DEF struct
  <2> QED
    BY <2>1, <2>2 DEF RecheckStructural
<1>2. SameRange(k, g) /\ k.runs = g.runs
  BY RangeOfOpinion
<1>3. k.head = h /\ k.before = log[Base] /\ k.after = log[h]
  BY DEF RangeOf
<1>4. Last(log) = log[h] /\ log[Base] = tale.tree /\ MeasuredAt(r, log) /\ DOMAIN log[r.head] = DOMAIN log[Base]
  BY AdmissionMeans DEF IInv, LogOk, MeasuredAt, Last, Base
<1> HIDE DEF k, g
<1>5. x.code = StructuralCaseOf(k, SplitOutside(k)) /\ BoundToRange(log, r, k, SplitOutside(k).receipt, x)
  <2>1. x \in struct
    OBVIOUS
  <2> HIDE DEF struct
  <2> QED
    BY <1>1, <2>1, RecheckMeans
<1>6. StructuralCaseOf(g, SplitOutside(g)) = x.code
  BY <1>2, <1>5, CaseOfRange
<1>7. ASSUME \A q \in Judged : q.base = Base, NEW p \in Names(log[x.binding[2]], Last(log))
      PROVE  Known(p)
  <2>1. CASE x.binding = <<Base, k.head>>
    BY <1>3, <1>4, <1>7, <2>1 DEF Names
  <2>2. CASE x.binding = <<Base, r.head>> /\ p \in SplitOutside(k).receipt
    <3>1. p \in Moved(k)
      BY <2>2, FiledIsAdded
    <3>2. p \in Names(log[Base], Last(log))
      BY <1>3, <1>4, <3>1 DEF Moved, Names
    <3>3. AdmittedSawFinalBytes
      BY FinalBytesSeen
    <3> QED
      BY <1>7, <3>2, <3>3 DEF AdmittedSawFinalBytes
  <2>3. CASE x.binding = <<Base, r.head>> /\ x.binding # <<Base, k.head>> /\ p \notin SplitOutside(k).receipt
    <3>1. p \in Names(log[r.head], k.after) \ SplitOutside(k).receipt
      BY <1>3, <1>4, <1>7, <2>3
    <3>2. RecordPathOk(k, p, TRUE) /\ DerivedRun(k.runs[p]) = <<V, V>>
      BY <1>5, <2>3, <3>1 DEF BoundToRange
    <3>3. p \in DeclaredArtefacts(ReadDeclaration(log[Base])) /\ DerivedRun(g.runs[p]) = <<V, V>>
      BY <1>2, <1>3, <3>2 DEF RecordPathOk
    <3> QED
      BY <3>3, Zenon DEF Known, g
  <2> QED
    BY <1>5, <2>1, <2>2, <2>3 DEF BoundToRange
<1> QED
  BY <1>6, <1>7 DEF g

\* A structural exemption that stands in an admitted range covers the change it was issued for: the
\* judged range is a change of its case and, when every receipt starts at the gate's base, whatever
\* moved since the head of its binding is a record the gate knows (recheck_structural, DEC-AUP-0041).
THEOREM ExemptionCoversItsChange == Spec => []ExemptionIsForTheseBytes
BY Invariant, ExemptionCoversRange, PTL
=============================================================================
