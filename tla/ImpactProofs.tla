---------------------------- MODULE ImpactProofs ----------------------------
(***************************************************************************)
(* The impact query, for every graph, change, depth and order of the heap. *)
(* A finished search labels exactly the deterministic core as such and,    *)
(* without a depth limit, finds every dependent; the merge of the two      *)
(* revisions keeps every boundary that one of them inferred.               *)
(*                                                                         *)
(* The argument for the search is that of a label-correcting algorithm: a  *)
(* label is the cost of a real path (LabelOk), and a node that is not on   *)
(* the frontier has had its hops followed from the label it has now        *)
(* (Settled).  With the frontier empty every node is settled, and the      *)
(* labels are compared with the balls of the reference radius by radius.   *)
(* Induction over radii is a consequence of the least element of a set of  *)
(* naturals; a ball that grows holds one node more, so a radius of as many *)
(* hops as there are nodes is enough when the depth is not limited.        *)
(***************************************************************************)
EXTENDS Impact, FiniteSetTheorems, FunctionTheorems, WellFoundedInduction, TLAPS

-----------------------------------------------------------------------------
(* Least elements.                                                           *)

\* A set of naturals that is not empty has a least element.
LEMMA LeastNatural ==
  ASSUME NEW T, T \subseteq Nat, T # {}
  PROVE  \E x \in T : \A y \in T : x <= y
<1> DEFINE R == {ss \in Nat \X Nat : ss[1] < ss[2]}
<1>1. IsWellFoundedOn(R, Nat)
  BY NatLessThanWellFounded DEF OpToRel
<1>2. PICK x \in T : \A y \in T : ~ (<<y, x>> \in R)
  <2> HIDE DEF R
  <2> QED
    BY <1>1, WFMin
<1>3. ASSUME NEW y \in T PROVE x <= y
  <2>1. <<y, x>> \in Nat \X Nat /\ <<y, x>> \notin R
    BY <1>2
  <2> QED
    BY <2>1
<1> QED
  BY <1>3

\* So a set that holds 0, and with a number the next one, holds them all.
LEMMA AllNaturals ==
  ASSUME NEW T, 0 \in T, \A k \in Nat : k \in T => k + 1 \in T
  PROVE  Nat \subseteq T
<1> DEFINE bad == {k \in Nat : k \notin T}
<1>1. CASE bad = {}
  BY <1>1
<1>2. CASE bad # {}
  <2>1. PICK k \in bad : \A i \in bad : k <= i
    <3>1. bad \subseteq Nat
      OBVIOUS
    <3> HIDE DEF bad
    <3> QED
      BY <1>2, <3>1, LeastNatural
  <2>2. k \in Nat /\ k # 0 /\ k - 1 \in Nat
    OBVIOUS
  <2>3. k - 1 \in T
    BY <2>1, <2>2
  <2>4. (k - 1) + 1 \in T
    BY <2>2, <2>3
  <2> QED
    BY <2>2, <2>4
<1> QED
  BY <1>1, <1>2

-----------------------------------------------------------------------------
(* The balls around the seeds.                                               *)

\* f computes the balls up to b
Balls(f, b, role, det) ==
  f = [k \in 0..b |-> IF k = 0 THEN Seeds(role) ELSE HopsFrom(f[k - 1], role, det)]

\* The recursive definition of the balls has a solution: one more ball at a time.
LEMMA BallsExist ==
  ASSUME NEW role, NEW det
  PROVE  \A b \in Nat : \E f : Balls(f, b, role, det)
<1> DEFINE T == {b \in Nat : \E f : Balls(f, b, role, det)}
<1>1. 0 \in T
  <2> DEFINE f == [k \in 0..0 |-> Seeds(role)]
  <2>1. Balls(f, 0, role, det)
    BY DEF Balls
  <2> QED
    BY <2>1
<1>2. ASSUME NEW b \in Nat, b \in T PROVE b + 1 \in T
  <2>1. PICK f : Balls(f, b, role, det)
    BY <1>2
  <2> DEFINE g == [k \in 0..(b + 1) |-> IF k = b + 1 THEN HopsFrom(f[b], role, det) ELSE f[k]]
             h == [k \in 0..(b + 1) |-> IF k = 0 THEN Seeds(role) ELSE HopsFrom(g[k - 1], role, det)]
  <2>2. \A k \in 0..b : f[k] = IF k = 0 THEN Seeds(role) ELSE HopsFrom(f[k - 1], role, det)
    BY <2>1 DEF Balls
  <2>3. ASSUME NEW k \in 0..(b + 1) PROVE g[k] = h[k]
    <3>1. CASE k = b + 1
      BY <3>1
    <3>2. CASE k = 0
      BY <2>2, <3>2
    <3>3. CASE k \in 1..b
      <4>1. k \in 0..b /\ k - 1 \in 0..(b + 1) /\ k - 1 # b + 1 /\ k # b + 1 /\ k # 0
        BY <3>3
      <4>2. g[k - 1] = f[k - 1] /\ g[k] = f[k]
        BY <4>1
      <4> QED
        BY <2>2, <4>1, <4>2
    <3> QED
      BY <3>1, <3>2, <3>3
  <2>4. g = h
    BY <2>3
  <2> HIDE DEF g
  <2>5. Balls(g, b + 1, role, det)
    BY <2>4 DEF Balls
  <2> QED
    BY <2>5
<1> HIDE DEF T
<1>3. Nat \subseteq T
  BY <1>1, <1>2, AllNaturals
<1> QED
  BY <1>3 DEF T

\* Two solutions agree as far as both go.
LEMMA BallsAgree ==
  ASSUME NEW role, NEW det, NEW b \in Nat, NEW c \in Nat, NEW f, Balls(f, b, role, det),
         NEW g, Balls(g, c, role, det)
  PROVE  \A k \in Nat : k <= b /\ k <= c => f[k] = g[k]
<1> DEFINE T == {k \in Nat : k <= b /\ k <= c => f[k] = g[k]}
<1>1. /\ \A k \in 0..b : f[k] = IF k = 0 THEN Seeds(role) ELSE HopsFrom(f[k - 1], role, det)
      /\ \A k \in 0..c : g[k] = IF k = 0 THEN Seeds(role) ELSE HopsFrom(g[k - 1], role, det)
  BY DEF Balls
<1>2. 0 \in T
  BY <1>1
<1>3. ASSUME NEW k \in Nat, k \in T PROVE k + 1 \in T
  <2>1. CASE k + 1 <= b /\ k + 1 <= c
    <3>1. k + 1 \in 0..b /\ k + 1 \in 0..c /\ (k + 1) - 1 = k /\ k + 1 # 0
      BY <2>1
    <3>2. f[k] = g[k]
      BY <1>3, <2>1
    <3> QED
      BY <1>1, <3>1, <3>2
  <2> QED
    BY <2>1
<1> HIDE DEF T
<1>4. Nat \subseteq T
  BY <1>2, <1>3, AllNaturals
<1> QED
  BY <1>4 DEF T

\* The balls: the seeds, then one hop more at a time.
BallStep ==
  \A role \in Roles, det \in BOOLEAN :
    /\ Ball(role, det, 0) = Seeds(role)
    /\ \A k \in Nat : Ball(role, det, k + 1) = HopsFrom(Ball(role, det, k), role, det)

\* That is what the definition computes, for every radius.
LEMMA BallsStep == BallStep
<1> SUFFICES ASSUME NEW role \in Roles, NEW det \in BOOLEAN
             PROVE  /\ Ball(role, det, 0) = Seeds(role)
                    /\ \A k \in Nat : Ball(role, det, k + 1) = HopsFrom(Ball(role, det, k), role, det)
  BY DEF BallStep
<1> DEFINE F(b) == CHOOSE f : Balls(f, b, role, det)
<1>1. \A b \in Nat : Ball(role, det, b) = F(b)[b]
  BY DEF Ball, Balls
<1>2. \A b \in Nat : Balls(F(b), b, role, det)
  BY BallsExist
<1> HIDE DEF F
<1>3. \A b \in Nat : \A k \in 0..b : F(b)[k] = IF k = 0 THEN Seeds(role) ELSE HopsFrom(F(b)[k - 1], role, det)
  BY <1>2 DEF Balls
<1>4. Ball(role, det, 0) = Seeds(role)
  BY <1>1, <1>3
<1>5. ASSUME NEW k \in Nat PROVE Ball(role, det, k + 1) = HopsFrom(Ball(role, det, k), role, det)
  <2>1. F(k + 1)[k] = F(k)[k]
    BY <1>2, BallsAgree
  <2>2. F(k + 1)[k + 1] = HopsFrom(F(k + 1)[(k + 1) - 1], role, det)
    <3>1. k + 1 \in Nat /\ k + 1 \in 0..(k + 1) /\ k + 1 # 0
      OBVIOUS
    <3> QED
      BY <1>3, <3>1
  <2>3. (k + 1) - 1 = k /\ k + 1 \in Nat
    OBVIOUS
  <2> QED
    BY <1>1, <2>1, <2>2, <2>3
<1> QED
  BY <1>4, <1>5

\* A hop ends at a node of the graph.
LEMMA HopsInUnit ==
  ASSUME NEW role \in Roles, git.edges[role] \subseteq Edges, NEW n, NEW x \in Neighbours(n, role)
  PROVE  x.next \in Unit /\ x.e \in Edges /\ x.ord \in Nat
<1>1. CASE \E e \in git.edges[role] : x = [e |-> e, next |-> Pool[e].from, ord |-> e]
  BY <1>1, GraphAssumption DEF Edges
<1>2. CASE \E e \in git.edges[role] : x = [e |-> e, next |-> Pool[e].to, ord |-> Len(Pool) + e]
  BY <1>2, GraphAssumption DEF Edges
<1> QED
  BY <1>1, <1>2 DEF Neighbours

\* The seeds are nodes of the graph.
LEMMA SeedsInUnit ==
  ASSUME NEW role \in Roles
  PROVE  Seeds(role) \subseteq Unit
<1>1. \A f : SeedsOf(f, role) \subseteq NodesAt(role)
  BY DEF SeedsOf, NodesOf
<1>2. NodesAt(role) \subseteq Unit
  BY DEF NodesAt, NodesIn
<1> QED
  BY <1>1, <1>2 DEF Seeds

\* No ball is larger than the graph.
LEMMA BallInUnit ==
  ASSUME NEW role \in Roles, git.edges[role] \subseteq Edges, NEW det \in BOOLEAN
  PROVE  \A k \in Nat : Ball(role, det, k) \subseteq Unit
<1> DEFINE T == {k \in Nat : Ball(role, det, k) \subseteq Unit}
<1>1. 0 \in T
  BY BallsStep, SeedsInUnit DEF BallStep
<1>2. ASSUME NEW k \in Nat, k \in T PROVE k + 1 \in T
  <2>1. Ball(role, det, k + 1) = HopsFrom(Ball(role, det, k), role, det)
    BY BallsStep DEF BallStep
  <2>2. HopsFrom(Ball(role, det, k), role, det) \subseteq Unit
    BY <1>2, HopsInUnit DEF HopsFrom
  <2> QED
    BY <2>1, <2>2
<1> HIDE DEF T
<1>3. Nat \subseteq T
  BY <1>1, <1>2, AllNaturals
<1> QED
  BY <1>3 DEF T

\* A ball holds the smaller ones.
LEMMA BallGrows ==
  ASSUME NEW role \in Roles, NEW det \in BOOLEAN, NEW i \in Nat
  PROVE  \A k \in Nat : Ball(role, det, i) \subseteq Ball(role, det, i + k)
<1> DEFINE T == {k \in Nat : Ball(role, det, i) \subseteq Ball(role, det, i + k)}
<1>1. 0 \in T
  BY i + 0 = i
<1>2. ASSUME NEW k \in Nat, k \in T PROVE k + 1 \in T
  <2>1. i + k \in Nat /\ i + (k + 1) = (i + k) + 1
    OBVIOUS
  <2>2. Ball(role, det, (i + k) + 1) = HopsFrom(Ball(role, det, i + k), role, det)
    BY <2>1, BallsStep DEF BallStep
  <2>3. Ball(role, det, i + k) \subseteq HopsFrom(Ball(role, det, i + k), role, det)
    BY DEF HopsFrom
  <2> QED
    BY <1>2, <2>1, <2>2, <2>3
<1> HIDE DEF T
<1>3. Nat \subseteq T
  BY <1>1, <1>2, AllNaturals
<1> QED
  BY <1>3 DEF T

\* Once a ball does not grow it never grows again.
LEMMA BallRests ==
  ASSUME NEW role \in Roles, NEW det \in BOOLEAN, NEW i \in Nat, Ball(role, det, i + 1) = Ball(role, det, i)
  PROVE  \A k \in Nat : Ball(role, det, i + k) = Ball(role, det, i)
<1> DEFINE T == {k \in Nat : Ball(role, det, i + k) = Ball(role, det, i)}
<1>1. 0 \in T
  BY i + 0 = i
<1>2. ASSUME NEW k \in Nat, k \in T PROVE k + 1 \in T
  <2>1. i + k \in Nat /\ i + (k + 1) = (i + k) + 1
    OBVIOUS
  <2>2. /\ Ball(role, det, (i + k) + 1) = HopsFrom(Ball(role, det, i + k), role, det)
        /\ Ball(role, det, i + 1) = HopsFrom(Ball(role, det, i), role, det)
    BY <2>1, BallsStep DEF BallStep
  <2> QED
    BY <1>2, <2>1, <2>2
<1> HIDE DEF T
<1>3. Nat \subseteq T
  BY <1>1, <1>2, AllNaturals
<1> QED
  BY <1>3 DEF T

\* The graph has finitely many nodes.
LEMMA UnitFinite == IsFiniteSet(Unit) /\ Cardinality(Unit) \in Nat
<1>1. Nodes \in Seq(Unit) /\ DOMAIN Nodes = 1..Len(Nodes) /\ Len(Nodes) \in Nat
  BY GraphAssumption
<1>2. IsFiniteSet(DOMAIN Nodes)
  BY <1>1, FS_Interval
<1>3. Nodes \in Surjection(DOMAIN Nodes, Unit)
  BY <1>1 DEF Surjection, Unit, Range
<1> QED
  BY <1>2, <1>3, FS_Surjection, FS_CardinalityType

\* As many hops as there are nodes reach whatever can be reached: a ball that grows holds one node
\* more, and no ball is larger than the graph.
LEMMA BallSuffices ==
  ASSUME NEW role \in Roles, git.edges[role] \subseteq Edges, NEW det \in BOOLEAN, NEW k \in Nat
  PROVE  Ball(role, det, k) \subseteq Ball(role, det, Cardinality(Unit))
<1> DEFINE c == Cardinality(Unit)
           B(i) == Ball(role, det, i)
<1>1. c \in Nat /\ IsFiniteSet(Unit)
  BY UnitFinite
<1>2. \A i \in Nat : B(i) \subseteq Unit /\ IsFiniteSet(B(i)) /\ Cardinality(B(i)) \in Nat /\ Cardinality(B(i)) <= c
  <2> SUFFICES ASSUME NEW i \in Nat
               PROVE  B(i) \subseteq Unit /\ IsFiniteSet(B(i)) /\ Cardinality(B(i)) \in Nat /\ Cardinality(B(i)) <= c
    OBVIOUS
  <2>1. B(i) \subseteq Unit
    BY BallInUnit
  <2> QED
    BY <1>1, <2>1, FS_Subset, FS_CardinalityType
<1>3. \A i, j \in Nat : B(i) \subseteq B(i + j)
  BY BallGrows
<1>4. \E i \in 0..c : B(i + 1) = B(i)
  <2> SUFFICES ASSUME \A i \in 0..c : B(i + 1) # B(i) PROVE FALSE
    OBVIOUS
  <2> DEFINE T == {i \in Nat : i <= c + 1 => Cardinality(B(i)) >= i}
  <2>1. 0 \in T
    BY <1>2
  <2>2. ASSUME NEW i \in Nat, i \in T PROVE i + 1 \in T
    <3> SUFFICES ASSUME i + 1 <= c + 1 PROVE Cardinality(B(i + 1)) >= i + 1
      OBVIOUS
    <3>1. i \in 0..c /\ Cardinality(B(i)) >= i
      BY <1>1, <2>2
    <3>2. B(i) \subseteq B(i + 1) /\ B(i) # B(i + 1)
      BY <1>3, <3>1
    <3>3. /\ IsFiniteSet(B(i + 1)) /\ Cardinality(B(i)) \in Nat /\ Cardinality(B(i + 1)) \in Nat
      BY <1>2
    <3> HIDE DEF B
    <3>4. Cardinality(B(i)) < Cardinality(B(i + 1))
      BY <3>2, <3>3, FS_Subset
    <3> QED
      BY <3>1, <3>3, <3>4
  <2> HIDE DEF T
  <2>3. Nat \subseteq T
    BY <2>1, <2>2, AllNaturals
  <2>4. Cardinality(B(c + 1)) >= c + 1
    BY <1>1, <2>3 DEF T
  <2> QED
    BY <1>1, <1>2, <2>4
<1>5. PICK i \in 0..c : B(i + 1) = B(i)
  BY <1>4
<1>6. \A j \in Nat : B(i + j) = B(i)
  <2>1. i \in Nat
    BY <1>1
  <2> QED
    BY <1>5, <2>1, BallRests
<1>7. c - i \in Nat /\ i + (c - i) = c /\ i \in Nat
  BY <1>1
<1>8. B(c) = B(i)
  BY <1>6, <1>7
<1>9. CASE k <= i
  <2>1. i - k \in Nat /\ k + (i - k) = i
    BY <1>7, <1>9
  <2> QED
    BY <1>3, <1>8, <2>1
<1>10. CASE i <= k
  <2>1. k - i \in Nat /\ i + (k - i) = k
    BY <1>7, <1>10
  <2> QED
    BY <1>6, <1>8, <2>1
<1> QED
  BY <1>7, <1>9, <1>10

-----------------------------------------------------------------------------
(* The order of the labels.                                                  *)

\* Of the hops to a node, the one that is taken is no worse than any other.
LEMMA BestHopIsBest ==
  ASSUME NEW from, from.nd \in Nat, from.dep \in Nat, NEW hops, hops # {}, \A x \in hops : x.ord \in Nat
  PROVE  /\ BestHop(from, hops) \in hops
         /\ \A y \in hops : ~Less(Label(from, y), Label(from, BestHop(from, hops)))
<1> DEFINE Cost(x) == Label(from, x).nd
<1>1. \A x \in hops : Cost(x) \in Nat /\ Label(from, x).dep = from.dep + 1
  BY DEF Label
<1>2. \A x, y \in hops : Less(Label(from, x), Label(from, y)) <=> Cost(x) < Cost(y)
  BY <1>1 DEF Less
<1> HIDE DEF Cost
<1>3. PICK x \in hops : \A y \in hops : Cost(x) <= Cost(y)
  <2> DEFINE costs == {Cost(y) : y \in hops}
  <2>1. costs \subseteq Nat /\ costs # {}
    BY <1>1
  <2>2. PICK c \in costs : \A d \in costs : c <= d
    <3> HIDE DEF costs
    <3> QED
      BY <2>1, LeastNatural
  <2> QED
    BY <2>2
<1>4. PICK z \in hops : Cost(z) = Cost(x) /\ \A y \in hops : Cost(y) = Cost(x) => z.ord <= y.ord
  <2> DEFINE cheap == {y \in hops : Cost(y) = Cost(x)}
             ords == {y.ord : y \in cheap}
  <2>1. ords \subseteq Nat /\ ords # {}
    OBVIOUS
  <2>2. PICK o \in ords : \A p \in ords : o <= p
    <3> HIDE DEF ords
    <3> QED
      BY <2>1, LeastNatural
  <2> QED
    BY <2>2
<1>5. \A y \in hops : \/ Less(Label(from, z), Label(from, y))
                      \/ ~Less(Label(from, y), Label(from, z)) /\ z.ord <= y.ord
  BY <1>1, <1>2, <1>3, <1>4
<1>6. /\ BestHop(from, hops) \in hops
      /\ \A y \in hops : \/ Less(Label(from, BestHop(from, hops)), Label(from, y))
                         \/ ~Less(Label(from, y), Label(from, BestHop(from, hops))) /\ BestHop(from, hops).ord <= y.ord
  BY <1>5 DEF BestHop
<1> QED
  BY <1>1, <1>2, <1>6

\* Every node has its place in the order of the ids.
LEMMA IndexOfNode ==
  ASSUME NEW n \in Unit
  PROVE  Index(n) \in Nat
<1>1. \E i \in 1..Len(Nodes) : Nodes[i] = n
  BY GraphAssumption DEF Unit, Range
<1> QED
  BY <1>1, GraphAssumption DEF Index

\* The pop takes an entry of the heap.
LEMMA SmallestIsThere ==
  ASSUME NEW h, h # {}, \A m \in h : m.nd \in Nat /\ m.dep \in Nat /\ m.node \in Unit
  PROVE  Smallest(h) \in h
<1> DEFINE I(m) == Index(m.node)
<1>1. \A m \in h : I(m) \in Nat
  BY IndexOfNode
<1>2. PICK a \in h : \A m \in h : a.nd <= m.nd
  <2> DEFINE nds == {m.nd : m \in h}
  <2>1. nds \subseteq Nat /\ nds # {}
    OBVIOUS
  <2>2. PICK c \in nds : \A d \in nds : c <= d
    <3> HIDE DEF nds
    <3> QED
      BY <2>1, LeastNatural
  <2> QED
    BY <2>2
<1>3. PICK b \in h : b.nd = a.nd /\ \A m \in h : m.nd = a.nd => b.dep <= m.dep
  <2> DEFINE deps == {m.dep : m \in {x \in h : x.nd = a.nd}}
  <2>1. deps \subseteq Nat /\ deps # {}
    OBVIOUS
  <2>2. PICK c \in deps : \A d \in deps : c <= d
    <3> HIDE DEF deps
    <3> QED
      BY <2>1, LeastNatural
  <2> QED
    BY <2>2
<1> HIDE DEF I
<1>4. PICK z \in h : /\ z.nd = a.nd /\ z.dep = b.dep
                     /\ \A m \in h : m.nd = a.nd /\ m.dep = b.dep => I(z) <= I(m)
  <2> DEFINE ixs == {I(m) : m \in {x \in h : x.nd = a.nd /\ x.dep = b.dep}}
  <2>1. ixs \subseteq Nat /\ ixs # {}
    BY <1>1, <1>3
  <2>2. PICK c \in ixs : \A d \in ixs : c <= d
    <3> HIDE DEF ixs
    <3> QED
      BY <2>1, LeastNatural
  <2> QED
    BY <2>2
<1>5. \A o \in h : Less(z, o) \/ (~Less(o, z) /\ I(z) <= I(o))
  BY <1>1, <1>2, <1>3, <1>4 DEF Less
<1> QED
  BY <1>5 DEF Smallest, I

-----------------------------------------------------------------------------
(* The inductive invariant.                                                  *)

\* A label is one of a real path: it ends at the node, is not too long, and is dear only by an
\* inferred hop on it.
LabelOk(n, l, role) ==
  /\ l.nd \in Nat /\ l.dep \in Nat
  /\ l.nd > 0 => \E e \in l.hops : Pool[e].prov # "deterministic"
  /\ n \in Ball(role, FALSE, l.dep) /\ (l.nd = 0 => n \in Ball(role, TRUE, l.dep))
  /\ opts.depth # Unlimited => l.dep <= opts.depth

\* A node is still on the frontier with the label it has, or its hops were followed from that label.
Pending(n) == [nd |-> best[n].nd, dep |-> best[n].dep, node |-> n] \in heap
Followed(n, x, role) == x.next \in DOMAIN best /\ ~Less(Label(best[n], x), best[x.next])
Settled(n, role) ==
  \/ opts.depth # Unlimited /\ best[n].dep >= opts.depth
  \/ \A x \in Neighbours(n, role) : x.next \in Seeds(role) \cup {n} \/ Followed(n, x, role)

SearchOk(role) ==
  /\ Seeds(role) \subseteq DOMAIN best /\ DOMAIN best \subseteq Unit
  /\ \A n \in Seeds(role) : best[n].nd = 0 /\ best[n].dep = 0
  /\ \A n \in DOMAIN best : LabelOk(n, best[n], role) /\ (Pending(n) \/ Settled(n, role))
  /\ \A m \in heap : m.node \in DOMAIN best /\ m.nd \in Nat /\ m.dep \in Nat

QueryOk == opts.depth \in Nat /\ \A role \in Roles : git.edges[role] \subseteq Edges

\* a row of the tail has an inferred hop on its path, and was not swept up by a fallback
RowOk(row) ==
  /\ row.tail \in BOOLEAN
  /\ row.tail => row.swept = FALSE /\ \E e \in row.hops : Pool[e].prov # "deterministic"
RowsOk ==
  /\ DOMAIN rows = Roles
  /\ \A role \in Roles : DOMAIN rows[role] \subseteq Unit /\ \A n \in DOMAIN rows[role] : RowOk(rows[role][n])

ResultOk ==
  /\ phase \in {"owed", "done"} => impact = [n \in DOMAIN rows["base"] \cup DOMAIN rows["head"] |-> MergedRow(n)]
  /\ phase = "done" => owed.verify = CollectEntities

IInv == QueryOk /\ RowsOk /\ ResultOk /\ \A role \in Roles : phase = role => SearchOk(role)

\* The query is about the same graphs in both states of a step.
LEMMA SameGraph ==
  ASSUME git' = git, opts' = opts, NEW role \in Roles
  PROVE  /\ Seeds(role)' = Seeds(role)
         /\ \A n : Neighbours(n, role)' = Neighbours(n, role)
         /\ \A det \in BOOLEAN, k \in Nat : Ball(role, det, k)' = Ball(role, det, k)
<1>1. NodesAt("base")' = NodesAt("base") /\ NodesAt("head")' = NodesAt("head") /\ NodesAt(role)' = NodesAt(role)
  BY DEF NodesAt
<1>2. EnvKeyDelta' = EnvKeyDelta
  BY <1>1 DEF EnvKeyDelta
<1>3. \A f : SeedsOf(f, role)' = SeedsOf(f, role)
  BY <1>1, <1>2 DEF SeedsOf, NodesOf
<1>4. FilesOf(role)' = FilesOf(role)
  BY DEF FilesOf
<1>5. Seeds(role)' = Seeds(role)
  BY <1>3, <1>4 DEF Seeds
<1>6. OpenContainment(role)' = OpenContainment(role)
  BY <1>1, <1>4 DEF OpenContainment
<1>7. \A n : Neighbours(n, role)' = Neighbours(n, role)
  BY <1>6 DEF Neighbours
<1>8. BallStep /\ BallStep'
  BY BallsStep, PTL
<1>9. ASSUME NEW det \in BOOLEAN PROVE \A k \in Nat : Ball(role, det, k)' = Ball(role, det, k)
  <2> DEFINE T == {k \in Nat : Ball(role, det, k)' = Ball(role, det, k)}
  <2>1. 0 \in T
    BY <1>5, <1>8 DEF BallStep
  <2>2. ASSUME NEW k \in Nat, k \in T PROVE k + 1 \in T
    <3>1. Ball(role, det, k + 1) = HopsFrom(Ball(role, det, k), role, det)
      BY <1>8 DEF BallStep
    <3>2. Ball(role, det, k + 1)' = HopsFrom(Ball(role, det, k), role, det)'
      BY <1>8 DEF BallStep
    <3> DEFINE H(S) == S \cup UNION {{x.next : x \in {y \in Neighbours(n, role)' :
                                        det => Pool[y.e].prov = "deterministic"}} : n \in S}
    <3>3. HopsFrom(Ball(role, det, k), role, det)' = H(Ball(role, det, k)')
      BY DEF HopsFrom
    <3>4. HopsFrom(Ball(role, det, k), role, det) = H(Ball(role, det, k))
      BY <1>7 DEF HopsFrom
    <3> HIDE DEF H
    <3> QED
      BY <2>2, <3>1, <3>2, <3>3, <3>4
  <2> HIDE DEF T
  <2>3. Nat \subseteq T
    BY <2>1, <2>2, AllNaturals
  <2> QED
    BY <2>3 DEF T
<1> QED
  BY <1>5, <1>7, <1>9

\* A search starts with the seeds on the frontier.
LEMMA StartOk ==
  ASSUME QueryOk, git' = git, opts' = opts, NEW role \in Roles, Start(role)
  PROVE  SearchOk(role)'
<1>1. /\ Seeds(role)' = Seeds(role) /\ Seeds(role) \subseteq Unit
      /\ Ball(role, TRUE, 0) = Seeds(role) /\ Ball(role, FALSE, 0) = Seeds(role)
      /\ \A det \in BOOLEAN, k \in Nat : Ball(role, det, k)' = Ball(role, det, k)
  BY SameGraph, SeedsInUnit, BallsStep DEF BallStep
<1>2. /\ DOMAIN best' = Seeds(role)
      /\ \A n \in Seeds(role) : best'[n] = [nd |-> 0, dep |-> 0, hops |-> {}, boundary |-> "intra_unit"]
      /\ heap' = {[nd |-> 0, dep |-> 0, node |-> n] : n \in Seeds(role)}
  BY DEF Start
<1>3. ASSUME NEW n \in Seeds(role) PROVE LabelOk(n, best[n], role)' /\ Pending(n)'
  <2>1. LabelOk(n, best[n], role)'
    <3>1. best'[n].nd = 0 /\ best'[n].dep = 0 /\ opts'.depth \in Nat
      BY <1>2 DEF QueryOk
    <3>2. Ball(role, FALSE, best[n].dep)' = Seeds(role) /\ Ball(role, TRUE, best[n].dep)' = Seeds(role)
      BY <1>1, <3>1
    <3>3. /\ best'[n].nd \in Nat /\ best'[n].dep \in Nat /\ ~(best'[n].nd > 0)
          /\ n \in Ball(role, FALSE, best[n].dep)' /\ n \in Ball(role, TRUE, best[n].dep)'
          /\ best'[n].dep <= opts'.depth
      <4>1. best'[n].nd \in Nat /\ best'[n].dep \in Nat /\ ~(best'[n].nd > 0)
        BY <3>1
      <4>2. n \in Ball(role, FALSE, best[n].dep)' /\ n \in Ball(role, TRUE, best[n].dep)'
        BY <3>2
      <4>3. best'[n].dep <= opts'.depth
        BY <3>1
      <4> QED
        BY <4>1, <4>2, <4>3
    <3> QED
      BY <3>3 DEF LabelOk
  <2>2. Pending(n)'
    BY <1>2 DEF Pending
  <2> QED
    BY <2>1, <2>2
<1> QED
  BY <1>1, <1>2, <1>3 DEF SearchOk

-----------------------------------------------------------------------------
(* One pop.                                                                  *)

\* Labels compare as pairs of numbers.
LEMMA LessOrder ==
  ASSUME NEW a, NEW b, NEW c, a.nd \in Nat, a.dep \in Nat, b.nd \in Nat, b.dep \in Nat, c.nd \in Nat, c.dep \in Nat
  PROVE  /\ ~Less(a, a) /\ (Less(a, b) => ~Less(b, a))
         /\ ~Less(a, b) /\ ~Less(b, c) => ~Less(a, c)
         /\ ~Less(a, b) /\ Less(c, b) => ~Less(a, c)
BY DEF Less

\* A popped entry that is outdated or too deep leaves the labels alone.
LEMMA DropKeeps ==
  ASSUME IInv, git' = git, opts' = opts, NEW role \in Roles, phase = role,
         NEW m \in heap, Outdated(m) \/ TooDeep(m), heap' = heap \ {m}, best' = best
  PROVE  SearchOk(role)'
<1>1. SearchOk(role) /\ opts.depth \in Nat
  BY DEF IInv, QueryOk
<1>2. /\ Seeds(role)' = Seeds(role) /\ \A n : Neighbours(n, role)' = Neighbours(n, role)
      /\ \A det \in BOOLEAN, k \in Nat : Ball(role, det, k)' = Ball(role, det, k)
  BY SameGraph
<1>3. ASSUME NEW n \in DOMAIN best PROVE LabelOk(n, best[n], role)'
  BY <1>1, <1>2 DEF SearchOk, LabelOk
<1>4. ASSUME NEW n \in DOMAIN best, Settled(n, role) PROVE Settled(n, role)'
  BY <1>2, <1>4 DEF Settled, Followed
<1>5. ASSUME NEW n \in DOMAIN best, Pending(n), ~Pending(n)' PROVE Settled(n, role)'
  <2>1. m = [nd |-> best[n].nd, dep |-> best[n].dep, node |-> n]
    BY <1>5 DEF Pending
  <2>2. TooDeep(m)
    BY <2>1 DEF Outdated
  <2> QED
    BY <2>1, <2>2 DEF TooDeep, Settled
<1>6. ASSUME NEW n \in DOMAIN best PROVE Pending(n)' \/ Settled(n, role)'
  BY <1>1, <1>4, <1>5 DEF SearchOk
<1>7. DOMAIN best' = DOMAIN best
  OBVIOUS
<1> QED
  BY <1>1, <1>2, <1>3, <1>6, <1>7 DEF SearchOk

\* A label of the new state that is sound in the old graph is sound in the new one: it is the same.
LEMMA SameLabel ==
  ASSUME git' = git, opts' = opts, NEW role \in Roles, NEW n, LabelOk(n, best'[n], role)
  PROVE  LabelOk(n, best[n], role)'
<1>1. \A det \in BOOLEAN, k \in Nat : Ball(role, det, k)' = Ball(role, det, k)
  BY SameGraph
<1>2. best'[n].nd \in Nat /\ best'[n].dep \in Nat
  BY DEF LabelOk
<1>3. Ball(role, FALSE, best[n].dep)' = Ball(role, FALSE, best'[n].dep)
  BY <1>1, <1>2
<1>4. Ball(role, TRUE, best[n].dep)' = Ball(role, TRUE, best'[n].dep)
  BY <1>1, <1>2
<1> QED
  BY <1>3, <1>4 DEF LabelOk

\* A hop out of a set ends in what one hop more reaches.
LEMMA HopReaches ==
  ASSUME NEW role, NEW set, NEW n \in set, NEW x \in Neighbours(n, role), NEW det \in BOOLEAN,
         det => Pool[x.e].prov = "deterministic"
  PROVE  x.next \in HopsFrom(set, role, det)
BY DEF HopsFrom

\* One hop further along a path of the graph is a path of the graph.
LEMMA HopLabelOk ==
  ASSUME QueryOk, NEW role \in Roles, NEW n, NEW from, LabelOk(n, from, role),
         opts.depth # Unlimited => from.dep < opts.depth, NEW x \in Neighbours(n, role)
  PROVE  LabelOk(x.next, Label(from, x), role)
<1> DEFINE l == Label(from, x)
           edge == Pool[x.e]
           d == from.dep
<1>1. from.nd \in Nat /\ d \in Nat /\ opts.depth \in Nat
  BY DEF LabelOk, QueryOk
<1>2. /\ l.nd = from.nd + (IF edge.prov = "deterministic" THEN 0 ELSE 1)
      /\ l.dep = d + 1 /\ l.hops = from.hops \cup {x.e}
  BY DEF Label
<1>3. /\ Ball(role, FALSE, d + 1) = HopsFrom(Ball(role, FALSE, d), role, FALSE)
      /\ Ball(role, TRUE, d + 1) = HopsFrom(Ball(role, TRUE, d), role, TRUE)
  BY <1>1, BallsStep DEF BallStep
<1>4. x.next \in Ball(role, FALSE, d + 1)
  <2>1. n \in Ball(role, FALSE, d)
    BY DEF LabelOk
  <2>2. x.next \in HopsFrom(Ball(role, FALSE, d), role, FALSE)
    BY <2>1, HopReaches
  <2> QED
    BY <1>3, <2>2
<1>5. ASSUME l.nd = 0 PROVE x.next \in Ball(role, TRUE, d + 1)
  <2>1. from.nd = 0 /\ edge.prov = "deterministic"
    BY <1>1, <1>2, <1>5
  <2>2. n \in Ball(role, TRUE, d)
    BY <2>1 DEF LabelOk
  <2>3. x.next \in HopsFrom(Ball(role, TRUE, d), role, TRUE)
    BY <2>1, <2>2, HopReaches
  <2> QED
    BY <1>3, <2>3
<1>6. ASSUME l.nd > 0 PROVE \E e \in l.hops : Pool[e].prov # "deterministic"
  <2>1. CASE edge.prov = "deterministic"
    BY <1>1, <1>2, <1>6, <2>1 DEF LabelOk
  <2>2. CASE edge.prov # "deterministic"
    BY <1>2, <2>2
  <2> QED
    BY <2>1, <2>2
<1>7. l.nd \in Nat /\ l.dep \in Nat /\ (opts.depth # Unlimited => l.dep <= opts.depth)
  BY <1>1, <1>2
<1> HIDE DEF l
<1>8. LabelOk(x.next, l, role)
  BY <1>2, <1>4, <1>5, <1>6, <1>7 DEF LabelOk
<1> QED
  BY <1>8 DEF l

\* Following the hops of a node settles it, keeps every label one of a path, and never makes a label
\* worse: what was settled stays settled.
LEMMA ExpandKeeps ==
  ASSUME IInv, git' = git, opts' = opts, NEW role \in Roles, phase = role,
         NEW m \in heap, ~Outdated(m), ~TooDeep(m), Expand(m, role)
  PROVE  SearchOk(role)'
<1> DEFINE from == best[m.node]
           hops == Neighbours(m.node, role)
           hopsTo(n) == {x \in hops : x.next = n}
           found == [n \in {x.next : x \in hops} \ (Seeds(role) \cup {m.node}) |-> Label(from, BestHop(from, hopsTo(n)))]
           better == {n \in DOMAIN found : n \in DOMAIN best => Less(found[n], best[n])}
<1>1. SearchOk(role) /\ QueryOk /\ opts.depth \in Nat
  BY DEF IInv, QueryOk
<1>2. /\ Seeds(role)' = Seeds(role) /\ \A n : Neighbours(n, role)' = Neighbours(n, role)
  BY SameGraph
<1>3. m.node \in DOMAIN best /\ LabelOk(m.node, from, role) /\ (opts.depth # Unlimited => from.dep < opts.depth)
  <2>1. m.node \in DOMAIN best /\ m.dep \in Nat
    BY <1>1 DEF SearchOk
  <2>2. LabelOk(m.node, from, role)
    BY <1>1, <2>1 DEF SearchOk
  <2>3. from.dep = m.dep
    BY DEF Outdated
  <2>4. opts.depth # Unlimited => m.dep < opts.depth
    BY <1>1, <2>1 DEF TooDeep
  <2> QED
    BY <2>1, <2>2, <2>3, <2>4
<1>4. /\ best' = [n \in better \cup DOMAIN best |-> IF n \in better THEN found[n] ELSE best[n]]
      /\ heap' = (heap \ {m}) \cup {[nd |-> found[n].nd, dep |-> found[n].dep, node |-> n] : n \in better}
  BY DEF Expand
<1>5. ASSUME NEW n \in DOMAIN found
      PROVE  /\ n \in Unit /\ n \notin Seeds(role) /\ n # m.node /\ LabelOk(n, found[n], role)
             /\ \A y \in hops : y.next = n => ~Less(Label(from, y), found[n])
  <2>1. hopsTo(n) # {} /\ n \notin Seeds(role) /\ n # m.node
    OBVIOUS
  <2>2. \A y \in hopsTo(n) : y.ord \in Nat /\ y.next \in Unit
    BY <1>1, HopsInUnit DEF QueryOk
  <2>3. from.nd \in Nat /\ from.dep \in Nat
    BY <1>3 DEF LabelOk
  <2> DEFINE x == BestHop(from, hopsTo(n))
             H == hopsTo(n)
  <2>4. x \in hopsTo(n) /\ \A y \in hopsTo(n) : ~Less(Label(from, y), Label(from, x))
    <3> HIDE DEF from, hopsTo
    <3> QED
      BY <2>1, <2>2, <2>3, BestHopIsBest
  <2>5. found[n] = Label(from, x)
    OBVIOUS
  <2> HIDE DEF x, from, found
  <2>6. LabelOk(x.next, Label(from, x), role) /\ x.next = n
    BY <1>1, <1>3, <2>4, HopLabelOk
  <2> QED
    BY <2>1, <2>2, <2>4, <2>5, <2>6
<1>6. better \subseteq DOMAIN found /\ m.node \notin better /\ Seeds(role) \cap better = {}
  <2> HIDE DEF found
  <2> QED
    BY <1>5
<1>7. ASSUME NEW n \in DOMAIN best
      PROVE  /\ n \in better => Less(found[n], best[n]) /\ best'[n] = found[n]
             /\ n \notin better => best'[n] = best[n]
  BY <1>4
<1>8. \A n \in better : best'[n] = found[n]
  BY <1>4
<1>9. DOMAIN best' = better \cup DOMAIN best
  BY <1>4
<1>10. \A n \in DOMAIN found : n \notin better => n \in DOMAIN best /\ ~Less(found[n], best[n])
  OBVIOUS
<1>11. \A x \in hops : x.next \in Seeds(role) \cup {m.node} \/ x.next \in DOMAIN found
  OBVIOUS
<1> HIDE DEF found, better
<1>12. \A n \in DOMAIN best' : LabelOk(n, best'[n], role)
  BY <1>1, <1>5, <1>6, <1>7, <1>8, <1>9 DEF SearchOk
<1>13. ASSUME NEW n \in DOMAIN best' PROVE LabelOk(n, best[n], role)'
  BY <1>12, SameLabel
<1>14. ASSUME NEW n \in better PROVE Pending(n)'
  BY <1>4, <1>8 DEF Pending
<1>15. ASSUME NEW n \in DOMAIN best, NEW x, Followed(n, x, role), n \notin better,
              Label(best[n], x).nd \in Nat, Label(best[n], x).dep \in Nat
       PROVE  Followed(n, x, role)'
  <2>1. x.next \in DOMAIN best /\ ~Less(Label(best[n], x), best[x.next]) /\ best'[n] = best[n]
    BY <1>7, <1>15 DEF Followed
  <2>2. x.next \in DOMAIN best'
    BY <1>9, <2>1
  <2>3. /\ best[x.next].nd \in Nat /\ best[x.next].dep \in Nat
        /\ best'[x.next].nd \in Nat /\ best'[x.next].dep \in Nat
    BY <1>1, <1>12, <2>1, <2>2 DEF SearchOk, LabelOk
  <2>4. best'[x.next] = best[x.next] \/ Less(best'[x.next], best[x.next])
    BY <1>7, <2>1
  <2>5. ~Less(Label(best[n], x), best'[x.next])
    BY <1>15, <2>1, <2>3, <2>4, LessOrder
  <2> QED
    BY <2>1, <2>2, <2>5 DEF Followed
<1>16. ASSUME NEW n \in DOMAIN best, Settled(n, role), n \notin better PROVE Settled(n, role)'
  <2>1. best'[n] = best[n] /\ Neighbours(n, role)' = Neighbours(n, role)
    BY <1>2, <1>7, <1>16
  <2>2. \A x : Label(best[n], x).nd \in Nat /\ Label(best[n], x).dep \in Nat
    <3>1. best[n].nd \in Nat /\ best[n].dep \in Nat
      BY <1>1 DEF SearchOk, LabelOk
    <3> QED
      BY <3>1 DEF Label
  <2>3. CASE opts.depth # Unlimited /\ best[n].dep >= opts.depth
    BY <2>1, <2>3 DEF Settled
  <2>4. CASE \A x \in Neighbours(n, role) : x.next \in Seeds(role) \cup {n} \/ Followed(n, x, role)
    <3>1. \A x \in Neighbours(n, role) : x.next \in Seeds(role) \cup {n} \/ Followed(n, x, role)'
      BY <1>15, <1>16, <2>2, <2>4
    <3> QED
      BY <1>2, <2>1, <3>1 DEF Settled
  <2> QED
    BY <1>16, <2>3, <2>4 DEF Settled
<1>17. Settled(m.node, role)'
  <2>1. best'[m.node] = from
    BY <1>3, <1>6, <1>7
  <2>2. ASSUME NEW x \in hops, x.next \notin Seeds(role) \cup {m.node} PROVE Followed(m.node, x, role)'
    <3>1. x.next \in DOMAIN found /\ ~Less(Label(from, x), found[x.next])
      BY <1>5, <1>11, <2>2
    <3>2. x.next \in DOMAIN best' /\ (best'[x.next] = found[x.next] \/ ~Less(found[x.next], best'[x.next]))
      BY <1>7, <1>8, <1>9, <1>10, <3>1
    <3>3. /\ found[x.next].nd \in Nat /\ found[x.next].dep \in Nat
          /\ best'[x.next].nd \in Nat /\ best'[x.next].dep \in Nat
      BY <1>5, <1>12, <3>1, <3>2 DEF LabelOk
    <3>4. Label(from, x).nd \in Nat /\ Label(from, x).dep \in Nat
      BY <1>3 DEF Label, LabelOk
    <3>5. ~Less(Label(from, x), best'[x.next])
      BY <3>1, <3>2, <3>3, <3>4, LessOrder
    <3> QED
      BY <2>1, <3>2, <3>5 DEF Followed
  <2> QED
    BY <1>2, <2>2 DEF Settled
<1>18. ASSUME NEW n \in DOMAIN best, Pending(n), n \notin better, n # m.node PROVE Pending(n)'
  BY <1>4, <1>7, <1>18 DEF Pending
<1>19. ASSUME NEW n \in DOMAIN best' PROVE Pending(n)' \/ Settled(n, role)'
  BY <1>1, <1>9, <1>14, <1>16, <1>17, <1>18 DEF SearchOk
<1>20. \A k \in heap' : k.node \in DOMAIN best' /\ k.nd \in Nat /\ k.dep \in Nat
  <2>1. ASSUME NEW k \in heap PROVE k.node \in DOMAIN best' /\ k.nd \in Nat /\ k.dep \in Nat
    BY <1>1, <1>9 DEF SearchOk
  <2>2. ASSUME NEW n \in better PROVE n \in DOMAIN best' /\ found[n].nd \in Nat /\ found[n].dep \in Nat
    BY <1>5, <1>6, <1>9 DEF LabelOk
  <2> QED
    BY <1>4, <2>1, <2>2
<1>21. \A n \in Seeds(role) : n \in DOMAIN best /\ best'[n] = best[n]
  BY <1>1, <1>6, <1>7 DEF SearchOk
<1> QED
  BY <1>1, <1>2, <1>5, <1>6, <1>9, <1>13, <1>19, <1>20, <1>21 DEF SearchOk

\* A pop takes one entry off the frontier, and what it leaves is a search under way.
LEMMA PopKeeps ==
  ASSUME IInv, NEW role \in Roles, Pop(role)
  PROVE  IInv'
<1> DEFINE m == Smallest(heap)
<1>1. /\ phase = role /\ heap # {} /\ SearchOk(role)
      /\ git' = git /\ opts' = opts /\ phase' = phase /\ rows' = rows /\ impact' = impact /\ owed' = owed
  BY DEF Pop, IInv
<1>2. m \in heap
  <2>1. \A k \in heap : k.nd \in Nat /\ k.dep \in Nat /\ k.node \in Unit
    BY <1>1 DEF SearchOk
  <2> QED
    BY <1>1, <2>1, SmallestIsThere
<1>3. \/ (Outdated(m) \/ TooDeep(m)) /\ heap' = heap \ {m} /\ best' = best
      \/ ~Outdated(m) /\ ~TooDeep(m) /\ Expand(m, role)
  BY DEF Pop
<1> HIDE DEF m
<1>4. SearchOk(role)'
  BY <1>1, <1>2, <1>3, DropKeeps, ExpandKeeps
<1>5. QueryOk' /\ RowsOk'
  BY <1>1 DEF IInv, QueryOk, RowsOk, RowOk
<1>6. ResultOk'
  BY <1>1 DEF ResultOk, Roles
<1>7. \A r \in Roles : phase' = r => r = role
  BY <1>1
<1> QED
  BY <1>4, <1>5, <1>6, <1>7 DEF IInv

\* A finished search gives sound rows: a row of the tail keeps the inferred hop of its path.
LEMMA RowsOfOk ==
  ASSUME NEW role \in Roles, SearchOk(role)
  PROVE  DOMAIN RowsOf(role) \subseteq Unit /\ \A n \in DOMAIN RowsOf(role) : RowOk(RowsOf(role)[n])
<1> DEFINE reached == DOMAIN best \ Seeds(role)
           swept == IF FallbackFiles(role) = {} THEN {} ELSE NodesAt(role) \ (Seeds(role) \cup reached)
<1>1. RowsOf(role) = [n \in reached \cup swept |->
        IF n \in reached THEN [hops |-> best[n].hops, boundary |-> best[n].boundary,
                              tail |-> best[n].nd > 0, swept |-> FALSE]
        ELSE [hops |-> {}, boundary |-> "intra_unit", tail |-> FALSE, swept |-> TRUE]]
  BY DEF RowsOf
<1>2. ASSUME NEW n \in reached
      PROVE  RowOk([hops |-> best[n].hops, boundary |-> best[n].boundary, tail |-> best[n].nd > 0, swept |-> FALSE])
  <2>1. best[n].nd \in Nat /\ (best[n].nd > 0 => \E e \in best[n].hops : Pool[e].prov # "deterministic")
    BY DEF SearchOk, LabelOk
  <2> DEFINE dear == best[n].nd > 0
             row == [hops |-> best[n].hops, boundary |-> best[n].boundary, tail |-> dear, swept |-> FALSE]
  <2>2. dear \in BOOLEAN /\ (dear => \E e \in best[n].hops : Pool[e].prov # "deterministic")
    BY <2>1
  <2> HIDE DEF dear
  <2>3. row.tail = dear /\ row.hops = best[n].hops /\ row.swept = FALSE
    OBVIOUS
  <2>4. RowOk(row)
    <3> HIDE DEF row
    <3> QED
      BY <2>2, <2>3, Zenon DEF RowOk
  <2> QED
    BY <2>4 DEF dear
<1>3. RowOk([hops |-> {}, boundary |-> "intra_unit", tail |-> FALSE, swept |-> TRUE])
  BY DEF RowOk
<1>4. reached \cup swept \subseteq Unit
  BY DEF SearchOk, NodesAt, NodesIn
<1> HIDE DEF reached, swept
<1> QED
  BY <1>1, <1>2, <1>3, <1>4

\* What is derived from the merged rows depends on nothing a later step changes.
LEMMA SameResult ==
  ASSUME git' = git, opts' = opts, impact' = impact
  PROVE  CollectEntities' = CollectEntities
<1>1. Seeds("base")' = Seeds("base") /\ Seeds("head")' = Seeds("head")
  BY SameGraph DEF Roles
<1>2. AllSeeds' = AllSeeds
  BY <1>1 DEF AllSeeds
<1>3. Fallback' = Fallback
  <2>1. NodesAt("base")' = NodesAt("base") /\ NodesAt("head")' = NodesAt("head")
    BY DEF NodesAt
  <2>2. EnvKeyDelta' = EnvKeyDelta /\ FilesOf("base")' = FilesOf("base") /\ FilesOf("head")' = FilesOf("head")
    BY <2>1 DEF EnvKeyDelta, FilesOf
  <2>3. ASSUME NEW role \in Roles PROVE FallbackFiles(role)' = FallbackFiles(role)
    <3>1. NodesAt(role)' = NodesAt(role) /\ FilesOf(role)' = FilesOf(role)
      BY <2>1, <2>2 DEF Roles
    <3>2. \A f : SeedsOf(f, role)' = SeedsOf(f, role)
      BY <2>2, <3>1 DEF SeedsOf, NodesOf
    <3>3. \A f : KindOf(f, role)' = KindOf(f, role)
      BY <2>2, <3>1 DEF KindOf, ClassifyFile, NodesOf
    <3>4. \A f : AssetBound(f)' = AssetBound(f)
      BY DEF AssetBound
    <3> QED
      BY <3>1, <3>2, <3>3, <3>4 DEF FallbackFiles
  <2> QED
    BY <2>3 DEF Fallback, Roles
<1>4. FallbackUnits' = FallbackUnits
  BY <1>3 DEF FallbackUnits
<1>5. Selected' = Selected
  BY <1>2, <1>3, <1>4 DEF Selected
<1>6. \A n : BindingTypes(n)' = BindingTypes(n)
  BY <1>2, <1>5 DEF BindingTypes
<1>7. \A n : CanaryUnreachableTest(n)' = CanaryUnreachableTest(n)
  BY DEF CanaryUnreachableTest, InferredBoundary
<1>8. \A n : TsUnder(n, "head")' = TsUnder(n, "head")
  BY DEF TsUnder
<1>9. \A n : Minimum(n, TsUnder(n, "head"))' = Minimum(n, TsUnder(n, "head"))
  BY <1>4, <1>6, <1>7, <1>8 DEF Minimum
<1> QED
  BY <1>5, <1>9 DEF CollectEntities

\* The revisions of a case are graphs over the pool of edges, and nothing is found yet.
LEMMA InitOk ==
  ASSUME Init
  PROVE  IInv
<1>1. \A role \in Roles : git.edges[role] \subseteq Edges
  <2>1. PICK case \in Cases, before \in SUBSET Edges, turned \in kSubset(Toggles, Edges) \cup {{}} :
          git = [edges |-> [base |-> EdgesIn(FilesAt("base", case), before),
                            head |-> EdgesIn(FilesAt("head", case), (before \ turned) \cup (turned \ before))],
                 files |-> [base |-> FilesAt("base", case), head |-> FilesAt("head", case)],
                 change |-> case]
    BY DEF Init
  <2>2. turned \subseteq Edges
    BY DEF kSubset
  <2>3. \A files, edges : EdgesIn(files, edges) \subseteq edges
    BY DEF EdgesIn
  <2>4. git.edges["base"] \subseteq before /\ git.edges["head"] \subseteq (before \ turned) \cup (turned \ before)
    BY <2>1, <2>3
  <2> QED
    BY <2>2, <2>4 DEF Roles
<1>2. opts.depth \in Nat
  <2>1. opts.depth \in Depths
    BY DEF Init
  <2> QED
    BY <2>1, GraphAssumption
<1>3. RowsOk
  BY DEF Init, RowsOk, Roles
<1>4. phase = "start"
  BY DEF Init
<1> QED
  BY <1>1, <1>2, <1>3, <1>4 DEF IInv, QueryOk, ResultOk, Roles

\* A step that leaves the query, the rows and the result alone, and starts no search, keeps them.
LEMMA SameRows ==
  ASSUME rows' = rows
  PROVE  (RowsOk => RowsOk') /\ \A n : MergedRow(n)' = MergedRow(n)
<1>1. RowsOk => RowsOk'
  BY DEF RowsOk, RowOk
<1>2. \A n : RowsFor(n)' = RowsFor(n)
  BY DEF RowsFor
<1>3. \A n : Chosen(n)' = Chosen(n)
  BY <1>2 DEF Chosen, Crosses
<1> QED
  BY <1>1, <1>2, <1>3 DEF MergedRow

\* Refusing ends the run.
LEMMA RefuseKeeps ==
  ASSUME IInv, Refuse
  PROVE  IInv'
<1>1. phase' = "refused" /\ git' = git /\ opts' = opts /\ rows' = rows
  BY DEF Refuse
<1>2. RowsOk' /\ QueryOk'
  BY <1>1, SameRows DEF IInv, QueryOk
<1> QED
  BY <1>1, <1>2 DEF IInv, ResultOk, Roles

\* The base query starts.
LEMMA QueryBaseKeeps ==
  ASSUME IInv, QueryBase
  PROVE  IInv'
<1>1. CASE Refuse
  BY <1>1, RefuseKeeps
<1>2. CASE Start("base") /\ phase' = "base" /\ UNCHANGED <<git, opts, rows, impact, owed>>
  <2>1. RowsOk' /\ QueryOk' /\ QueryOk
    BY <1>2, SameRows DEF IInv, QueryOk
  <2>2. SearchOk("base")'
    BY <1>2, <2>1, StartOk DEF Roles
  <2>3. ResultOk' /\ \A role \in Roles : phase' = role => role = "base"
    BY <1>2 DEF ResultOk
  <2> QED
    BY <2>1, <2>2, <2>3 DEF IInv
<1> QED
  BY <1>1, <1>2 DEF QueryBase

\* The head query starts with the rows of the base query kept.
LEMMA QueryHeadKeeps ==
  ASSUME IInv, QueryHead
  PROVE  IInv'
<1>1. CASE Refuse
  BY <1>1, RefuseKeeps
<1>2. CASE /\ Start("head") /\ phase' = "head" /\ UNCHANGED <<git, opts, impact, owed>>
           /\ rows' = [rows EXCEPT !["base"] = RowsOf("base")]
  <2>1. QueryOk' /\ QueryOk
    BY <1>2 DEF IInv, QueryOk
  <2>2. SearchOk("head")'
    BY <1>2, <2>1, StartOk DEF Roles
  <2>3. DOMAIN RowsOf("base") \subseteq Unit /\ \A n \in DOMAIN RowsOf("base") : RowOk(RowsOf("base")[n])
    BY RowsOfOk DEF QueryHead, IInv, Roles
  <2>4. RowsOk'
    <3>1. RowsOk
      BY DEF IInv
    <3>2. DOMAIN rows' = Roles /\ rows'["base"] = RowsOf("base") /\ rows'["head"] = rows["head"]
      BY <1>2, <3>1 DEF RowsOk, Roles
    <3>3. \A role \in Roles : DOMAIN rows'[role] \subseteq Unit /\ \A n \in DOMAIN rows'[role] : RowOk(rows'[role][n])
      BY <2>3, <3>1, <3>2 DEF RowsOk, Roles
    <3> QED
      BY <3>2, <3>3 DEF RowsOk, RowOk
  <2>5. ResultOk' /\ \A role \in Roles : phase' = role => role = "head"
    BY <1>2 DEF ResultOk
  <2> QED
    BY <2>1, <2>2, <2>4, <2>5 DEF IInv
<1> QED
  BY <1>1, <1>2 DEF QueryHead

\* The rows of the head query join those of the base query.
LEMMA MergeKeeps ==
  ASSUME IInv, Merge
  PROVE  IInv'
<1> DEFINE new == IF FilesOf("head") = {} THEN <<>> ELSE RowsOf("head")
<1>1. phase' = "merge" /\ git' = git /\ opts' = opts /\ rows' = [rows EXCEPT !["head"] = new]
  BY DEF Merge
<1>2. QueryOk'
  BY <1>1 DEF IInv, QueryOk
<1>3. DOMAIN new \subseteq Unit /\ \A n \in DOMAIN new : RowOk(new[n])
  <2>1. DOMAIN RowsOf("head") \subseteq Unit /\ \A n \in DOMAIN RowsOf("head") : RowOk(RowsOf("head")[n])
    BY RowsOfOk DEF Merge, IInv, Roles
  <2>2. DOMAIN <<>> = {}
    OBVIOUS
  <2> QED
    BY <2>1, <2>2
<1>4. RowsOk'
  <2> HIDE DEF new
  <2>1. RowsOk
    BY DEF IInv
  <2>2. DOMAIN rows' = Roles /\ rows'["head"] = new /\ rows'["base"] = rows["base"]
    BY <1>1, <2>1 DEF RowsOk, Roles
  <2>3. \A role \in Roles : DOMAIN rows'[role] \subseteq Unit /\ \A n \in DOMAIN rows'[role] : RowOk(rows'[role][n])
    BY <1>3, <2>1, <2>2 DEF RowsOk, Roles
  <2> QED
    BY <2>2, <2>3 DEF RowsOk, RowOk
<1> QED
  BY <1>1, <1>2, <1>4 DEF IInv, ResultOk, Roles

\* The merged rows are those of the two revisions.
LEMMA UnionKeeps ==
  ASSUME IInv, Union
  PROVE  IInv'
<1>1. /\ phase' = "owed" /\ git' = git /\ opts' = opts /\ rows' = rows
      /\ impact' = [n \in DOMAIN rows["base"] \cup DOMAIN rows["head"] |-> MergedRow(n)]
  BY DEF Union
<1>2. QueryOk' /\ RowsOk' /\ \A n : MergedRow(n)' = MergedRow(n)
  BY <1>1, SameRows DEF IInv, QueryOk
<1>3. ResultOk'
  BY <1>1, <1>2 DEF ResultOk
<1> QED
  BY <1>1, <1>2, <1>3 DEF IInv, Roles

\* What is owed is computed from the merged rows.
LEMMA ObligeKeeps ==
  ASSUME IInv, Oblige
  PROVE  IInv'
<1>1. /\ phase = "owed" /\ phase' = "done" /\ git' = git /\ opts' = opts /\ rows' = rows /\ impact' = impact
      /\ owed'.verify = CollectEntities
  BY DEF Oblige
<1>2. QueryOk' /\ RowsOk' /\ \A n : MergedRow(n)' = MergedRow(n)
  BY <1>1, SameRows DEF IInv, QueryOk
<1>3. CollectEntities' = CollectEntities
  BY <1>1, SameResult
<1>4. ResultOk'
  BY <1>1, <1>2, <1>3 DEF IInv, ResultOk
<1> QED
  BY <1>1, <1>2, <1>4 DEF IInv, Roles

\* A step that changes nothing keeps everything.
LEMMA StutterKeeps ==
  ASSUME IInv, UNCHANGED vars
  PROVE  IInv'
<1>1. git' = git /\ opts' = opts /\ phase' = phase /\ heap' = heap /\ best' = best /\ rows' = rows
      /\ impact' = impact /\ owed' = owed
  BY DEF vars
<1>2. QueryOk' /\ RowsOk' /\ (\A n : MergedRow(n)' = MergedRow(n)) /\ CollectEntities' = CollectEntities
  BY <1>1, SameRows, SameResult DEF IInv, QueryOk
<1>3. ResultOk'
  BY <1>1, <1>2 DEF IInv, ResultOk
<1>4. ASSUME NEW role \in Roles, SearchOk(role) PROVE SearchOk(role)'
  <2>1. /\ Seeds(role)' = Seeds(role) /\ \A n : Neighbours(n, role)' = Neighbours(n, role)
    BY <1>1, SameGraph
  <2>2. \A n \in DOMAIN best' : LabelOk(n, best[n], role)'
    BY <1>1, <1>4, SameLabel DEF SearchOk
  <2>3. \A n : (Pending(n) => Pending(n)') /\ (Settled(n, role) => Settled(n, role)')
    BY <1>1, <2>1 DEF Pending, Settled, Followed
  <2> QED
    BY <1>1, <1>4, <2>1, <2>2, <2>3 DEF SearchOk
<1> QED
  BY <1>1, <1>2, <1>3, <1>4 DEF IInv

\* The inductive invariant holds in every state of a run.
LEMMA Invariant == Spec => []IInv
<1>1. Init => IInv
  BY InitOk
<1>2. IInv /\ [Next]_vars => IInv'
  BY QueryBaseKeeps, QueryHeadKeeps, MergeKeeps, UnionKeeps, ObligeKeeps, PopKeeps, StutterKeeps
     DEF Next, Finished
<1> QED
  BY <1>1, <1>2, PTL DEF Spec

-----------------------------------------------------------------------------
(* What a finished search has found.                                         *)

\* With the frontier empty every node that was reached is settled.
LEMMA SearchedIsSettled ==
  ASSUME IInv, NEW role \in Roles, Searched(role)
  PROVE  SearchOk(role) /\ \A n \in DOMAIN best : Settled(n, role)
<1>1. SearchOk(role) /\ heap = {}
  BY DEF IInv, Searched
<1>2. \A n : ~Pending(n)
  BY <1>1 DEF Pending
<1> QED
  BY <1>1, <1>2 DEF SearchOk

\* What lies within k deterministic hops was found at no cost and no deeper than k.
LEMMA CoreIsFound ==
  ASSUME IInv, NEW role \in Roles, Searched(role)
  PROVE  \A k \in Nat : (opts.depth # Unlimited => k <= opts.depth)
           => \A n \in Ball(role, TRUE, k) : n \in DOMAIN best /\ best[n].nd = 0 /\ best[n].dep <= k
<1> DEFINE Good(k) == \A n \in Ball(role, TRUE, k) : n \in DOMAIN best /\ best[n].nd = 0 /\ best[n].dep <= k
           Deep(k) == opts.depth # Unlimited => k <= opts.depth
           T == {k \in Nat : Deep(k) => Good(k)}
<1>1. SearchOk(role) /\ (\A n \in DOMAIN best : Settled(n, role)) /\ opts.depth \in Nat
  BY SearchedIsSettled DEF IInv, QueryOk
<1>2. \A n \in Seeds(role) : n \in DOMAIN best /\ best[n].nd = 0 /\ best[n].dep = 0
  BY <1>1 DEF SearchOk
<1>3. \A n \in DOMAIN best : best[n].nd \in Nat /\ best[n].dep \in Nat
  BY <1>1 DEF SearchOk, LabelOk
<1>4. 0 \in T
  <2>1. Ball(role, TRUE, 0) = Seeds(role)
    BY BallsStep DEF BallStep
  <2>2. \A n \in Seeds(role) : n \in DOMAIN best /\ best[n].nd = 0 /\ best[n].dep <= 0
    BY <1>2
  <2>3. Good(0)
    BY <2>1, <2>2, Zenon
  <2> HIDE DEF Good
  <2> QED
    BY <2>3
<1>5. ASSUME NEW k \in Nat, k \in T PROVE k + 1 \in T
  <2>0. SUFFICES ASSUME Deep(k + 1) PROVE Good(k + 1)
    <3> HIDE DEF Good, Deep
    <3> QED
      OBVIOUS
  <2> SUFFICES ASSUME NEW n \in Ball(role, TRUE, k + 1)
               PROVE  n \in DOMAIN best /\ best[n].nd = 0 /\ best[n].dep <= k + 1
    OBVIOUS
  <2>1. Good(k) /\ (opts.depth # Unlimited => k < opts.depth)
    <3>1. opts.depth # Unlimited => k < opts.depth
      BY <1>1, <2>0
    <3>2. Deep(k)
      BY <1>1, <3>1
    <3>3. Good(k)
      <4> HIDE DEF Good, Deep
      <4> QED
        BY <1>5, <3>2
    <3> QED
      BY <3>1, <3>3
  <2>2. Ball(role, TRUE, k + 1) = HopsFrom(Ball(role, TRUE, k), role, TRUE)
    BY BallsStep DEF BallStep
  <2>3. CASE n \in Ball(role, TRUE, k)
    <3>1. n \in DOMAIN best /\ best[n].nd = 0 /\ best[n].dep <= k
      BY <2>1, <2>3
    <3> QED
      BY <1>3, <3>1
  <2>4. CASE n \notin Ball(role, TRUE, k)
    <3>1. PICK p \in Ball(role, TRUE, k) : \E x \in Neighbours(p, role) :
            Pool[x.e].prov = "deterministic" /\ n = x.next
      BY <2>2, <2>4 DEF HopsFrom
    <3>2. PICK x \in Neighbours(p, role) : Pool[x.e].prov = "deterministic" /\ n = x.next
      BY <3>1
    <3>3. p \in DOMAIN best /\ best[p].nd = 0 /\ best[p].dep <= k /\ best[p].dep \in Nat /\ n # p
      BY <1>3, <2>1, <2>4
    <3>4. CASE n \in Seeds(role)
      BY <1>2, <3>4
    <3>5. CASE n \notin Seeds(role)
      <4>1. ~(opts.depth # Unlimited /\ best[p].dep >= opts.depth)
        BY <1>1, <2>1, <3>3
      <4>2. Followed(p, x, role)
        BY <1>1, <3>2, <3>3, <3>5, <4>1 DEF Settled
      <4>3. n \in DOMAIN best /\ ~Less(Label(best[p], x), best[n])
        BY <3>2, <4>2 DEF Followed
      <4>4. Label(best[p], x).nd = 0 /\ Label(best[p], x).dep = best[p].dep + 1
        BY <3>2, <3>3 DEF Label
      <4>5. best[n].nd \in Nat /\ best[n].dep \in Nat
        BY <1>3, <4>3
      <4> QED
        BY <3>3, <4>3, <4>4, <4>5 DEF Less
    <3> QED
      BY <3>4, <3>5
  <2> QED
    BY <2>3, <2>4
<1> HIDE DEF T
<1>6. Nat \subseteq T
  BY <1>4, <1>5, AllNaturals
<1> QED
  BY <1>6 DEF T

\* Without a limit, what lies within k hops of any kind was found.
LEMMA AllIsFound ==
  ASSUME IInv, NEW role \in Roles, Searched(role), opts.depth = Unlimited
  PROVE  \A k \in Nat : Ball(role, FALSE, k) \subseteq DOMAIN best
<1> DEFINE T == {k \in Nat : Ball(role, FALSE, k) \subseteq DOMAIN best}
<1>1. SearchOk(role) /\ \A n \in DOMAIN best : Settled(n, role)
  BY SearchedIsSettled
<1>2. 0 \in T
  BY <1>1, BallsStep DEF BallStep, SearchOk
<1>3. ASSUME NEW k \in Nat, k \in T PROVE k + 1 \in T
  <2>1. Ball(role, FALSE, k + 1) = HopsFrom(Ball(role, FALSE, k), role, FALSE)
    BY BallsStep DEF BallStep
  <2>2. ASSUME NEW p \in Ball(role, FALSE, k), NEW x \in Neighbours(p, role) PROVE x.next \in DOMAIN best
    <3>1. p \in DOMAIN best
      BY <1>3
    <3>2. x.next \in Seeds(role) \cup {p} \/ Followed(p, x, role)
      BY <1>1, <3>1 DEF Settled
    <3> QED
      BY <1>1, <3>1, <3>2 DEF Followed, SearchOk
  <2>3. HopsFrom(Ball(role, FALSE, k), role, FALSE) \subseteq DOMAIN best
    <3>1. Ball(role, FALSE, k) \subseteq DOMAIN best
      BY <1>3
    <3>2. ASSUME NEW n \in HopsFrom(Ball(role, FALSE, k), role, FALSE), n \notin Ball(role, FALSE, k)
          PROVE  \E p \in Ball(role, FALSE, k) : \E x \in Neighbours(p, role) : n = x.next
      BY <3>2 DEF HopsFrom
    <3> HIDE DEF T
    <3> QED
      BY <2>2, <3>1, <3>2, Zenon
  <2>4. Ball(role, FALSE, k + 1) \subseteq DOMAIN best
    BY <2>1, <2>3, Zenon
  <2>5. k + 1 \in Nat
    OBVIOUS
  <2> QED
    BY <2>4, <2>5
<1> HIDE DEF T
<1>4. Nat \subseteq T
  BY <1>2, <1>3, AllNaturals
<1> QED
  BY <1>4 DEF T

\* A label of at most the depth asked for is one of the ball of that radius.
LEMMA WithinBound ==
  ASSUME IInv, NEW role \in Roles, NEW det \in BOOLEAN, NEW n, NEW k \in Nat, n \in Ball(role, det, k),
         opts.depth # Unlimited => k <= opts.depth
  PROVE  Bound \in Nat /\ n \in Ball(role, det, Bound)
<1>1. opts.depth \in Nat /\ git.edges[role] \subseteq Edges
  BY DEF IInv, QueryOk
<1>2. CASE opts.depth = Unlimited
  BY <1>1, <1>2, BallSuffices, UnitFinite DEF Bound
<1>3. CASE opts.depth # Unlimited
  <2>1. opts.depth - k \in Nat /\ k + (opts.depth - k) = opts.depth
    BY <1>1, <1>3
  <2>2. Ball(role, det, k) \subseteq Ball(role, det, opts.depth)
    BY <2>1, BallGrows
  <2> QED
    BY <1>1, <1>3, <2>2 DEF Bound
<1> QED
  BY <1>2, <1>3

\* The radius of the reference is a number, and no larger than the depth asked for.
LEMMA BoundIsNumber ==
  ASSUME IInv
  PROVE  Bound \in Nat /\ (opts.depth # Unlimited => Bound <= opts.depth)
BY UnitFinite DEF IInv, QueryOk, Bound

\* A finished search labels exactly the deterministic core without an inferred hop: traverse() of
\* impact.py settles a node only when no cheaper path is left on the heap, so the core does not
\* depend on the order in which competing paths were popped. For every graph, change and depth.
THEOREM DeterministicCoreIsExact == Spec => []CoreIsExact
<1>1. ASSUME IInv PROVE CoreIsExact
  <2> SUFFICES ASSUME NEW role \in Roles, Searched(role)
               PROVE  {n \in Reached(role) : best[n].nd = 0} = Within(role, TRUE)
    BY DEF CoreIsExact
  <2>1. SearchOk(role)
    BY <1>1, SearchedIsSettled
  <2>2. ASSUME NEW n \in Reached(role), best[n].nd = 0 PROVE n \in Within(role, TRUE)
    <3>1. n \in DOMAIN best /\ n \notin Seeds(role)
      BY DEF Reached
    <3>2. /\ best[n].dep \in Nat /\ n \in Ball(role, TRUE, best[n].dep)
          /\ opts.depth # Unlimited => best[n].dep <= opts.depth
      BY <2>1, <2>2, <3>1 DEF SearchOk, LabelOk
    <3>3. n \in Ball(role, TRUE, Bound)
      BY <1>1, <3>2, WithinBound
    <3> QED
      BY <3>1, <3>3 DEF Within
  <2>3. ASSUME NEW n \in Within(role, TRUE) PROVE n \in Reached(role) /\ best[n].nd = 0
    <3>1. n \in Ball(role, TRUE, Bound) /\ n \notin Seeds(role)
      BY DEF Within
    <3>2. n \in DOMAIN best /\ best[n].nd = 0
      BY <1>1, <3>1, BoundIsNumber, CoreIsFound
    <3> QED
      BY <3>1, <3>2 DEF Reached
  <2> QED
    BY <2>2, <2>3
<1> QED
  BY <1>1, Invariant, PTL

\* Without a depth limit a finished search has found every dependent, over edges of any provenance,
\* and nothing else: traverse() of impact.py with --max-depth -1, for every graph and change.
THEOREM UnlimitedSearchIsComplete == Spec => []UnlimitedIsComplete
<1>1. ASSUME IInv PROVE UnlimitedIsComplete
  <2> SUFFICES ASSUME NEW role \in Roles, Searched(role), opts.depth = Unlimited
               PROVE  Reached(role) = Within(role, FALSE)
    BY DEF UnlimitedIsComplete
  <2>1. SearchOk(role)
    BY <1>1, SearchedIsSettled
  <2>2. ASSUME NEW n \in DOMAIN best PROVE n \in Ball(role, FALSE, Bound)
    <3>1. best[n].dep \in Nat /\ n \in Ball(role, FALSE, best[n].dep)
      BY <2>1 DEF SearchOk, LabelOk
    <3> QED
      BY <1>1, <3>1, WithinBound
  <2>3. Ball(role, FALSE, Bound) \subseteq DOMAIN best
    BY <1>1, BoundIsNumber, AllIsFound
  <2> QED
    BY <2>2, <2>3 DEF Reached, Within
<1> QED
  BY <1>1, Invariant, PTL

-----------------------------------------------------------------------------
(* What the merge keeps.                                                     *)

\* A row of the tail that crosses a boundary outweighs every other, so the row kept crosses one too.
LEMMA ChosenCrosses ==
  ASSUME NEW n, NEW row \in RowsFor(n), row.tail, Crosses(row), \A r \in RowsFor(n) : r.tail \in BOOLEAN
  PROVE  Crosses(Chosen(n))
<1> DEFINE weight(r) == (IF r.tail THEN 2 ELSE 0) + (IF Crosses(r) THEN 1 ELSE 0)
           Best(r) == \A other \in RowsFor(n) : weight(r) >= weight(other)
<1>1. \A r : weight(r) \in 0..3 /\ (~Crosses(r) => weight(r) < 3)
  OBVIOUS
<1>2. weight(row) = 3
  OBVIOUS
<1>3. Chosen(n) = CHOOSE r \in RowsFor(n) : Best(r)
  BY DEF Chosen
<1> HIDE DEF weight
<1>4. Best(row)
  BY <1>1, <1>2
<1>5. Chosen(n) \in RowsFor(n) /\ Best(Chosen(n))
  <2> HIDE DEF Best
  <2> QED
    BY <1>3, <1>4
<1>6. weight(Chosen(n)) >= 3
  BY <1>2, <1>5
<1> QED
  BY <1>1, <1>6

\* A boundary that either revision inferred stays in the merged row, and with it the canary of a
\* provided route or of a read key: merge_revisions() of impact_pair.py and collect_entities() of
\* verify.py lose it for no graph, change, depth or fallback.
THEOREM InferredBoundaryIsKept == Spec => []BoundaryKept
<1>1. ASSUME IInv PROVE BoundaryKept
  <2> SUFFICES ASSUME phase = "done", NEW n \in DOMAIN impact, NEW role \in Roles,
                      n \in DOMAIN rows[role], rows[role][n].tail, Crosses(rows[role][n])
               PROVE  /\ InferredBoundary(n)
                      /\ (\E t \in BindingTypes(n) : "canary" \in MatrixEdge(t)) => "canary" \in owed.verify[n]
    BY DEF BoundaryKept
  <2> DEFINE row == rows[role][n]
  <2>1. RowsOk /\ impact[n] = MergedRow(n) /\ owed.verify = CollectEntities
    BY <1>1 DEF IInv, ResultOk
  <2>2. row \in RowsFor(n) /\ \A r \in RowsFor(n) : RowOk(r)
    BY <2>1 DEF RowsFor, RowsOk
  <2>3. n \in Unit
    BY <2>1 DEF RowsOk
  <2> HIDE DEF row
  <2>4. row.tail /\ Crosses(row)
    BY DEF row
  <2>5. Crosses(Chosen(n))
    <3>1. \A r \in RowsFor(n) : r.tail \in BOOLEAN
      BY <2>2 DEF RowOk
    <3> QED
      BY <2>2, <2>4, <3>1, ChosenCrosses
  <2>6. row.swept = FALSE /\ \E e \in row.hops : Pool[e].prov # "deterministic"
    BY <2>2, <2>4 DEF RowOk
  <2>7. /\ impact[n].boundary = Chosen(n).boundary /\ row.hops \subseteq impact[n].hops
        /\ ~impact[n].swept
    BY <2>1, <2>2, <2>6 DEF MergedRow
  <2>8. InferredBoundary(n)
    BY <2>5, <2>6, <2>7 DEF InferredBoundary, Crosses
  <2>9. n \in Selected
    BY <2>7 DEF Selected
  <2>10. ASSUME NEW t \in BindingTypes(n), "canary" \in MatrixEdge(t) PROVE "canary" \in owed.verify[n]
    <3>1. "canary" \in MatrixNode(NodeType[n]) \cup UNION {MatrixEdge(u) : u \in BindingTypes(n)}
      BY <2>10
    <3>2. NodeType[n] \in AppliesTo("canary")
      <4>1. "canary" \notin DOMAIN NarrowTypes
        BY DEF NarrowTypes
      <4> QED
        BY <2>3, <4>1, GraphAssumption DEF AppliesTo
    <3>3. ~CanaryUnreachableTest(n)
      BY <2>8 DEF CanaryUnreachableTest
    <3>4. "canary" \in Minimum(n, TsUnder(n, "head"))
      BY <3>1, <3>2, <3>3 DEF Minimum
    <3> QED
      BY <2>1, <2>9, <3>4 DEF CollectEntities
  <2> QED
    BY <2>8, <2>10
<1> QED
  BY <1>1, Invariant, PTL
=============================================================================
