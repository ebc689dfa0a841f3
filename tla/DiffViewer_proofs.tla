-------------------------- MODULE DiffViewer_proofs ---------------------------
(***************************************************************************)
(* Proofs about the diff viewer: about CommitSeries, for any paths and     *)
(* contents and any number of commits, and about InterdiffFilter, for      *)
(* files of any length.                                                    *)
(*                                                                         *)
(* What the code computes by following a chain, the model defines by       *)
(* recursive functions.  They are reasoned about with a smallest           *)
(* counterexample: the first commit, or the first place in a chain, where  *)
(* something goes wrong.                                                   *)
(***************************************************************************)
EXTENDS CommitSeries, InterdiffFilter, SequenceTheorems, FiniteSetTheorems,
        WellFoundedInduction, TLAPS

(***************************************************************************)
(* Numbers and recursive functions.                                        *)
(***************************************************************************)

(* Every nonempty set of naturals has a least one: the intervals up to its *)
(* members are finite, and strict inclusion of finite sets is well-founded.*)
LEMMA Least ==
  ASSUME NEW S \in SUBSET Nat, S # {}
  PROVE  \E m \in S : \A n \in S : m <= n
<1> DEFINE F == {0..n : n \in S}
<1>1. F \subseteq FiniteSubsetsOf(Nat) /\ F # {}
  <2>1. ASSUME NEW n \in S PROVE 0..n \in FiniteSubsetsOf(Nat)
    <3>1. IsFiniteSet(0..n) /\ 0..n \in SUBSET Nat
      BY FS_Interval
    <3> QED
      BY <3>1 DEF FiniteSubsetsOf
  <2> QED
    BY <2>1
<1>2. IsWellFoundedOn(StrictSubsetOrdering(Nat), FiniteSubsetsOf(Nat))
  BY FS_StrictSubsetOrderingWellFounded
<1>3. PICK X \in F : \A Y \in F : ~(<<Y, X>> \in StrictSubsetOrdering(Nat))
  <2> HIDE DEF F
  <2> QED
    BY <1>1, <1>2, WFMin
<1>4. PICK m \in S : X = 0..m
  OBVIOUS
<1>5. ASSUME NEW n \in S, n < m
      PROVE  FALSE
  <2>1. 0..n \in F
    OBVIOUS
  <2>2. 0..n \subseteq 0..m /\ m \in 0..m /\ m \notin 0..n
    BY <1>5
  <2>3. <<0..n, X>> \in StrictSubsetOrdering(Nat)
    BY <1>4, <2>2 DEF StrictSubsetOrdering
  <2> QED
    BY <1>3, <2>1, <2>3
<1> QED
  BY <1>5

(* A bounded one has a greatest.                                           *)
LEMMA Greatest ==
  ASSUME NEW k \in Nat, NEW S \in SUBSET (0..k), S # {}
  PROVE  \E m \in S : \A n \in S : n <= m
<1> DEFINE R == {k - n : n \in S}
<1>1. \A n \in S : n \in Nat /\ k - n \in Nat
  OBVIOUS
<1>2. R \in SUBSET Nat /\ R # {}
  BY <1>1
<1>3. PICK d \in R : \A e \in R : d <= e
  <2> HIDE DEF R
  <2> QED
    BY <1>2, Least
<1>4. PICK m \in S : d = k - m
  BY <1>3
<1>5. \A n \in S : k - m <= k - n
  BY <1>3, <1>4
<1> QED
  BY <1>1, <1>4, <1>5

(* So a set of naturals that has n when it has all those below n has all,  *)
LEMMA StrongInduction ==
  ASSUME NEW Good, \A n \in Nat : (\A m \in Nat : m < n => m \in Good) => n \in Good
  PROVE  Nat \subseteq Good
<1> SUFFICES ASSUME Nat \ Good # {} PROVE FALSE
  OBVIOUS
<1>1. PICK n \in Nat \ Good : \A m \in Nat \ Good : n <= m
  BY Least
<1>2. \A m \in Nat : m < n => m \in Good
  BY <1>1
<1> QED
  BY <1>1, <1>2

(* and a set that has a member of D when it has those of a lower rank has  *)
(* all of D.                                                               *)
LEMMA LeastRank ==
  ASSUME NEW D, NEW rank \in [D -> Nat], NEW Good,
         \A x \in D : (\A y \in D : rank[y] < rank[x] => y \in Good) => x \in Good
  PROVE  D \subseteq Good
<1> DEFINE Ranked == {n \in Nat : \A x \in D : rank[x] = n => x \in Good}
<1>1. ASSUME NEW n \in Nat, \A m \in Nat : m < n => m \in Ranked
      PROVE  n \in Ranked
  <2> SUFFICES ASSUME NEW x \in D, rank[x] = n PROVE x \in Good
    OBVIOUS
  <2>1. ASSUME NEW y \in D, rank[y] < rank[x] PROVE y \in Good
    <3>1. rank[y] \in Nat /\ rank[y] < n
      BY <2>1
    <3>2. rank[y] \in Ranked
      BY <1>1, <3>1
    <3> QED
      BY <3>2
  <2> QED
    BY <2>1
<1>2. Nat \subseteq Ranked
  <2> HIDE DEF Ranked
  <2> QED
    BY <1>1, StrongInduction
<1> QED
  <2> SUFFICES ASSUME NEW x \in D PROVE x \in Good
    OBVIOUS
  <2>1. rank[x] \in Nat /\ rank[x] \in Ranked
    BY <1>2
  <2> QED
    BY <2>1

(* A function is defined by recursion when every member that is not a base *)
(* refers to one of a smaller rank.                                        *)
Recursive(h, D, E, par, step, base) ==
  h = [x \in D |-> IF x \in E THEN step[x][h[par[x]]] ELSE base[x]]

LEMMA RecursionExists ==
  ASSUME NEW D, NEW rank \in [D -> Nat], NEW k \in Nat, \A x \in D : rank[x] < k,
         NEW V, NEW E \in SUBSET D,
         NEW par \in [E -> D], \A x \in E : rank[par[x]] < rank[x],
         NEW step \in [E -> [V -> V]], NEW base \in [D -> V]
  PROVE  \E h \in [D -> V] : Recursive(h, D, E, par, step, base)
<1> DEFINE Upto(n) == {x \in D : rank[x] < n}
           Next_(h, n) == [x \in Upto(n) |->
                             IF x \in E THEN step[x][h[par[x]]] ELSE base[x]]
           Made(n) == \E h \in [Upto(n) -> V] : h = Next_(h, n)
           Good == {n \in Nat : Made(n)}
<1>1. Nat \subseteq Good
  <2> SUFFICES ASSUME NEW n \in Nat, \A m \in Nat : m < n => m \in Good
               PROVE  n \in Good
    <3> HIDE DEF Good
    <3> QED
      BY StrongInduction
  <2>1. CASE n = 0
    <3>1. Upto(0) = {}
      OBVIOUS
    <3>2. [x \in {} |-> x] \in [Upto(0) -> V] /\ [x \in {} |-> x] = Next_([x \in {} |-> x], 0)
      BY <3>1
    <3> QED
      BY <2>1, <3>2
  <2>2. CASE n # 0
    <3>1. n - 1 \in Good
      <4>1. n - 1 \in Nat /\ n - 1 < n
        BY <2>2
      <4> HIDE DEF Good
      <4> QED
        BY <4>1
    <3>2. PICK h \in [Upto(n - 1) -> V] : h = Next_(h, n - 1)
      BY <3>1
    <3>3. PICK g : g = Next_(h, n)
      OBVIOUS
    <3>4. \A x \in E : x \in Upto(n) => par[x] \in Upto(n - 1)
      <4> TAKE x \in E
      <4> HAVE x \in Upto(n)
      <4>1. par[x] \in D /\ rank[par[x]] \in Nat /\ rank[x] \in Nat
        OBVIOUS
      <4> QED
        BY <4>1
    <3>5. g \in [Upto(n) -> V]
      BY <3>3, <3>4
    <3>6. \A x \in Upto(n - 1) : x \in Upto(n) /\ g[x] = h[x]
      <4> SUFFICES ASSUME NEW x \in Upto(n - 1)
                   PROVE  x \in Upto(n) /\ g[x] = h[x]
        OBVIOUS
      <4>1. x \in Upto(n)
        <5>1. rank[x] \in Nat
          OBVIOUS
        <5> QED
          BY <5>1
      <4>2. h[x] = IF x \in E THEN step[x][h[par[x]]] ELSE base[x]
        BY <3>2
      <4> QED
        BY <3>3, <4>1, <4>2
    <3>7. g = Next_(g, n)
      <4>1. \A x \in Upto(n) : g[x] = IF x \in E THEN step[x][g[par[x]]] ELSE base[x]
        BY <3>3, <3>4, <3>6
      <4> QED
        BY <3>5, <4>1
    <3> QED
      BY <3>5, <3>7
  <2> QED
    BY <2>1, <2>2
<1>2. Upto(k) = D /\ Made(k)
  BY <1>1
<1> QED
  BY <1>2 DEF Recursive

(***************************************************************************)
(* The chain of the ancestors of a FileDiff, among a set D of FileDiffs.   *)
(***************************************************************************)

(* The commits of the FileDiffs are naturals up to k.                      *)
Numbered(D, k) == \A f \in D : f.commit \in 0..k

(* FreshChain of every member of D.                                        *)
ChainOf(D) ==
  CHOOSE h : h = [g \in D |->
    IF Earlier(g, D) = {} THEN <<>>
    ELSE Append(h[Latest(Earlier(g, D))], Latest(Earlier(g, D)))]

LEMMA FreshChainIs == \A f : FreshChain(f) = ChainOf(PerCommit)[f]
BY DEF FreshChain, ChainOf

(* A FileDiff has a latest ancestor when it has one.                       *)
LEMMA LatestIs ==
  ASSUME NEW D, NEW k \in Nat, Numbered(D, k), NEW f, Earlier(f, D) # {}
  PROVE  LET h == Latest(Earlier(f, D)) IN
         h \in D /\ h \in Before(f, D) /\ h \in Earlier(f, D) /\ h.commit < f.commit
         /\ \A g \in Earlier(f, D) : g.commit <= h.commit
<1> DEFINE S == Earlier(f, D)
           R == {g.commit : g \in S}
<1>1. S \subseteq D /\ S \subseteq Before(f, D) /\ \A g \in S : g.commit < f.commit
  BY DEF Earlier, Before
<1>2. R \in SUBSET (0..k) /\ R # {}
  BY <1>1 DEF Numbered
<1>3. PICK m \in R : \A n \in R : n <= m
  <2> HIDE DEF R
  <2> QED
    BY <1>2, Greatest
<1>4. \E h \in S : \A g \in S : g.commit <= h.commit
  BY <1>3
<1>5. Latest(S) \in S /\ \A g \in S : g.commit <= Latest(S).commit
  BY <1>4 DEF Latest
<1> QED
  BY <1>1, <1>5

(* What the recursion says of the chain of each, and that it is a sequence *)
(* of members of D.                                                        *)
ChainRule(C, D) ==
  \A f \in D :
    /\ C[f] \in Seq(D)
    /\ Earlier(f, D) = {} => C[f] = <<>>
    /\ Earlier(f, D) # {} =>
         C[f] = Append(C[Latest(Earlier(f, D))], Latest(Earlier(f, D)))

LEMMA ChainIs ==
  ASSUME NEW D, NEW k \in Nat, Numbered(D, k)
  PROVE  ChainRule(ChainOf(D), D)
<1> DEFINE E == {f \in D : Earlier(f, D) # {}}
           rank == [f \in D |-> f.commit]
           par == [f \in E |-> Latest(Earlier(f, D))]
           step == [f \in E |-> [s \in Seq(D) |-> Append(s, par[f])]]
           base == [f \in D |-> <<>>]
           C == ChainOf(D)
<1>1. \A f \in E : par[f] \in D /\ rank[par[f]] < rank[f]
  <2> SUFFICES ASSUME NEW f \in E PROVE par[f] \in D /\ rank[par[f]] < rank[f]
    OBVIOUS
  <2>1. Latest(Earlier(f, D)) \in D /\ Latest(Earlier(f, D)).commit < f.commit
    BY LatestIs
  <2> QED
    BY <2>1
<1>2. rank \in [D -> Nat] /\ \A f \in D : rank[f] < k + 1
  BY DEF Numbered
<1>3. PICK h \in [D -> Seq(D)] : Recursive(h, D, E, par, step, base)
  <2>1. step \in [E -> [Seq(D) -> Seq(D)]] /\ base \in [D -> Seq(D)] /\ par \in [E -> D]
    <3>1. par \in [E -> D]
      BY <1>1
    <3>2. base \in [D -> Seq(D)]
      BY EmptySeq
    <3> HIDE DEF par, E
    <3>3. \A f \in E : \A s \in Seq(D) : Append(s, par[f]) \in Seq(D)
      BY <3>1
    <3>4. step \in [E -> [Seq(D) -> Seq(D)]]
      BY <3>3
    <3> QED
      BY <3>1, <3>2, <3>4
  <2>2. k + 1 \in Nat /\ E \in SUBSET D
    OBVIOUS
  <2> HIDE DEF E, rank, par, step, base
  <2> QED
    BY <1>1, <1>2, <2>1, <2>2, RecursionExists
<1>4. h = [g \in D |-> IF Earlier(g, D) = {} THEN <<>>
                       ELSE Append(h[Latest(Earlier(g, D))], Latest(Earlier(g, D)))]
  <2>1. \A g \in D : h[g] = IF g \in E THEN step[g][h[par[g]]] ELSE base[g]
    BY <1>3 DEF Recursive
  <2>2. ASSUME NEW g \in D
        PROVE  h[g] = IF Earlier(g, D) = {} THEN <<>>
                      ELSE Append(h[Latest(Earlier(g, D))], Latest(Earlier(g, D)))
    <3>1. CASE g \in E
      <4>1. h[par[g]] \in Seq(D)
        BY <1>1, <3>1
      <4>2. h[g] = Append(h[par[g]], par[g])
        BY <2>1, <3>1, <4>1
      <4> QED
        BY <3>1, <4>2
    <3>2. CASE g \notin E
      BY <2>1, <3>2
    <3> QED
      BY <3>1, <3>2
  <2> QED
    BY <2>2
<1>5. C = [g \in D |-> IF Earlier(g, D) = {} THEN <<>>
                       ELSE Append(C[Latest(Earlier(g, D))], Latest(Earlier(g, D)))]
  BY <1>4 DEF ChainOf
<1>6. \A f \in D : C[f] = IF Earlier(f, D) = {} THEN <<>>
                          ELSE Append(C[Latest(Earlier(f, D))], Latest(Earlier(f, D)))
  BY <1>5
<1>7. D \subseteq {f \in D : C[f] \in Seq(D)}
  <2>1. ASSUME NEW f \in D, \A g \in D : rank[g] < rank[f] => C[g] \in Seq(D)
        PROVE  C[f] \in Seq(D)
    <3>1. CASE f \in E
      <4>1. C[par[f]] \in Seq(D) /\ par[f] \in D
        BY <1>1, <2>1, <3>1
      <4>2. C[f] = Append(C[par[f]], par[f])
        BY <1>6, <3>1
      <4> QED
        BY <4>1, <4>2
    <3>2. CASE f \notin E
      <4>1. C[f] = <<>>
        BY <1>6, <3>2
      <4> QED
        BY <4>1, EmptySeq
    <3> QED
      BY <3>1, <3>2
  <2> DEFINE Good == {f \in D : C[f] \in Seq(D)}
  <2>2. \A f \in D : (\A g \in D : rank[g] < rank[f] => g \in Good) => f \in Good
    BY <2>1
  <2> HIDE DEF Good, rank
  <2>3. D \subseteq Good
    BY <1>2, <2>2, LeastRank
  <2> QED
    BY <2>3 DEF Good
<1> QED
  BY <1>6, <1>7 DEF ChainRule

(* A function that follows the rule on a part D of E that refers to itself *)
(* only is the same there.                                                 *)
LEMMA ChainUnique ==
  ASSUME NEW D, NEW E, D \subseteq E, NEW k \in Nat, Numbered(E, k),
         \A f \in D : Earlier(f, E) = Earlier(f, D),
         NEW C, ChainRule(C, D), NEW B, ChainRule(B, E)
  PROVE  \A f \in D : B[f] = C[f]
<1> DEFINE rank == [f \in D |-> f.commit]
           Good == {f \in D : B[f] = C[f]}
<1>1. rank \in [D -> Nat] /\ Numbered(D, k)
  BY DEF Numbered
<1>2. ASSUME NEW f \in D, \A g \in D : rank[g] < rank[f] => g \in Good
      PROVE  f \in Good
  <2>1. CASE Earlier(f, D) = {}
    BY <2>1 DEF ChainRule
  <2>2. CASE Earlier(f, D) # {}
    <3> DEFINE h == Latest(Earlier(f, D))
    <3>1. h \in D /\ h.commit < f.commit
      BY <1>1, <2>2, LatestIs
    <3>2. B[h] = C[h]
      BY <1>2, <3>1
    <3>3. B[f] = Append(B[h], h) /\ C[f] = Append(C[h], h)
      BY <2>2 DEF ChainRule
    <3> QED
      BY <3>2, <3>3
  <2> QED
    BY <2>1, <2>2
<1> HIDE DEF Good, rank
<1>3. D \subseteq Good
  BY <1>1, <1>2, LeastRank
<1> QED
  BY <1>3 DEF Good

(* The chain of an ancestor is the part of the chain before it.            *)
LEMMA ChainPrefix ==
  ASSUME NEW D, NEW k \in Nat, Numbered(D, k), NEW C, ChainRule(C, D)
  PROVE  \A f \in D : \A i \in DOMAIN C[f] :
           C[f][i] \in D /\ C[C[f][i]] = SubSeq(C[f], 1, i - 1)
<1> DEFINE rank == [f \in D |-> f.commit]
           Good == {f \in D : \A i \in DOMAIN C[f] :
                      C[f][i] \in D /\ C[C[f][i]] = SubSeq(C[f], 1, i - 1)}
<1>1. rank \in [D -> Nat]
  BY DEF Numbered
<1>2. ASSUME NEW f \in D, \A g \in D : rank[g] < rank[f] => g \in Good
      PROVE  f \in Good
  <2>1. CASE Earlier(f, D) = {}
    BY <2>1 DEF ChainRule
  <2>2. CASE Earlier(f, D) # {}
    <3>1. PICK h : h = Latest(Earlier(f, D))
      OBVIOUS
    <3>2. h \in D /\ h.commit < f.commit
      BY <2>2, <3>1, LatestIs
    <3>3. C[f] = Append(C[h], h) /\ C[h] \in Seq(D) /\ C[f] \in Seq(D)
      BY <2>2, <3>1, <3>2 DEF ChainRule
    <3>4. \A i \in DOMAIN C[h] :
            C[h][i] \in D /\ C[C[h][i]] = SubSeq(C[h], 1, i - 1)
      BY <1>2, <3>2
    <3>5. ASSUME NEW i \in DOMAIN C[f]
          PROVE  C[f][i] \in D /\ C[C[f][i]] = SubSeq(C[f], 1, i - 1)
      <4>1. Len(C[f]) = Len(C[h]) + 1 /\ i \in 1..Len(C[h]) + 1 /\ Len(C[h]) \in Nat
        BY <3>3
      <4>2. CASE i = Len(C[h]) + 1
        <5>1. C[f][i] = h
          BY <3>3, <4>2
        <5>2. SubSeq(C[f], 1, i - 1) = C[h]
          <6>1. i - 1 = Len(C[h])
            BY <4>1, <4>2
          <6> QED
            BY <3>3, <3>2, <6>1, <4>1
        <5> QED
          BY <3>2, <5>1, <5>2
      <4>3. CASE i # Len(C[h]) + 1
        <5>1. i \in DOMAIN C[h] /\ i \in 1..Len(C[h])
          BY <3>3, <4>1, <4>3
        <5>2. C[f][i] = C[h][i]
          BY <3>3, <5>1
        <5>3. SubSeq(C[f], 1, i - 1) = SubSeq(C[h], 1, i - 1)
          BY <3>2, <3>3, <4>1, <5>1
        <5> QED
          BY <3>4, <5>1, <5>2, <5>3
      <4> QED
        BY <4>2, <4>3
    <3> QED
      BY <3>5
  <2> QED
    BY <2>1, <2>2
<1> HIDE DEF Good, rank
<1>3. D \subseteq Good
  BY <1>1, <1>2, LeastRank
<1> QED
  BY <1>3 DEF Good

(* f and its ancestors, the oldest first.  Each is followed by one that it *)
(* is the latest ancestor of, and the first has none.                      *)
Line(C, f) == Append(C[f], f)

Linked(t, D) ==
  /\ t \in Seq(D) /\ t # <<>>
  /\ \A i \in DOMAIN t : i = 1 <=> Earlier(t[i], D) = {}
  /\ \A i \in DOMAIN t : i > 1 => t[i - 1] = Latest(Earlier(t[i], D))

LEMMA LineLinked ==
  ASSUME NEW D, NEW k \in Nat, Numbered(D, k), NEW C, ChainRule(C, D), NEW f \in D
  PROVE  Linked(Line(C, f), D) /\ Len(Line(C, f)) = Len(C[f]) + 1
         /\ Line(C, f)[Len(Line(C, f))] = f
         /\ \A i \in DOMAIN C[f] : Line(C, f)[i] = C[f][i]
<1>1. PICK t : t = Line(C, f)
  OBVIOUS
<1>2. C[f] \in Seq(D) /\ t \in Seq(D) /\ t # <<>> /\ Len(t) = Len(C[f]) + 1
  BY <1>1 DEF ChainRule, Line
<1>3. ASSUME NEW i \in DOMAIN t
      PROVE  t[i] \in D /\ C[t[i]] = SubSeq(t, 1, i - 1)
  <2>1. i \in 1..Len(C[f]) + 1 /\ Len(C[f]) \in Nat
    BY <1>2
  <2>2. CASE i = Len(C[f]) + 1
    <3>1. t[i] = f /\ i - 1 = Len(C[f])
      BY <1>1, <1>2, <2>1, <2>2 DEF Line
    <3>2. SubSeq(t, 1, i - 1) = C[f]
      BY <1>1, <1>2, <3>1, <2>1 DEF Line
    <3> QED
      BY <3>1, <3>2
  <2>3. CASE i # Len(C[f]) + 1
    <3>1. i \in DOMAIN C[f] /\ i \in 1..Len(C[f])
      BY <1>2, <2>1, <2>3
    <3>2. t[i] = C[f][i]
      BY <1>1, <1>2, <3>1 DEF Line
    <3>3. SubSeq(t, 1, i - 1) = SubSeq(C[f], 1, i - 1)
      BY <1>1, <1>2, <2>1, <3>1 DEF Line
    <3> QED
      BY <3>1, <3>2, <3>3, ChainPrefix
  <2> QED
    BY <2>2, <2>3
<1>4. ASSUME NEW i \in DOMAIN t
      PROVE  /\ i = 1 <=> Earlier(t[i], D) = {}
             /\ i > 1 => t[i - 1] = Latest(Earlier(t[i], D))
  <2>1. i \in 1..Len(t) /\ Len(t) \in Nat /\ t[i] \in D /\ C[t[i]] = SubSeq(t, 1, i - 1)
    BY <1>2, <1>3
  <2>2. Len(C[t[i]]) = i - 1
    BY <1>2, <2>1
  <2>3. CASE Earlier(t[i], D) = {}
    <3>1. C[t[i]] = <<>>
      BY <2>1, <2>3 DEF ChainRule
    <3> QED
      BY <2>1, <2>2, <2>3, <3>1
  <2>4. CASE Earlier(t[i], D) # {}
    <3>1. PICK h : h = Latest(Earlier(t[i], D))
      OBVIOUS
    <3>2. h \in D /\ C[h] \in Seq(D) /\ C[t[i]] = Append(C[h], h)
      BY <2>1, <2>4, <3>1, LatestIs DEF ChainRule
    <3>3. Len(C[h]) = i - 2 /\ i > 1
      BY <2>1, <2>2, <3>2
    <3>4. C[t[i]][i - 1] = h
      BY <3>2, <3>3
    <3>5. SubSeq(t, 1, i - 1)[i - 1] = t[i - 1]
      BY <1>2, <2>1, <3>3
    <3> QED
      BY <2>1, <2>4, <3>1, <3>3, <3>4, <3>5
  <2> QED
    BY <2>3, <2>4
<1>5. t[Len(t)] = f /\ \A i \in DOMAIN C[f] : t[i] = C[f][i]
  BY <1>1, <1>2 DEF Line
<1> QED
  BY <1>1, <1>2, <1>4, <1>5 DEF Linked

(* The commits of a line increase.                                         *)
LEMMA Increasing ==
  ASSUME NEW D, NEW k \in Nat, Numbered(D, k), NEW t, Linked(t, D)
  PROVE  \A i, j \in DOMAIN t : i < j => t[i].commit < t[j].commit
<1> DEFINE Good == {j \in Nat : j \in DOMAIN t =>
                      \A i \in DOMAIN t : i < j => t[i].commit < t[j].commit}
<1>1. t \in Seq(D) /\ DOMAIN t = 1..Len(t) /\ Len(t) \in Nat
  BY DEF Linked
<1>2. \A i \in DOMAIN t : t[i] \in D /\ t[i].commit \in Nat
  BY <1>1 DEF Numbered
<1>3. ASSUME NEW j \in Nat, \A m \in Nat : m < j => m \in Good
      PROVE  j \in Good
  <2> SUFFICES ASSUME j \in DOMAIN t, NEW i \in DOMAIN t, i < j
               PROVE  t[i].commit < t[j].commit
    OBVIOUS
  <2>1. j > 1 /\ j - 1 \in DOMAIN t /\ j - 1 \in Nat /\ i \in Nat /\ j # 1
    BY <1>1
  <2>2. t[j - 1] = Latest(Earlier(t[j], D)) /\ Earlier(t[j], D) # {}
    BY <2>1 DEF Linked
  <2>3. t[j - 1].commit < t[j].commit
    BY <2>2, LatestIs
  <2>4. CASE i = j - 1
    BY <2>3, <2>4
  <2>5. CASE i # j - 1
    <3>1. i < j - 1 /\ j - 1 < j
      BY <2>1, <2>5
    <3>2. t[i].commit < t[j - 1].commit
      BY <1>3, <2>1, <3>1
    <3> QED
      BY <1>2, <2>1, <2>3, <3>2
  <2> QED
    BY <2>4, <2>5
<1>4. Nat \subseteq Good
  <2> HIDE DEF Good
  <2> QED
    BY <1>3, StrongInduction
<1> QED
  BY <1>1, <1>4

(* Where a chain is split: after its last deletion, if it has one.         *)
LEMMA SplitIs ==
  ASSUME NEW D, NEW s \in Seq(D)
  PROVE  \E cut \in 0..Len(s) :
           /\ Split(s) = <<SubSeq(s, 1, cut), SubSeq(s, cut + 1, Len(s))>>
           /\ cut > 0 => Deleted(s[cut])
           /\ \A i \in cut + 1..Len(s) : ~Deleted(s[i])
<1> DEFINE cuts == {i \in DOMAIN s : Deleted(s[i])}
           cut == IF cuts = {} THEN 0
                  ELSE CHOOSE i \in cuts : \A j \in cuts : j <= i
<1>1. DOMAIN s = 1..Len(s) /\ Len(s) \in Nat
  OBVIOUS
<1>2. Split(s) = <<SubSeq(s, 1, cut), SubSeq(s, cut + 1, Len(s))>>
  BY DEF Split
<1>3. CASE cuts = {}
  BY <1>1, <1>2, <1>3
<1>4. CASE cuts # {}
  <2>1. cuts \in SUBSET (0..Len(s))
    BY <1>1
  <2>2. \E i \in cuts : \A j \in cuts : j <= i
    <3> HIDE DEF cuts
    <3> QED
      BY <1>1, <1>4, <2>1, Greatest
  <2>3. cut \in cuts /\ \A j \in cuts : j <= cut
    BY <1>4, <2>2
  <2>4. cut \in 1..Len(s) /\ Deleted(s[cut])
    BY <1>1, <2>3
  <2>5. ASSUME NEW i \in cut + 1..Len(s) PROVE ~Deleted(s[i])
    <3>1. i \in DOMAIN s /\ i > cut
      BY <1>1, <2>4
    <3>2. i \notin cuts
      BY <2>3, <2>4, <3>1
    <3> QED
      BY <3>1, <3>2
  <2> HIDE DEF cut
  <2>6. cut \in 0..Len(s)
    BY <2>4
  <2> QED
    BY <1>2, <2>4, <2>5, <2>6
<1> QED
  BY <1>3, <1>4

(* What is kept of a chain: what KeptAncestorsTrue says of each FileDiff.  *)
WellSplit(c, s) ==
  /\ c[1] \o c[2] = s
  /\ \A i \in DOMAIN c[2] : ~Deleted(c[2][i])
  /\ c[1] # <<>> => Deleted(c[1][Len(c[1])])

LEMMA SplitWell ==
  ASSUME NEW D, NEW s \in Seq(D)
  PROVE  WellSplit(Split(s), s)
<1>1. PICK cut \in 0..Len(s) :
        /\ Split(s) = <<SubSeq(s, 1, cut), SubSeq(s, cut + 1, Len(s))>>
        /\ cut > 0 => Deleted(s[cut])
        /\ \A i \in cut + 1..Len(s) : ~Deleted(s[i])
  BY SplitIs
<1>2. PICK a, b : a = SubSeq(s, 1, cut) /\ b = SubSeq(s, cut + 1, Len(s))
  OBVIOUS
<1>3. /\ a \in Seq(D) /\ Len(a) = cut /\ \A i \in 1..cut : a[i] = s[i]
      /\ b \in Seq(D) /\ Len(b) = Len(s) - cut
      /\ \A i \in 1..Len(s) - cut : b[i] = s[cut + i]
      /\ Len(s) \in Nat
  BY <1>2
<1>4. a \o b = s
  <2>1. Len(a \o b) = Len(s) /\ a \o b \in Seq(D)
    BY <1>3
  <2>2. ASSUME NEW i \in 1..Len(s) PROVE (a \o b)[i] = s[i]
    BY <1>3
  <2>3. \A i \in 1..Len(a \o b) : (a \o b)[i] = s[i]
    BY <2>1, <2>2
  <2> QED
    BY ONLY <2>1, <2>3, s \in Seq(D), SeqEqual
<1>5. ASSUME NEW i \in DOMAIN b PROVE ~Deleted(b[i])
  <2>1. i \in 1..Len(s) - cut /\ cut + i \in cut + 1..Len(s)
    BY <1>3
  <2> QED
    BY <1>1, <1>3, <2>1
<1>6. a # <<>> => Deleted(a[Len(a)])
  BY <1>1, <1>3
<1>7. Split(s)[1] = a /\ Split(s)[2] = b
  BY <1>1, <1>2
<1> QED
  BY <1>4, <1>5, <1>6, <1>7 DEF WellSplit

(***************************************************************************)
(* The ancestors that are kept.                                            *)
(***************************************************************************)

(* The numbers of the commits; those that are kept of the series are well  *)
(* split chains and of the cumulative diff none are.                       *)
NumbersInv ==
  /\ trees \in Seq(Trees) /\ Len(trees) \in Nat \ {0}
  /\ \A f \in filediffs : f.commit \in 0..Posted

KeptInv ==
  \A f \in filediffs :
    cache[f] # Uncomputed =>
      f \in PerCommit /\ WellSplit(cache[f], ChainOf(PerCommit)[f])

LEMMA KeptInvMeans == KeptInv => KeptAncestorsTrue
BY FreshChainIs DEF KeptInv, KeptAncestorsTrue, WellSplit, Kept, PerCommit

(* The commits of PerCommit are numbered, and so are those of all the rows.*)
LEMMA PerCommitNumbered ==
  ASSUME NumbersInv
  PROVE  /\ Posted \in Nat /\ Numbered(PerCommit, Posted) /\ Numbered(filediffs, Posted)
         /\ PerCommit \subseteq filediffs
         /\ \A f \in PerCommit : f.commit \in 1..Posted
         /\ ChainRule(ChainOf(PerCommit), PerCommit)
<1>1. Posted \in Nat /\ Numbered(filediffs, Posted)
  BY DEF NumbersInv, Numbered, Posted
<1>2. PerCommit \subseteq filediffs /\ Numbered(PerCommit, Posted)
      /\ \A f \in PerCommit : f.commit \in 1..Posted
  BY <1>1 DEF PerCommit, Numbered, Cumulative
<1> QED
  BY <1>1, <1>2, ChainIs

(* The functions that Ancestors and Raises compute, and their rules.       *)
AncestorsOf(all) ==
  CHOOSE h : h = [g \in filediffs |->
    IF cache[g] # Uncomputed THEN Kept(g)
    ELSE IF Earlier(g, all) = {} THEN <<>>
    ELSE Append(h[Latest(Earlier(g, all))], Latest(Earlier(g, all)))]

LEMMA AncestorsIs == \A f, all : Ancestors(f, all) = AncestorsOf(all)[f]
BY DEF Ancestors, AncestorsOf

LEMMA AncestorsRule ==
  ASSUME NumbersInv, KeptInv, NEW all, all \subseteq filediffs
  PROVE  \A g \in filediffs :
           AncestorsOf(all)[g] =
             IF cache[g] # Uncomputed THEN Kept(g)
             ELSE IF Earlier(g, all) = {} THEN <<>>
             ELSE Append(AncestorsOf(all)[Latest(Earlier(g, all))],
                         Latest(Earlier(g, all)))
<1> DEFINE E == {g \in filediffs : cache[g] = Uncomputed /\ Earlier(g, all) # {}}
           rank == [g \in filediffs |-> g.commit]
           par == [g \in E |-> Latest(Earlier(g, all))]
           step == [g \in E |-> [s \in Seq(filediffs) |-> Append(s, par[g])]]
           base == [g \in filediffs |->
                      IF cache[g] # Uncomputed THEN Kept(g) ELSE <<>>]
           A == AncestorsOf(all)
<1>1. Numbered(all, Posted) /\ Posted \in Nat
  BY PerCommitNumbered DEF Numbered
<1>2. \A g \in E : par[g] \in filediffs /\ rank[par[g]] < rank[g]
  <2> SUFFICES ASSUME NEW g \in E PROVE par[g] \in filediffs /\ rank[par[g]] < rank[g]
    OBVIOUS
  <2>1. Latest(Earlier(g, all)) \in all /\ Latest(Earlier(g, all)).commit < g.commit
    BY <1>1, LatestIs
  <2> QED
    BY <2>1
<1>3. rank \in [filediffs -> Nat] /\ \A g \in filediffs : rank[g] < Posted + 1
  BY PerCommitNumbered DEF Numbered
<1>4. \A g \in filediffs : cache[g] # Uncomputed => Kept(g) \in Seq(filediffs)
  <2> SUFFICES ASSUME NEW g \in filediffs, cache[g] # Uncomputed
               PROVE  Kept(g) \in Seq(filediffs)
    OBVIOUS
  <2>1. g \in PerCommit /\ Kept(g) = ChainOf(PerCommit)[g]
    BY DEF KeptInv, WellSplit, Kept
  <2>2. Kept(g) \in Seq(PerCommit) /\ PerCommit \subseteq filediffs
    BY <2>1, PerCommitNumbered DEF ChainRule
  <2> QED
    BY <2>2
<1>5. PICK h \in [filediffs -> Seq(filediffs)] :
        Recursive(h, filediffs, E, par, step, base)
  <2>1. par \in [E -> filediffs]
    BY <1>2
  <2>2. base \in [filediffs -> Seq(filediffs)]
    BY <1>4, EmptySeq
  <2>3. step \in [E -> [Seq(filediffs) -> Seq(filediffs)]]
    <3> HIDE DEF par, E
    <3>1. \A g \in E : \A s \in Seq(filediffs) : Append(s, par[g]) \in Seq(filediffs)
      BY <2>1
    <3> QED
      BY <3>1
  <2>4. Posted + 1 \in Nat /\ E \in SUBSET filediffs
    BY <1>1
  <2> HIDE DEF E, rank, par, step, base
  <2> QED
    BY <1>2, <1>3, <2>1, <2>2, <2>3, <2>4, RecursionExists
<1>6. h = [g \in filediffs |->
             IF cache[g] # Uncomputed THEN Kept(g)
             ELSE IF Earlier(g, all) = {} THEN <<>>
             ELSE Append(h[Latest(Earlier(g, all))], Latest(Earlier(g, all)))]
  <2>1. \A g \in filediffs : h[g] = IF g \in E THEN step[g][h[par[g]]] ELSE base[g]
    BY <1>5 DEF Recursive
  <2>2. ASSUME NEW g \in filediffs
        PROVE  h[g] = IF cache[g] # Uncomputed THEN Kept(g)
                      ELSE IF Earlier(g, all) = {} THEN <<>>
                      ELSE Append(h[Latest(Earlier(g, all))], Latest(Earlier(g, all)))
    <3>1. CASE g \in E
      <4>1. h[par[g]] \in Seq(filediffs)
        BY <1>2, <3>1
      <4>2. h[g] = Append(h[par[g]], par[g])
        BY <2>1, <3>1, <4>1
      <4> QED
        BY <3>1, <4>2
    <3>2. CASE g \notin E
      <4>1. h[g] = base[g]
        BY <2>1, <3>2
      <4> QED
        BY <3>2, <4>1
    <3> QED
      BY <3>1, <3>2
  <2> QED
    BY <2>2
<1>7. A = [g \in filediffs |->
             IF cache[g] # Uncomputed THEN Kept(g)
             ELSE IF Earlier(g, all) = {} THEN <<>>
             ELSE Append(A[Latest(Earlier(g, all))], Latest(Earlier(g, all)))]
  BY <1>6 DEF AncestorsOf
<1> HIDE DEF A
<1>8. \A g \in filediffs :
        A[g] = IF cache[g] # Uncomputed THEN Kept(g)
               ELSE IF Earlier(g, all) = {} THEN <<>>
               ELSE Append(A[Latest(Earlier(g, all))], Latest(Earlier(g, all)))
  BY <1>7
<1> QED
  BY <1>8 DEF A

RaisesOf(all) ==
  CHOOSE h : h = [g \in filediffs |->
    /\ cache[g] = Uncomputed
    /\ \/ \E e \in Before(g, all) : e.commit = Cumulative
       \/ Earlier(g, all) # {} /\ h[Latest(Earlier(g, all))]]

LEMMA RaisesIs == \A f, all : Raises(f, all) = RaisesOf(all)[f]
BY DEF Raises, RaisesOf

LEMMA RaisesRule ==
  ASSUME NumbersInv, NEW all, all \subseteq filediffs, NEW g \in filediffs,
         cache[g] = Uncomputed, ~RaisesOf(all)[g]
  PROVE  /\ \A e \in Before(g, all) : e.commit # Cumulative
         /\ Earlier(g, all) # {} => ~RaisesOf(all)[Latest(Earlier(g, all))]
<1> DEFINE E == {x \in filediffs : cache[x] = Uncomputed /\ Earlier(x, all) # {}}
           Meets(x) == \E e \in Before(x, all) : e.commit = Cumulative
           rank == [x \in filediffs |-> x.commit]
           par == [x \in E |-> Latest(Earlier(x, all))]
           step == [x \in E |-> [v \in BOOLEAN |-> Meets(x) \/ v]]
           base == [x \in filediffs |-> cache[x] = Uncomputed /\ Meets(x)]
           R == RaisesOf(all)
<1>1. Numbered(all, Posted) /\ Posted \in Nat
  BY PerCommitNumbered DEF Numbered
<1>2. \A x \in E : par[x] \in filediffs /\ rank[par[x]] < rank[x]
  <2> SUFFICES ASSUME NEW x \in E PROVE par[x] \in filediffs /\ rank[par[x]] < rank[x]
    OBVIOUS
  <2>1. Latest(Earlier(x, all)) \in all /\ Latest(Earlier(x, all)).commit < x.commit
    BY <1>1, LatestIs
  <2> QED
    BY <2>1
<1>3. rank \in [filediffs -> Nat] /\ \A x \in filediffs : rank[x] < Posted + 1
  BY PerCommitNumbered DEF Numbered
<1>4. PICK h \in [filediffs -> BOOLEAN] :
        Recursive(h, filediffs, E, par, step, base)
  <2>1. par \in [E -> filediffs]
    BY <1>2
  <2>2. base \in [filediffs -> BOOLEAN] /\ step \in [E -> [BOOLEAN -> BOOLEAN]]
    <3> HIDE DEF Meets, E
    <3> QED
      OBVIOUS
  <2>3. Posted + 1 \in Nat /\ E \in SUBSET filediffs
    BY <1>1
  <2> HIDE DEF E, rank, par, step, base
  <2> QED
    BY <1>2, <1>3, <2>1, <2>2, <2>3, RecursionExists
<1>5. h = [x \in filediffs |->
             /\ cache[x] = Uncomputed
             /\ \/ Meets(x)
                \/ Earlier(x, all) # {} /\ h[Latest(Earlier(x, all))]]
  <2>1. \A x \in filediffs : h[x] = IF x \in E THEN step[x][h[par[x]]] ELSE base[x]
    BY <1>4 DEF Recursive
  <2>2. ASSUME NEW x \in filediffs
        PROVE  h[x] = (/\ cache[x] = Uncomputed
                       /\ \/ Meets(x)
                          \/ Earlier(x, all) # {} /\ h[Latest(Earlier(x, all))])
    <3>1. CASE x \in E
      <4>1. h[par[x]] \in BOOLEAN /\ par[x] = Latest(Earlier(x, all))
        BY <1>2, <3>1
      <4>2. h[x] = (Meets(x) \/ h[par[x]])
        <5> HIDE DEF Meets, E, par
        <5> QED
          BY <2>1, <3>1, <4>1
      <4>3. cache[x] = Uncomputed /\ Earlier(x, all) # {}
        BY <3>1
      <4> HIDE DEF Meets, E, par
      <4> QED
        BY <4>1, <4>2, <4>3
    <3>2. CASE x \notin E
      <4>1. h[x] = (cache[x] = Uncomputed /\ Meets(x))
        <5> HIDE DEF Meets, E
        <5> QED
          BY <2>1, <3>2
      <4>2. ~(cache[x] = Uncomputed /\ Earlier(x, all) # {})
        BY <3>2
      <4> HIDE DEF Meets, E
      <4> QED
        BY <4>1, <4>2
    <3> QED
      BY <3>1, <3>2
  <2> HIDE DEF Meets
  <2> QED
    BY <2>2
<1>6. R = [x \in filediffs |->
             /\ cache[x] = Uncomputed
             /\ \/ Meets(x)
                \/ Earlier(x, all) # {} /\ R[Latest(Earlier(x, all))]]
  BY <1>5 DEF RaisesOf
<1>7. R[g] = (/\ cache[g] = Uncomputed
              /\ \/ Meets(g)
                 \/ Earlier(g, all) # {} /\ R[Latest(Earlier(g, all))])
  <2> HIDE DEF R, Meets
  <2> QED
    BY <1>6
<1> QED
  BY <1>7

(* Whatever is kept, get_ancestors() finds the chain: among the FileDiffs  *)
(* of commits always, among all of them when it does not raise.            *)
LEMMA AncestorsAreChain ==
  ASSUME NumbersInv, KeptInv,
         NEW all, all = PerCommit \/ all = filediffs,
         NEW f \in PerCommit, all = PerCommit \/ ~Raises(f, all)
  PROVE  Ancestors(f, all) = ChainOf(PerCommit)[f]
<1>1. PICK A : A = AncestorsOf(all)
  OBVIOUS
<1>2. PICK C : C = ChainOf(PerCommit)
  OBVIOUS
<1>3. /\ Posted \in Nat /\ Numbered(PerCommit, Posted) /\ PerCommit \subseteq filediffs
      /\ ChainRule(C, PerCommit) /\ all \subseteq filediffs /\ PerCommit \subseteq all
      /\ \A g \in PerCommit : g.commit \in 1..Posted
  BY <1>2, PerCommitNumbered
<1> DEFINE Fine(g) == all = PerCommit \/ ~RaisesOf(all)[g]
           rank == [g \in PerCommit |-> g.commit]
           Good == {g \in PerCommit : Fine(g) => A[g] = C[g]}
<1>4. rank \in [PerCommit -> Nat]
  BY <1>3
<1>5. ASSUME NEW g \in PerCommit, \A h \in PerCommit : rank[h] < rank[g] => h \in Good
      PROVE  g \in Good
  <2> SUFFICES ASSUME Fine(g) PROVE A[g] = C[g]
    OBVIOUS
  <2>1. CASE cache[g] # Uncomputed
    <3>1. A[g] = Kept(g)
      BY <1>1, <1>3, <2>1, AncestorsRule
    <3> QED
      BY <1>2, <1>3, <2>1, <3>1 DEF KeptInv, WellSplit, Kept
  <2>2. CASE cache[g] = Uncomputed
    <3>1. A[g] = IF Earlier(g, all) = {} THEN <<>>
                 ELSE Append(A[Latest(Earlier(g, all))], Latest(Earlier(g, all)))
      BY <1>1, <1>3, <2>2, AncestorsRule
    <3>2. /\ Earlier(g, all) = Earlier(g, PerCommit)
          /\ Earlier(g, all) # {} => Fine(Latest(Earlier(g, all)))
      <4>1. CASE all = PerCommit
        BY <4>1
      <4>2. CASE all # PerCommit
        <5>1. all = filediffs /\ ~RaisesOf(all)[g]
          BY <4>2
        <5>2. /\ \A e \in Before(g, all) : e.commit # Cumulative
              /\ Earlier(g, all) # {} => ~RaisesOf(all)[Latest(Earlier(g, all))]
          BY <1>3, <2>2, <5>1, RaisesRule
        <5>3. Earlier(g, all) = Earlier(g, PerCommit)
          BY <5>1, <5>2 DEF Earlier, Before, PerCommit
        <5> QED
          BY <5>2, <5>3
      <4> QED
        BY <4>1, <4>2
    <3>3. CASE Earlier(g, all) = {}
      BY <1>3, <3>1, <3>2, <3>3 DEF ChainRule
    <3>4. CASE Earlier(g, all) # {}
      <4>1. PICK h : h = Latest(Earlier(g, PerCommit))
        OBVIOUS
      <4>2. h \in PerCommit /\ h.commit < g.commit /\ Fine(h)
        BY <1>3, <3>2, <3>4, <4>1, LatestIs
      <4>3. A[h] = C[h]
        BY <1>5, <4>2
      <4>4. A[g] = Append(A[h], h)
        BY <3>1, <3>2, <3>4, <4>1
      <4>5. C[g] = Append(C[h], h)
        BY <1>3, <3>2, <3>4, <4>1 DEF ChainRule
      <4> QED
        BY <4>3, <4>4, <4>5
    <3> QED
      BY <3>3, <3>4
  <2> QED
    BY <2>1, <2>2
<1>6. f \in Good
  <2> HIDE DEF Good, rank
  <2> QED
    BY <1>4, <1>5, LeastRank
<1>7. Fine(f)
  BY RaisesIs
<1> QED
  BY <1>1, <1>2, <1>6, <1>7, AncestorsIs

(* A look at f keeps the chains of f and of its ancestors.                 *)
LEMMA LookKeeps ==
  ASSUME NumbersInv, KeptInv,
         NEW all, all = PerCommit \/ all = filediffs,
         NEW f \in PerCommit, GetAncestors(f, all)
  PROVE  KeptInv'
<1>1. PICK C : C = ChainOf(PerCommit)
  OBVIOUS
<1>2. PICK s : s = Ancestors(f, all)
  OBVIOUS
<1>3. /\ Posted \in Nat /\ Numbered(PerCommit, Posted) /\ PerCommit \subseteq filediffs
      /\ ChainRule(C, PerCommit)
  BY <1>1, PerCommitNumbered
<1>4. ~Raises(f, all) /\ filediffs' = filediffs
      /\ cache' = [g \in filediffs |->
           IF g = f THEN Split(s)
           ELSE IF cache[g] = Uncomputed /\ \E i \in DOMAIN s : s[i] = g
           THEN Split(SubSeq(s, 1, (CHOOSE i \in DOMAIN s : s[i] = g) - 1))
           ELSE cache[g]]
  BY <1>2 DEF GetAncestors
<1>5. s = C[f] /\ s \in Seq(PerCommit)
  BY <1>1, <1>2, <1>3, <1>4, AncestorsAreChain DEF ChainRule
<1>6. PerCommit' = PerCommit
  BY <1>4 DEF PerCommit
<1>7. ASSUME NEW g \in filediffs, cache'[g] # Uncomputed
      PROVE  g \in PerCommit /\ WellSplit(cache'[g], C[g])
  <2>1. CASE g = f
    <3>1. cache'[g] = Split(s)
      BY <1>4, <2>1
    <3> QED
      BY <1>5, <2>1, <3>1, SplitWell
  <2>2. CASE g # f /\ cache[g] = Uncomputed /\ \E i \in DOMAIN s : s[i] = g
    <3>1. PICK i \in DOMAIN s : i = (CHOOSE j \in DOMAIN s : s[j] = g) /\ s[i] = g
      BY <2>2
    <3>2. cache'[g] = Split(SubSeq(s, 1, i - 1))
      BY <1>4, <2>2, <3>1
    <3>3. g \in PerCommit /\ C[g] = SubSeq(s, 1, i - 1)
      <4>1. \A e \in PerCommit : \A j \in DOMAIN C[e] :
              C[e][j] \in PerCommit /\ C[C[e][j]] = SubSeq(C[e], 1, j - 1)
        BY ONLY <1>3, ChainPrefix
      <4> QED
        BY <1>5, <3>1, <4>1
    <3>4. C[g] \in Seq(PerCommit)
      BY <1>3, <3>3 DEF ChainRule
    <3> QED
      BY <3>2, <3>3, <3>4, SplitWell
  <2>3. CASE g # f /\ ~(cache[g] = Uncomputed /\ \E i \in DOMAIN s : s[i] = g)
    <3>1. cache'[g] = cache[g]
      BY <1>4, <2>3
    <3> QED
      BY <1>1, <1>7, <3>1 DEF KeptInv
  <2> QED
    BY <2>1, <2>2, <2>3
<1>8. ChainOf(PerCommit)' = C
  BY <1>1, <1>6 DEF ChainOf
<1> QED
  BY <1>4, <1>6, <1>7, <1>8 DEF KeptInv

(* The rows that a diff makes are all of its commit.                       *)
LEMMA RowsCommit ==
  ASSUME NEW c, NEW T, NEW U, NEW o, NEW f \in RowsOf(c, T, U, o)
  PROVE  f.commit = c
BY DEF RowsOf, RelocatedRow, Row

(* Every step keeps the numbers in order; a commit adds rows of its own to *)
(* the series, and anything else none.                                     *)
LEMMA NumbersKept ==
  ASSUME NumbersInv, [Next]_vars
  PROVE  /\ NumbersInv'
         /\ \/ UNCHANGED trees /\ PerCommit' = PerCommit
            \/ \E U \in Trees : \E o \in Origins(Tree(Posted), U) :
                 /\ trees' = Append(trees, U)
                 /\ Posted' = Posted + 1
                 /\ PerCommit' =
                      PerCommit \cup RowsOf(Posted + 1, Tree(Posted), U, o)
<1>1. Posted \in Nat /\ \A f \in filediffs : f.commit \in 0..Posted
  BY DEF NumbersInv, Posted
<1>2. CASE PostCommit
  <2>1. CASE UNCHANGED <<trees, finalized, filediffs, cache>>
    BY <2>1 DEF NumbersInv, PerCommit, Posted
  <2>2. ASSUME NEW U \in Trees, NEW o \in Origins(Tree(Posted), U),
               Store(RowsOf(Posted + 1, Tree(Posted), U, o)), trees' = Append(trees, U)
        PROVE  /\ NumbersInv'
               /\ Posted' = Posted + 1
               /\ PerCommit' = PerCommit \cup RowsOf(Posted + 1, Tree(Posted), U, o)
    <3>1. PICK rows : rows = RowsOf(Posted + 1, Tree(Posted), U, o)
      OBVIOUS
    <3>2. \A f \in rows : f.commit = Posted + 1
      BY <3>1, RowsCommit
    <3>3. trees' \in Seq(Trees) /\ Len(trees') = Len(trees) + 1
      BY <2>2 DEF NumbersInv
    <3>4. Posted' = Posted + 1 /\ Len(trees') \in Nat \ {0}
      BY <3>3 DEF Posted, NumbersInv
    <3>5. filediffs' = filediffs \cup rows
      BY <2>2, <3>1 DEF Store
    <3>6. PerCommit' = PerCommit \cup rows
      BY <1>1, <3>2, <3>5 DEF PerCommit, Cumulative
    <3>7. \A f \in filediffs' : f.commit \in 0..Posted'
      BY <1>1, <3>2, <3>4, <3>5
    <3> QED
      BY <3>1, <3>3, <3>4, <3>6, <3>7 DEF NumbersInv
  <2> QED
    BY <1>2, <2>1, <2>2 DEF PostCommit
<1>3. CASE Finalize
  <2>1. PICK o : Store(RowsOf(Cumulative, Tree(0), Tree(Posted), o)) /\ UNCHANGED trees
    BY <1>3 DEF Finalize
  <2>2. PICK rows : rows = RowsOf(Cumulative, Tree(0), Tree(Posted), o)
    OBVIOUS
  <2>3. \A f \in rows : f.commit = Cumulative
    BY <2>2, RowsCommit
  <2>4. filediffs' = filediffs \cup rows
    BY <2>1, <2>2 DEF Store
  <2>5. PerCommit' = PerCommit /\ Posted' = Posted
    BY <2>1, <2>3, <2>4 DEF PerCommit, Posted
  <2>6. \A f \in filediffs' : f.commit \in 0..Posted'
    BY <1>1, <2>3, <2>4, <2>5 DEF Cumulative
  <2> QED
    BY <2>1, <2>5, <2>6 DEF NumbersInv
<1>4. CASE UNCHANGED <<trees, filediffs>>
  BY <1>4 DEF NumbersInv, PerCommit, Posted
<1> QED
  BY <1>2, <1>3, <1>4 DEF Next, LookInRange, LookAtFile, GetAncestors, vars

LEMMA KeptKept ==
  ASSUME NumbersInv, KeptInv, [Next]_vars
  PROVE  KeptInv'
<1>1. CASE LookInRange
  BY <1>1, LookKeeps DEF LookInRange
<1>2. CASE LookAtFile
  BY <1>2, LookKeeps DEF LookAtFile
<1>3. CASE UNCHANGED <<filediffs, cache>>
  BY <1>3 DEF KeptInv, ChainOf, PerCommit
<1>4. CASE PostCommit \/ Finalize
  <2>1. CASE UNCHANGED <<filediffs, cache>>
    BY <1>3, <2>1
  <2>2. ASSUME NEW rows, Store(rows)
        PROVE  \A f \in filediffs' :
                 cache'[f] # Uncomputed => f \in filediffs /\ cache'[f] = cache[f]
    BY <2>2 DEF Store
  <2>3. CASE \A f \in filediffs' :
               cache'[f] # Uncomputed => f \in filediffs /\ cache'[f] = cache[f]
    <3>1. \A f \in filediffs' :
            cache'[f] # Uncomputed =>
              f \in PerCommit /\ WellSplit(cache'[f], ChainOf(PerCommit)[f])
      BY <2>3 DEF KeptInv
    <3>2. \A f \in PerCommit :
            f \in PerCommit' /\ ChainOf(PerCommit')[f] = ChainOf(PerCommit)[f]
      <4>1. CASE PerCommit' = PerCommit
        BY <4>1
      <4>2. ASSUME NEW rows, PerCommit' = PerCommit \cup rows, Posted' = Posted + 1,
                   \A f \in rows : f.commit = Posted + 1
            PROVE  \A f \in PerCommit :
                     f \in PerCommit' /\ ChainOf(PerCommit')[f] = ChainOf(PerCommit)[f]
        <5>1. PICK D : D = PerCommit
          OBVIOUS
        <5>2. PICK E : E = PerCommit'
          OBVIOUS
        <5>3. PICK n : n = Posted
          OBVIOUS
        <5>4. n \in Nat /\ ChainRule(ChainOf(D), D) /\ \A f \in D : f.commit \in 1..n
          BY <5>1, <5>3, PerCommitNumbered
        <5>5. D \subseteq E /\ Numbered(E, n + 1) /\ n + 1 \in Nat
          BY <4>2, <5>1, <5>2, <5>3, <5>4 DEF Numbered
        <5>6. ChainRule(ChainOf(E), E)
          BY ONLY <5>5, ChainIs
        <5>7. \A f \in D : Earlier(f, E) = Earlier(f, D)
          <6>1. \A f \in D : \A g \in rows : ~(g.commit < f.commit)
            BY <4>2, <5>3, <5>4
          <6>2. E = D \cup rows
            BY <4>2, <5>1, <5>2
          <6> QED
            BY <6>1, <6>2 DEF Earlier, Before
        <5>8. \A f \in D : ChainOf(E)[f] = ChainOf(D)[f]
          <6>1. PICK C, B : C = ChainOf(D) /\ B = ChainOf(E)
            OBVIOUS
          <6>2. ChainRule(C, D) /\ ChainRule(B, E)
            BY <5>4, <5>6, <6>1
          <6>3. PICK k \in Nat : Numbered(E, k)
            BY <5>5
          <6>4. D \subseteq E
            BY <5>5
          <6>5. \A f \in D : B[f] = C[f]
            BY <5>7, <6>2, <6>3, <6>4, ChainUnique
          <6> QED
            BY <6>1, <6>5
        <5> QED
          BY <5>1, <5>2, <5>5, <5>8
      <4>3. CASE PerCommit' # PerCommit
        <5>1. PICK U, o : /\ Posted' = Posted + 1
                          /\ PerCommit' =
                               PerCommit \cup RowsOf(Posted + 1, Tree(Posted), U, o)
          BY <4>3, NumbersKept
        <5>2. PICK rows : rows = RowsOf(Posted + 1, Tree(Posted), U, o)
          OBVIOUS
        <5>3. \A f \in rows : f.commit = Posted + 1
          BY <5>2, RowsCommit
        <5> QED
          BY <4>2, <5>1, <5>2, <5>3
      <4> QED
        BY <4>1, <4>3
    <3>3. \A f : ChainOf(PerCommit)'[f] = ChainOf(PerCommit')[f]
      BY DEF ChainOf
    <3> QED
      BY <3>1, <3>2, <3>3 DEF KeptInv
  <2> QED
    BY <1>4, <2>1, <2>2, <2>3 DEF PostCommit, Finalize
<1> QED
  BY <1>1, <1>2, <1>3, <1>4 DEF Next, vars

LEMMA NumbersStart == Init => NumbersInv /\ KeptInv
<1> SUFFICES ASSUME Init PROVE NumbersInv /\ KeptInv
  OBVIOUS
<1>1. PICK t \in Trees : trees = <<t>>
  BY DEF Init
<1>2. trees \in Seq(Trees) /\ Len(trees) = 1
  BY <1>1
<1> QED
  BY <1>2 DEF Init, NumbersInv, KeptInv

LEMMA NumbersAlways == Spec => [](NumbersInv /\ KeptInv)
<1> DEFINE IInv == NumbersInv /\ KeptInv
<1>1. Init => IInv
  BY NumbersStart
<1>2. IInv /\ [Next]_vars => IInv'
  BY NumbersKept, KeptKept
<1> HIDE DEF IInv
<1>3. Spec => []IInv
  BY <1>1, <1>2, PTL DEF Spec
<1> QED
  BY <1>3 DEF IInv

(* The ancestors that were kept for a FileDiff, by a look at it or at a    *)
(* later one, are those that the whole series gives, split after the last  *)
(* deletion, whichever FileDiff was looked at first, among whichever       *)
(* FileDiffs, and whatever was posted since (FileDiff.get_ancestors,       *)
(* _compute_ancestors).                                                    *)
THEOREM KeptAncestorsAreTrue == Spec => []KeptAncestorsTrue
<1>1. NumbersInv /\ KeptInv => KeptAncestorsTrue
  BY KeptInvMeans
<1> QED
  BY <1>1, NumbersAlways, PTL

(***************************************************************************)
(* What the FileDiffs of a series say of its trees, when the diffs report  *)
(* no file relocated without a change.                                     *)
(***************************************************************************)

(* A FileDiff of the diff between T and U.                                 *)
Fits(f, T, U) ==
  /\ f.source \in Paths /\ f.dest \in Paths
  /\ f.sourceRev = T[f.source] /\ f.destRev = U[f.dest]
  /\ T[f.dest] # U[f.dest]
  /\ Deleted(f) <=> U[f.dest] = Absent
  /\ f.status \in {"modified", "deleted", "moved", "copied"}
  /\ f.status \in {"modified", "deleted"} => f.source = f.dest
  /\ f.status = "moved" => U[f.source] = Absent

(* The rows of a commit: at most one to a file, one for each that it       *)
(* changes and leaves, and one that takes from each that it changes.       *)
FromTo(rows, T, U) ==
  /\ \A f \in rows : Fits(f, T, U)
  /\ \A f, g \in rows : f.dest = g.dest => f = g
  /\ \A p \in Paths : T[p] # U[p] /\ U[p] # Absent => \E f \in rows : f.dest = p
  /\ \A p \in Paths : T[p] # U[p] /\ T[p] # Absent =>
       \E f \in rows : f.source = p /\ f.status # "copied"

LEMMA RowsFit ==
  ASSUME ~Unedited, NEW c, NEW T \in Trees, NEW U \in Trees, NEW o \in Origins(T, U)
  PROVE  FromTo(RowsOf(c, T, U, o), T, U)
<1> DEFINE Mod == {p \in Paths : Absent \notin {T[p], U[p]} /\ T[p] # U[p]}
           Del == Gone(T, U) \ {o[q] : q \in Added(T, U)}
           New == Added(T, U)
           mod(p) == Row(c, p, T[p], p, U[p], "modified")
           del(p) == Row(c, p, T[p], p, Absent, "deleted")
           add(q) == IF o[q] = q THEN Row(c, q, Absent, q, U[q], "modified")
                     ELSE RelocatedRow(c, T, U, o[q], q)
           rows == RowsOf(c, T, U, o)
<1>1. rows = {mod(p) : p \in Mod} \cup {del(p) : p \in Del} \cup {add(q) : q \in New}
  BY DEF RowsOf
<1>2. \A p \in Mod : p \in Paths /\ T[p] # Absent /\ U[p] # Absent /\ T[p] # U[p]
  OBVIOUS
<1>3. \A p \in Del : p \in Paths /\ T[p] # Absent /\ U[p] = Absent
  BY DEF Gone
<1>4. \A q \in New : /\ q \in Paths /\ T[q] = Absent /\ U[q] # Absent
                     /\ o[q] \in Paths
                     /\ o[q] # q => T[o[q]] # Absent /\ T[o[q]] # U[q]
  BY DEF Added, Origins
<1>5. \A p \in Mod : Fits(mod(p), T, U) /\ mod(p).dest = p
  BY <1>2 DEF Fits, Row, Deleted
<1>6. \A p \in Del : Fits(del(p), T, U) /\ del(p).dest = p
  BY <1>3 DEF Fits, Row, Deleted
<1>7. ASSUME NEW q \in New
      PROVE  Fits(add(q), T, U) /\ add(q).dest = q /\ add(q).source = o[q]
             /\ (o[q] # q /\ U[o[q]] = Absent => add(q).status = "moved")
  <2>1. CASE o[q] = q
    BY <1>4, <2>1 DEF Fits, Row, Deleted
  <2>2. CASE o[q] # q
    <3>1. add(q) = Row(c, o[q], T[o[q]], q, U[q],
                       IF U[o[q]] = Absent THEN "moved" ELSE "copied")
      BY <1>4, <2>2 DEF RelocatedRow
    <3> HIDE DEF add
    <3> QED
      BY <1>4, <2>2, <3>1 DEF Fits, Row, Deleted
  <2> QED
    BY <2>1, <2>2
<1>8. \A f \in rows : Fits(f, T, U)
  <2> HIDE DEF rows, mod, del, add, Mod, Del, New
  <2> QED
    BY <1>1, <1>5, <1>6, <1>7
<1>9. \A f, g \in rows : f.dest = g.dest => f = g
  <2>1. Mod \cap Del = {} /\ Mod \cap New = {} /\ Del \cap New = {}
    BY <1>2, <1>3, <1>4
  <2>2. \A f \in rows : \/ f.dest \in Mod /\ f = mod(f.dest)
                        \/ f.dest \in Del /\ f = del(f.dest)
                        \/ f.dest \in New /\ f = add(f.dest)
    <3> HIDE DEF rows, mod, del, add, Mod, Del, New
    <3> QED
      BY <1>1, <1>5, <1>6, <1>7
  <2> HIDE DEF rows, mod, del, add, Mod, Del, New
  <2> QED
    BY <2>1, <2>2
<1>10. ASSUME NEW p \in Paths, T[p] # U[p], U[p] # Absent
       PROVE  \E f \in rows : f.dest = p
  <2>1. p \in Mod \/ p \in New
    BY <1>10 DEF Added
  <2> HIDE DEF rows, mod, del, add, Mod, Del, New
  <2> QED
    BY <1>1, <1>5, <1>7, <2>1
<1>11. ASSUME NEW p \in Paths, T[p] # U[p], T[p] # Absent
       PROVE  \E f \in rows : f.source = p /\ f.status # "copied"
  <2>1. CASE p \in Mod
    <3>1. mod(p) \in rows /\ mod(p).source = p /\ mod(p).status # "copied"
      BY <1>1, <2>1 DEF Row
    <3> QED
      BY <3>1
  <2>2. CASE p \in Del
    <3>1. del(p) \in rows /\ del(p).source = p /\ del(p).status # "copied"
      BY <1>1, <2>2 DEF Row
    <3> QED
      BY <3>1
  <2>3. CASE p \notin Mod /\ p \notin Del
    <3>1. U[p] = Absent /\ \E q \in New : o[q] = p
      BY <1>11, <2>3 DEF Gone
    <3>2. PICK q \in New : o[q] = p
      BY <3>1
    <3>3. q # p
      BY <1>4, <1>11, <3>2
    <3>4. add(q) \in rows
      <4> HIDE DEF rows, mod, del, add, Mod, Del, New
      <4> QED
        BY <1>1
    <3>5. add(q).source = p /\ add(q).status = "moved"
      <4> HIDE DEF rows, mod, del, add, Mod, Del, New
      <4> QED
        BY <1>7, <3>1, <3>2, <3>3
    <3> HIDE DEF rows, add
    <3> QED
      BY <3>4, <3>5
  <2> QED
    BY <2>1, <2>2, <2>3
<1> QED
  BY <1>8, <1>9, <1>10, <1>11 DEF FromTo

(* The series: each commit has the rows of its diff.                       *)
DiffsInv ==
  \A c \in 1..Posted :
    FromTo({f \in PerCommit : f.commit = c}, Tree(c - 1), Tree(c))

LEMMA DiffsKept ==
  ASSUME ~Unedited, NumbersInv, DiffsInv, [Next]_vars
  PROVE  DiffsInv'
<1>1. CASE UNCHANGED trees /\ PerCommit' = PerCommit
  BY <1>1 DEF DiffsInv, Posted, Tree
<1>2. ASSUME NEW U \in Trees, NEW o \in Origins(Tree(Posted), U),
             trees' = Append(trees, U), Posted' = Posted + 1,
             PerCommit' = PerCommit \cup RowsOf(Posted + 1, Tree(Posted), U, o)
      PROVE  DiffsInv'
  <2>1. PICK rows : rows = RowsOf(Posted + 1, Tree(Posted), U, o)
    OBVIOUS
  <2>2. /\ Posted \in Nat /\ Len(trees) = Posted + 1 /\ trees \in Seq(Trees)
        /\ \A f \in PerCommit : f.commit \in 1..Posted
        /\ \A f \in rows : f.commit = Posted + 1
    BY <2>1, PerCommitNumbered, RowsCommit DEF NumbersInv, Posted
  <2>3. Tree(Posted) \in Trees
    BY <2>2 DEF Tree
  <2>4. FromTo(rows, Tree(Posted), U)
    BY <2>1, <2>3, RowsFit
  <2>5. ASSUME NEW c \in 1..Posted + 1
        PROVE  FromTo({f \in PerCommit' : f.commit = c}, trees'[c], trees'[c + 1])
    <3>1. CASE c = Posted + 1
      <4>1. {f \in PerCommit' : f.commit = c} = rows
        BY <1>2, <2>1, <2>2, <3>1
      <4>2. trees'[c] = Tree(Posted) /\ trees'[c + 1] = U
        BY <1>2, <2>2, <3>1 DEF Tree
      <4> QED
        BY <2>4, <4>1, <4>2
    <3>2. CASE c # Posted + 1
      <4>1. c \in 1..Posted
        BY <2>2, <3>2
      <4>2. {f \in PerCommit' : f.commit = c} = {f \in PerCommit : f.commit = c}
        BY <1>2, <2>1, <2>2, <4>1
      <4>3. trees'[c] = trees[c] /\ trees'[c + 1] = trees[c + 1]
        BY <1>2, <2>2, <4>1
      <4>4. Tree(c - 1) = trees[c] /\ Tree(c) = trees[c + 1]
        BY <4>1 DEF Tree
      <4> QED
        BY <4>1, <4>2, <4>3, <4>4 DEF DiffsInv
    <3> QED
      BY <3>1, <3>2
  <2>6. \A c \in 1..Posted + 1 : c - 1 + 1 = c
    BY <2>2
  <2> QED
    BY <1>2, <2>5, <2>6 DEF DiffsInv, Tree
<1> QED
  BY <1>1, <1>2, NumbersKept

(* What the invariant says of one FileDiff, and of one commit.             *)
LEMMA DiffsMean ==
  ASSUME NumbersInv, DiffsInv
  PROVE  /\ \A f \in PerCommit : /\ f.commit \in 1..Posted
                                 /\ Fits(f, Tree(f.commit - 1), Tree(f.commit))
         /\ \A f, g \in PerCommit : f.commit = g.commit /\ f.dest = g.dest => f = g
         /\ \A c \in 1..Posted : \A p \in Paths :
              Tree(c - 1)[p] # Tree(c)[p] =>
                /\ Tree(c)[p] # Absent =>
                     \E f \in PerCommit : f.commit = c /\ f.dest = p
                /\ Tree(c - 1)[p] # Absent =>
                     \E f \in PerCommit :
                       f.commit = c /\ f.source = p /\ f.status # "copied"
<1> DEFINE Of(c) == {f \in PerCommit : f.commit = c}
<1>1. \A f \in PerCommit : f.commit \in 1..Posted /\ f \in Of(f.commit)
  BY PerCommitNumbered
<1>2. \A c \in 1..Posted : FromTo(Of(c), Tree(c - 1), Tree(c))
  BY DEF DiffsInv
<1>3. \A f \in PerCommit : Fits(f, Tree(f.commit - 1), Tree(f.commit))
  <2> HIDE DEF Of
  <2> QED
    BY <1>1, <1>2 DEF FromTo
<1>4. \A f, g \in PerCommit : f.commit = g.commit /\ f.dest = g.dest => f = g
  <2> HIDE DEF Of
  <2> QED
    BY <1>1, <1>2 DEF FromTo
<1>5. ASSUME NEW c \in 1..Posted, NEW p \in Paths, Tree(c - 1)[p] # Tree(c)[p]
      PROVE  /\ Tree(c)[p] # Absent =>
                  \E f \in PerCommit : f.commit = c /\ f.dest = p
             /\ Tree(c - 1)[p] # Absent =>
                  \E f \in PerCommit :
                    f.commit = c /\ f.source = p /\ f.status # "copied"
  <2>1. /\ Tree(c)[p] # Absent => \E f \in Of(c) : f.dest = p
        /\ Tree(c - 1)[p] # Absent =>
             \E f \in Of(c) : f.source = p /\ f.status # "copied"
    <3> HIDE DEF Of
    <3> QED
      BY <1>2, <1>5 DEF FromTo
  <2> QED
    BY <2>1
<1> QED
  BY <1>1, <1>3, <1>4, <1>5

(* A file that two commits do not have alike was changed by a first commit *)
(* between them, and by a last one.                                        *)
LEMMA FirstChange ==
  ASSUME NumbersInv, NEW p, NEW a \in Nat, NEW c \in Nat, a <= c,
         Tree(a)[p] # Tree(c)[p]
  PROVE  \E d \in a + 1..c : /\ Tree(d - 1)[p] # Tree(d)[p]
                             /\ \A e \in a..d - 1 : Tree(e)[p] = Tree(a)[p]
<1> DEFINE S == {e \in a..c : Tree(e)[p] # Tree(a)[p]}
<1>1. S \in SUBSET Nat /\ S # {}
  OBVIOUS
<1>2. PICK d \in S : \A e \in S : d <= e
  <2> HIDE DEF S
  <2> QED
    BY <1>1, Least
<1>3. d # a /\ d \in a..c /\ Tree(d)[p] # Tree(a)[p]
  OBVIOUS
<1>4. \A e \in a..d - 1 : e \in a..c /\ e \notin S
  BY <1>2, <1>3
<1>5. \A e \in a..d - 1 : Tree(e)[p] = Tree(a)[p]
  BY <1>4
<1>6. d - 1 \in a..d - 1 /\ d \in a + 1..c
  BY <1>3
<1> QED
  BY <1>3, <1>5, <1>6

LEMMA LastChange ==
  ASSUME NumbersInv, NEW p, NEW a \in Nat, NEW c \in Nat, a <= c,
         Tree(a)[p] # Tree(c)[p]
  PROVE  \E d \in a + 1..c : /\ Tree(d - 1)[p] # Tree(d)[p]
                             /\ \A e \in d..c : Tree(e)[p] = Tree(c)[p]
<1> DEFINE S == {e \in a..c : Tree(e)[p] # Tree(c)[p]}
<1>1. S \in SUBSET (0..c) /\ S # {}
  OBVIOUS
<1>2. PICK d \in S : \A e \in S : e <= d
  <2> HIDE DEF S
  <2> QED
    BY <1>1, Greatest
<1>3. d # c /\ d \in a..c /\ Tree(d)[p] # Tree(c)[p]
  OBVIOUS
<1>4. \A e \in d + 1..c : e \in a..c /\ e \notin S
  BY <1>2, <1>3
<1>5. \A e \in d + 1..c : Tree(e)[p] = Tree(c)[p]
  BY <1>4
<1>6. d + 1 \in d + 1..c /\ d + 1 \in a + 1..c /\ d + 1 - 1 = d
  BY <1>3
<1>7. Tree(d + 1 - 1)[p] # Tree(d + 1)[p]
  BY <1>3, <1>5, <1>6
<1> QED
  BY <1>5, <1>6, <1>7

(* What a commit has and an earlier one had otherwise was brought by a     *)
(* FileDiff between them.                                                  *)
LEMMA Brought ==
  ASSUME NumbersInv, DiffsInv, NEW p \in Paths,
         NEW a \in Nat, NEW c \in 0..Posted, a <= c,
         Tree(c)[p] # Absent, Tree(a)[p] # Tree(c)[p]
  PROVE  \E f \in PerCommit :
           /\ f.commit \in a + 1..c /\ f.dest = p
           /\ f.destRev = Tree(c)[p] /\ ~Deleted(f)
           /\ \A e \in f.commit..c : Tree(e)[p] = Tree(c)[p]
<1>1. Posted \in Nat /\ c \in Nat
  BY PerCommitNumbered
<1>2. PICK d \in a + 1..c : /\ Tree(d - 1)[p] # Tree(d)[p]
                            /\ \A e \in d..c : Tree(e)[p] = Tree(c)[p]
  BY <1>1, LastChange
<1>3. d \in 1..Posted /\ d \in d..c
  BY <1>1
<1>4. PICK f \in PerCommit : f.commit = d /\ f.dest = p
  BY <1>2, <1>3, DiffsMean
<1>5. f.destRev = Tree(c)[p] /\ ~Deleted(f)
  BY <1>2, <1>3, <1>4, DiffsMean DEF Fits
<1> QED
  BY <1>2, <1>4, <1>5

(***************************************************************************)
(* The properties.                                                         *)
(***************************************************************************)

(* A commit posted honestly is accepted.                                   *)
LEMMA AcceptedStep ==
  ASSUME ~Unedited, NumbersInv, DiffsInv, NeverRefused, [Next]_vars
  PROVE  NeverRefused'
<1>1. CASE UNCHANGED refused
  BY <1>1 DEF NeverRefused
<1>2. ASSUME NEW U \in Trees, NEW o \in Origins(Tree(Posted), U),
             NEW f \in RowsOf(Posted + 1, Tree(Posted), U, o), Checked(f)
      PROVE  ExistsInHistory(f.source, f.sourceRev)
  <2>1. PICK T : T = Tree(Posted)
    OBVIOUS
  <2>2. Posted \in Nat /\ T \in Trees
    BY <2>1, PerCommitNumbered DEF NumbersInv, Tree, Posted
  <2>3. FromTo(RowsOf(Posted + 1, T, U, o), T, U)
    BY <1>2, <2>1, <2>2, RowsFit
  <2>4. Fits(f, T, U)
    BY <1>2, <2>1, <2>3 DEF FromTo
  <2>5. PICK p \in Paths : p = f.source /\ f.sourceRev = Tree(Posted)[p]
    BY <2>1, <2>4 DEF Fits
  <2>6. Tree(Posted)[p] # Absent
    BY <1>2, <2>5 DEF Checked, IsNew
  <2>7. CASE Tree(0)[p] = Tree(Posted)[p]
    BY <2>5, <2>7 DEF ExistsInHistory, InRepository
  <2>8. CASE Tree(0)[p] # Tree(Posted)[p]
    <3>1. PICK g \in PerCommit : /\ g.commit \in 0 + 1..Posted /\ g.dest = p
                                 /\ g.destRev = Tree(Posted)[p] /\ ~Deleted(g)
      BY <2>2, <2>6, <2>8, Brought
    <3>2. <<p, f.sourceRev>> \in Listed(g.commit) /\ g.commit \in 1..Posted
      BY <2>5, <3>1 DEF Listed
    <3> QED
      BY <2>5, <3>2 DEF ExistsInHistory
  <2> QED
    BY <2>7, <2>8
<1>3. CASE PostCommit
  BY <1>1, <1>2, <1>3 DEF PostCommit
<1> QED
  BY <1>1, <1>3 DEF Next, Finalize, LookInRange, LookAtFile, GetAncestors, vars

LEMMA SeriesStart ==  Init => NumbersInv /\ KeptInv /\ DiffsInv /\ NeverRefused
<1> SUFFICES ASSUME Init PROVE NumbersInv /\ KeptInv /\ DiffsInv /\ NeverRefused
  OBVIOUS
<1>1. NumbersInv /\ KeptInv
  BY NumbersStart
<1>2. Posted = 0
  BY DEF Init, Posted
<1> QED
  BY <1>1, <1>2 DEF Init, DiffsInv, NeverRefused

LEMMA SeriesAlways ==
  ASSUME ~Unedited
  PROVE  Spec => [](NumbersInv /\ KeptInv /\ DiffsInv /\ NeverRefused)
<1> DEFINE IInv == NumbersInv /\ KeptInv /\ DiffsInv /\ NeverRefused
<1>1. Init => IInv
  BY SeriesStart
<1>2. IInv /\ [Next]_vars => IInv'
  BY NumbersKept, KeptKept, DiffsKept, AcceptedStep
<1> HIDE DEF IInv
<1>3. Spec => []IInv
  BY <1>1, <1>2, PTL DEF Spec
<1> QED
  BY <1>3 DEF IInv

(* A client that posts its commits honestly is never told that a file its  *)
(* diff starts from does not exist: the validation of each commit looks    *)
(* through those before it, and not only at its parent                     *)
(* (get_file_exists_in_history).                                           *)
THEOREM NothingRefused ==
  ASSUME ~Unedited
  PROVE  Spec => []NeverRefused
BY SeriesAlways, PTL

(* What a line says of what is patched: each FileDiff starts from what the *)
(* one before it leaves.                                                   *)
LEMMA Follows ==
  ASSUME NumbersInv, DiffsInv, NEW g \in PerCommit, NEW h \in Before(g, PerCommit)
  PROVE  h \in PerCommit /\ h.dest = g.source /\ h.destRev = g.sourceRev
         /\ (Deleted(h) <=> IsNew(g))
<1>1. h \in PerCommit /\ h.dest = g.source
  BY DEF Before
<1>2. Deleted(h) <=> h.destRev = Absent
  BY <1>1, DiffsMean DEF Fits
<1> QED
  BY <1>1, <1>2 DEF Before, IsNew

(* and what has no ancestor, or a deletion before it, starts from what the *)
(* repository has.                                                         *)
LEMMA Starts ==
  ASSUME NumbersInv, DiffsInv, NEW g \in PerCommit,
         Earlier(g, PerCommit) = {} \/ IsNew(g)
  PROVE  FromRepository(g) = g.sourceRev
<1>1. CASE IsNew(g)
  BY <1>1 DEF FromRepository, IsNew
<1>2. CASE ~IsNew(g)
  <2>1. /\ Posted \in Nat /\ g.commit \in 1..Posted
        /\ Fits(g, Tree(g.commit - 1), Tree(g.commit))
    BY PerCommitNumbered, DiffsMean
  <2>2. PICK p \in Paths, c \in 0..Posted :
          p = g.source /\ c = g.commit - 1 /\ g.sourceRev = Tree(c)[p]
    BY <2>1 DEF Fits
  <2>3. Tree(0)[p] = Tree(c)[p]
    <3> SUFFICES ASSUME Tree(0)[p] # Tree(c)[p] PROVE FALSE
      OBVIOUS
    <3>1. PICK f \in PerCommit : f.commit \in 0 + 1..c /\ f.dest = p
                                 /\ f.destRev = Tree(c)[p]
      BY <1>2, <2>1, <2>2, Brought DEF IsNew
    <3>2. f \in Earlier(g, PerCommit)
      BY <1>2, <2>1, <2>2, <3>1 DEF Earlier, Before
    <3> QED
      BY <1>2, <3>2
  <2> QED
    BY <1>2, <2>2, <2>3 DEF FromRepository, InRepository
<1> QED
  BY <1>1, <1>2

(* The line of f in the state, with all that is said of lines.             *)
LineOf(f) == Line(ChainOf(PerCommit), f)

Precedes(h, g) ==
  /\ h = Latest(Earlier(g, PerCommit)) /\ h \in Earlier(g, PerCommit)
  /\ h.dest = g.source /\ h.destRev = g.sourceRev
  /\ Deleted(h) <=> IsNew(g)

LineFacts(s, t, f) ==
  /\ s \in Seq(PerCommit) /\ t = Append(s, f)
  /\ t \in Seq(PerCommit) /\ Len(t) = Len(s) + 1 /\ t[Len(t)] = f
  /\ \A i \in DOMAIN s : t[i] = s[i]
  /\ \A i, j \in DOMAIN t : i < j => t[i].commit < t[j].commit
  /\ \A i \in DOMAIN t : i = 1 <=> Earlier(t[i], PerCommit) = {}
  /\ \A i \in DOMAIN t : i > 1 => Precedes(t[i - 1], t[i])

LEMMA LineMeans ==
  ASSUME NumbersInv, KeptInv, DiffsInv, NEW f \in PerCommit
  PROVE  LineFacts(Ancestors(f, PerCommit), LineOf(f), f)
<1>1. PICK C : C = ChainOf(PerCommit)
  OBVIOUS
<1>2. PICK s : s = Ancestors(f, PerCommit)
  OBVIOUS
<1>3. PICK t : t = LineOf(f)
  OBVIOUS
<1>4. Posted \in Nat /\ Numbered(PerCommit, Posted) /\ ChainRule(C, PerCommit)
  BY <1>1, PerCommitNumbered
<1>5. s = C[f] /\ s \in Seq(PerCommit) /\ t = Append(s, f)
  BY <1>1, <1>2, <1>3, <1>4, AncestorsAreChain DEF ChainRule, LineOf, Line
<1>6. /\ Linked(t, PerCommit) /\ Len(t) = Len(s) + 1 /\ t[Len(t)] = f
      /\ \A i \in DOMAIN s : t[i] = s[i]
  <2>1. t = Line(C, f)
    BY <1>1, <1>3 DEF LineOf
  <2>2. Linked(Line(C, f), PerCommit) /\ Len(Line(C, f)) = Len(C[f]) + 1
        /\ Line(C, f)[Len(Line(C, f))] = f
        /\ \A i \in DOMAIN C[f] : Line(C, f)[i] = C[f][i]
    BY <1>4, LineLinked
  <2> QED
    BY <1>5, <2>1, <2>2
<1>7. \A i, j \in DOMAIN t : i < j => t[i].commit < t[j].commit
  BY <1>4, <1>6, Increasing
<1>8. ASSUME NEW i \in DOMAIN t
      PROVE  /\ i = 1 <=> Earlier(t[i], PerCommit) = {}
             /\ i > 1 => Precedes(t[i - 1], t[i])
  <2>1. t[i] \in PerCommit /\ (i = 1 <=> Earlier(t[i], PerCommit) = {})
    BY <1>6 DEF Linked
  <2>2. CASE i > 1
    <3>1. t[i - 1] = Latest(Earlier(t[i], PerCommit)) /\ Earlier(t[i], PerCommit) # {}
      BY <1>6, <2>1, <2>2 DEF Linked
    <3>2. /\ t[i - 1] \in Earlier(t[i], PerCommit)
          /\ t[i - 1] \in Before(t[i], PerCommit)
      BY <1>4, <3>1, LatestIs
    <3> QED
      BY <2>1, <3>1, <3>2, Follows DEF Precedes
  <2>3. CASE ~(i > 1)
    BY <2>1, <2>3
  <2> QED
    BY <2>2, <2>3
<1> QED
  BY <1>2, <1>3, <1>5, <1>6, <1>7, <1>8 DEF Linked, LineFacts

(* Patching a line, each from what the one before leaves.                  *)
PatchedUp(s) ==
  CHOOSE h : h = [i \in 0..Len(s) |->
    IF i = 0 THEN FromRepository(s[1]) ELSE Patch(s[i], h[i - 1])]

LEMMA OriginalUnfolds ==
  \A f : Original(f) = IF Minimal(f) = <<>> THEN FromRepository(f)
                       ELSE PatchedUp(Minimal(f))[Len(Minimal(f))]
BY DEF Original, PatchedUp

LEMMA PatchesApply ==
  ASSUME NEW s \in Seq(PerCommit), s # <<>>, FromRepository(s[1]) = s[1].sourceRev,
         \A i \in DOMAIN s : i > 1 => s[i].sourceRev = s[i - 1].destRev
  PROVE  PatchedUp(s)[Len(s)] = s[Len(s)].destRev
<1>1. PICK n \in Nat : n = Len(s) /\ DOMAIN s = 1..n /\ n > 0
  OBVIOUS
<1> DEFINE h == [i \in 0..n |-> IF i = 0 THEN FromRepository(s[1]) ELSE s[i].destRev]
           P == PatchedUp(s)
<1>2. h = [i \in 0..Len(s) |->
             IF i = 0 THEN FromRepository(s[1]) ELSE Patch(s[i], h[i - 1])]
  <2>1. ASSUME NEW i \in 0..n
        PROVE  h[i] = IF i = 0 THEN FromRepository(s[1]) ELSE Patch(s[i], h[i - 1])
    <3>1. CASE i = 0
      BY <3>1
    <3>2. CASE i = 1
      <4>1. h[0] = s[1].sourceRev /\ h[1] = s[1].destRev
        BY <1>1
      <4> QED
        BY <3>2, <4>1 DEF Patch
    <3>3. CASE i > 1
      <4>1. i - 1 \in 0..n /\ i - 1 # 0 /\ i \in DOMAIN s
        BY <1>1, <3>3
      <4>2. h[i - 1] = s[i].sourceRev /\ h[i] = s[i].destRev
        BY <3>3, <4>1
      <4> QED
        BY <3>3, <4>2 DEF Patch
    <3> QED
      BY <3>1, <3>2, <3>3
  <2> QED
    BY <1>1, <2>1
<1>3. P = [i \in 0..Len(s) |->
             IF i = 0 THEN FromRepository(s[1]) ELSE Patch(s[i], P[i - 1])]
  BY <1>2 DEF PatchedUp
<1> HIDE DEF P
<1>4. \A i \in 0..n : P[i] = IF i = 0 THEN FromRepository(s[1])
                             ELSE Patch(s[i], P[i - 1])
  BY <1>1, <1>3
<1> DEFINE Good == {i \in Nat : i \in 1..n => P[i] = s[i].destRev}
<1>5. ASSUME NEW i \in Nat, \A m \in Nat : m < i => m \in Good
      PROVE  i \in Good
  <2> SUFFICES ASSUME i \in 1..n PROVE P[i] = s[i].destRev
    OBVIOUS
  <2>1. CASE i = 1
    <3>1. P[0] = s[1].sourceRev /\ P[1] = Patch(s[1], P[0])
      BY <1>1, <1>4
    <3> QED
      BY <2>1, <3>1 DEF Patch
  <2>2. CASE i # 1
    <3>1. i - 1 \in Nat /\ i - 1 < i /\ i - 1 \in 1..n /\ i > 1 /\ i \in DOMAIN s
      BY <1>1, <2>2
    <3>2. P[i - 1] = s[i - 1].destRev
      BY <1>5, <3>1
    <3>3. P[i] = Patch(s[i], P[i - 1])
      BY <1>4, <3>1
    <3> QED
      BY <3>1, <3>2, <3>3 DEF Patch
  <2> QED
    BY <2>1, <2>2
<1>6. n \in Good
  <2> HIDE DEF Good
  <2> QED
    BY <1>5, StrongInduction
<1> QED
  BY <1>1, <1>6 DEF P

(* get_original_file() gives the source of the FileDiff.                   *)
LEMMA OriginalIsSource ==
  ASSUME NumbersInv, KeptInv, DiffsInv, NEW f \in PerCommit
  PROVE  Original(f) = f.sourceRev
<1>1. PICK s : s = Ancestors(f, PerCommit)
  OBVIOUS
<1>2. PICK t : t = LineOf(f)
  OBVIOUS
<1>3. /\ s \in Seq(PerCommit) /\ t = Append(s, f)
      /\ t \in Seq(PerCommit) /\ Len(t) = Len(s) + 1 /\ t[Len(t)] = f
      /\ \A i \in DOMAIN s : t[i] = s[i]
      /\ \A i \in DOMAIN t : i = 1 <=> Earlier(t[i], PerCommit) = {}
      /\ \A i \in DOMAIN t : i > 1 => /\ t[i - 1].destRev = t[i].sourceRev
                                      /\ Deleted(t[i - 1]) <=> IsNew(t[i])
  <2>1. LineFacts(s, t, f)
    BY <1>1, <1>2, LineMeans
  <2> QED
    BY <2>1 DEF LineFacts, Precedes
<1>4. PICK n \in Nat : n = Len(s)
  BY <1>3
<1>5. PICK cut \in 0..n :
        /\ Split(s) = <<SubSeq(s, 1, cut), SubSeq(s, cut + 1, n)>>
        /\ cut > 0 => Deleted(s[cut])
  BY <1>3, <1>4, SplitIs
<1>6. PICK m : m = Minimal(f)
  OBVIOUS
<1>7. m = SubSeq(s, cut + 1, n)
  BY <1>1, <1>5, <1>6 DEF Minimal
<1>8. DOMAIN s = 1..n /\ DOMAIN t = 1..n + 1 /\ t[n + 1] = f
  BY <1>3, <1>4
<1>9. m \in Seq(PerCommit) /\ Len(m) = n - cut
  BY <1>3, <1>4, <1>7
<1>10. \A i \in 1..n - cut : m[i] = t[cut + i]
  <2> TAKE i \in 1..n - cut
  <2>1. m[i] = s[cut + i] /\ cut + i \in 1..n
    BY <1>3, <1>4, <1>7
  <2> QED
    BY <1>3, <1>8, <2>1
<1>11. FromRepository(t[cut + 1]) = t[cut + 1].sourceRev
  <2>1. cut + 1 \in DOMAIN t /\ t[cut + 1] \in PerCommit
    BY <1>3, <1>8
  <2>2. CASE cut = 0
    <3>1. cut + 1 = 1
      BY <2>2
    <3>2. Earlier(t[cut + 1], PerCommit) = {}
      BY <1>3, <2>1, <3>1
    <3> QED
      BY <2>1, <3>2, Starts
  <2>3. CASE cut # 0
    <3>1. cut + 1 - 1 = cut /\ cut + 1 > 1 /\ cut \in DOMAIN s /\ cut > 0
      BY <1>8, <2>3
    <3>2. Deleted(t[cut])
      BY <1>3, <1>5, <3>1
    <3>3. IsNew(t[cut + 1])
      <4>1. PICK j : j = cut + 1
        OBVIOUS
      <4>2. j \in DOMAIN t /\ j > 1 /\ j - 1 = cut
        BY <2>1, <3>1, <4>1
      <4>3. Deleted(t[j - 1]) <=> IsNew(t[j])
        BY <1>3, <4>2
      <4> QED
        BY <3>2, <4>1, <4>2, <4>3
    <3> QED
      BY <2>1, <3>3, Starts
  <2> QED
    BY <2>2, <2>3
<1>12. CASE m = <<>>
  <2>1. cut = n
    <3>1. Len(m) = 0
      BY <1>12
    <3> QED
      BY <1>9, <3>1
  <2>2. t[cut + 1] = f
    BY <1>8, <2>1
  <2> QED
    BY <1>6, <1>11, <1>12, <2>2, OriginalUnfolds
<1>13. CASE m # <<>>
  <2>1. n - cut \in Nat \ {0} /\ n \in 1..n /\ DOMAIN m = 1..n - cut
    <3>1. Len(m) # 0
      BY <1>9, <1>13
    <3>2. DOMAIN m = 1..Len(m)
      BY <1>9
    <3> QED
      BY <1>9, <3>1, <3>2
  <2>2. m[1] = t[cut + 1] /\ m[Len(m)] = t[n]
    <3>1. 1 \in 1..n - cut /\ n - cut \in 1..n - cut /\ cut + (n - cut) = n
      BY <2>1
    <3> QED
      BY <1>9, <1>10, <3>1
  <2>3. \A i \in DOMAIN m : i > 1 => m[i].sourceRev = m[i - 1].destRev
    <3> SUFFICES ASSUME NEW i \in DOMAIN m, i > 1
                 PROVE  m[i].sourceRev = m[i - 1].destRev
      OBVIOUS
    <3>1. /\ i \in 1..n - cut /\ i - 1 \in 1..n - cut /\ cut + i \in DOMAIN t
          /\ cut + i > 1 /\ cut + (i - 1) = (cut + i) - 1
      BY <1>8, <2>1
    <3>2. m[i] = t[cut + i] /\ m[i - 1] = t[(cut + i) - 1]
      BY <1>10, <3>1
    <3>3. t[(cut + i) - 1].destRev = t[cut + i].sourceRev
      <4>1. PICK j : j = cut + i
        OBVIOUS
      <4>2. j \in DOMAIN t /\ j > 1
        BY <3>1, <4>1
      <4>3. t[j - 1].destRev = t[j].sourceRev
        BY <1>3, <4>2
      <4> QED
        BY <4>1, <4>3
    <3> QED
      BY <3>2, <3>3
  <2>4. PatchedUp(m)[Len(m)] = m[Len(m)].destRev
    BY <1>9, <1>11, <1>13, <2>2, <2>3, PatchesApply
  <2>5. t[n].destRev = f.sourceRev
    <3>1. PICK j : j = n + 1
      OBVIOUS
    <3>2. j \in DOMAIN t /\ j > 1 /\ j - 1 = n
      BY <1>8, <2>1, <3>1
    <3>3. t[j - 1].destRev = t[j].sourceRev
      BY <1>3, <3>2
    <3> QED
      BY <1>8, <3>1, <3>2, <3>3
  <2> QED
    BY <1>6, <1>13, <2>2, <2>4, <2>5, OriginalUnfolds
<1> QED
  BY <1>12, <1>13

LEMMA PatchedIsDest ==
  ASSUME NumbersInv, KeptInv, DiffsInv, NEW f \in PerCommit
  PROVE  Patched(f) = f.destRev
BY OriginalIsSource DEF Patched, Patch

(* What patching the ancestors one after another gives is what the commit  *)
(* before had of the file, and what the patch makes of it what the commit  *)
(* has, whatever of the ancestors is kept: no patch is applied to another  *)
(* text than it was made from, and nothing is fetched that the repository  *)
(* does not have (get_original_file, get_patched_file).                    *)
THEOREM FilesAreRebuilt ==
  ASSUME ~Unedited
  PROVE  Spec => []Rebuilt
<1>1. NumbersInv /\ KeptInv /\ DiffsInv => Rebuilt
  <2> SUFFICES ASSUME NumbersInv, KeptInv, DiffsInv, NEW f \in PerCommit
               PROVE  /\ Original(f) = IF IsNew(f) THEN Absent
                                       ELSE Tree(f.commit - 1)[f.source]
                      /\ Patched(f) = IF Deleted(f) THEN Absent
                                      ELSE Tree(f.commit)[f.dest]
    BY DEF Rebuilt
  <2>1. Fits(f, Tree(f.commit - 1), Tree(f.commit))
    BY DiffsMean
  <2>2. Original(f) = f.sourceRev /\ Patched(f) = f.destRev
    BY OriginalIsSource, PatchedIsDest
  <2> QED
    BY <2>1, <2>2 DEF Fits, IsNew
<1> QED
  BY <1>1, SeriesAlways, PTL

(* What is shown of a range: what no other FileDiff of it comes from.      *)
LEMMA ShownMeans ==
  ASSUME NEW b, NEW t, NEW f
  PROVE  f \in Shown(b, t) <=>
           /\ f \in PerCommit /\ f.commit \in b + 1..t
           /\ \A g \in PerCommit : g.commit \in b + 1..t =>
                \A i \in DOMAIN Ancestors(g, PerCommit) : Ancestors(g, PerCommit)[i] # f
<1> DEFINE range == {g \in PerCommit : g.commit \in b + 1..t}
           of(g) == {Ancestors(g, PerCommit)[i] : i \in DOMAIN Ancestors(g, PerCommit)}
<1>1. Shown(b, t) = range \ UNION {of(g) : g \in range}
  BY DEF Shown
<1>2. \A g : f \in of(g) <=> \E i \in DOMAIN Ancestors(g, PerCommit) :
                               Ancestors(g, PerCommit)[i] = f
  OBVIOUS
<1>3. f \in UNION {of(g) : g \in range} <=> \E g \in range : f \in of(g)
  OBVIOUS
<1> HIDE DEF of
<1> QED
  BY <1>1, <1>2, <1>3

(* What is shown of a file that was not deleted is what the tip has: were  *)
(* it changed again, then the first change would come from what is shown,  *)
(* which is the latest to leave the file as that change finds it.          *)
LEMMA ShownIsTip ==
  ASSUME NumbersInv, KeptInv, DiffsInv,
         NEW b \in 0..Posted, NEW t \in 0..Posted, b < t,
         NEW f \in Shown(b, t), ~Deleted(f)
  PROVE  f.destRev = Tree(t)[f.dest]
<1>1. Posted \in Nat /\ b \in Nat /\ t \in Nat
  BY PerCommitNumbered
<1>2. /\ f \in PerCommit /\ f.commit \in b + 1..t
      /\ \A g \in PerCommit : g.commit \in b + 1..t =>
           \A i \in DOMAIN Ancestors(g, PerCommit) : Ancestors(g, PerCommit)[i] # f
  BY ShownMeans
<1>3. PICK p \in Paths, c \in Nat : p = f.dest /\ c = f.commit
  BY <1>1, <1>2, DiffsMean DEF Fits
<1>4. f.destRev = Tree(c)[p] /\ Tree(c)[p] # Absent
  BY <1>2, <1>3, DiffsMean DEF Fits
<1> SUFFICES ASSUME Tree(c)[p] # Tree(t)[p] PROVE FALSE
  BY <1>3, <1>4
<1>5. PICK d \in c + 1..t : /\ Tree(d - 1)[p] # Tree(d)[p]
                            /\ \A e \in c..d - 1 : Tree(e)[p] = Tree(c)[p]
  <2>1. c <= t
    BY <1>1, <1>2, <1>3
  <2> QED
    BY <1>1, <2>1, FirstChange
<1>6. d \in 1..Posted /\ d - 1 \in c..d - 1 /\ d \in b + 1..t /\ c < d
  BY <1>1, <1>2, <1>3
<1>7. PICK g \in PerCommit : g.commit = d /\ g.source = p /\ g.status # "copied"
  BY <1>4, <1>5, <1>6, DiffsMean
<1>8. g.sourceRev = f.destRev /\ ~IsNew(g)
  BY <1>4, <1>5, <1>6, <1>7, DiffsMean DEF Fits, IsNew
<1>9. f \in Earlier(g, PerCommit)
  BY <1>2, <1>3, <1>6, <1>7, <1>8 DEF Earlier, Before
<1>10. PICK s, l : s = Ancestors(g, PerCommit) /\ l = LineOf(g)
  OBVIOUS
<1>11. LineFacts(s, l, g)
  BY <1>10, LineMeans
<1>12. PICK n \in Nat : n = Len(s) /\ DOMAIN s = 1..n /\ DOMAIN l = 1..n + 1
                        /\ l[n + 1] = g
  BY <1>11 DEF LineFacts
<1>13. n # 0
  <2>1. 1 \in DOMAIN l /\ (n = 0 => l[1] = g)
    BY <1>12
  <2> QED
    BY <1>9, <1>11, <2>1 DEF LineFacts
<1>14. n \in DOMAIN s /\ s[n] = l[n] /\ Precedes(l[n], g)
  <2>1. n \in DOMAIN s /\ n + 1 \in DOMAIN l /\ n + 1 > 1 /\ (n + 1) - 1 = n
    BY <1>12, <1>13
  <2>2. PICK j : j = n + 1
    OBVIOUS
  <2>3. Precedes(l[j - 1], l[j])
    BY <1>11, <2>1, <2>2 DEF LineFacts
  <2> QED
    BY <1>11, <1>12, <2>1, <2>2, <2>3 DEF LineFacts
<1>15. PICK h \in PerCommit : h = s[n]
  BY <1>11, <1>14 DEF LineFacts
<1>16. /\ h = Latest(Earlier(g, PerCommit)) /\ h \in Earlier(g, PerCommit)
       /\ h.dest = p /\ h.destRev = f.destRev
  BY <1>7, <1>8, <1>14, <1>15 DEF Precedes
<1>17. h.commit >= c /\ h.commit < d
  <2>1. h.commit < d
    BY <1>7, <1>16 DEF Earlier
  <2>2. f.commit <= h.commit
    BY <1>1, <1>9, <1>16, PerCommitNumbered, LatestIs
  <2> QED
    BY <1>3, <2>1, <2>2, PerCommitNumbered
<1>18. CASE h.commit = c
  <2>1. h = f
    BY <1>2, <1>3, <1>16, <1>18, DiffsMean
  <2> QED
    BY <1>2, <1>6, <1>7, <1>10, <1>14, <1>15, <2>1
<1>19. CASE h.commit # c
  <2>1. PICK e \in Nat : e = h.commit
    BY <1>1, PerCommitNumbered
  <2>2. e \in c..d - 1 /\ e - 1 \in c..d - 1
    BY <1>6, <1>17, <1>19, <2>1
  <2>3. Tree(e - 1)[p] # Tree(e)[p]
    BY <1>16, <2>1, DiffsMean DEF Fits
  <2> QED
    BY <1>5, <2>2, <2>3
<1> QED
  BY <1>18, <1>19

(* What the tip has and the base has not alike is shown, unless the range  *)
(* copies it: the last FileDiff that changed it is no ancestor of another, *)
(* since that one would change it again.                                   *)
LEMMA TipIsShown ==
  ASSUME NumbersInv, KeptInv, DiffsInv,
         NEW b \in 0..Posted, NEW t \in 0..Posted, b < t,
         NEW p \in Paths, Tree(t)[p] # Tree(b)[p], Tree(t)[p] # Absent,
         ~CopiedIn(p, <<b, t>>)
  PROVE  \E f \in Shown(b, t) : ~Deleted(f) /\ f.dest = p
<1>1. Posted \in Nat /\ b \in Nat /\ t \in Nat
  BY PerCommitNumbered
<1>2. PICK f \in PerCommit :
        /\ f.commit \in b + 1..t /\ f.dest = p
        /\ f.destRev = Tree(t)[p] /\ ~Deleted(f)
        /\ \A e \in f.commit..t : Tree(e)[p] = Tree(t)[p]
  BY <1>1, Brought
<1>3. ASSUME NEW g \in PerCommit, g.commit \in b + 1..t,
             NEW i \in DOMAIN Ancestors(g, PerCommit), Ancestors(g, PerCommit)[i] = f
      PROVE  FALSE
  <2>1. PICK s, l : s = Ancestors(g, PerCommit) /\ l = LineOf(g)
    OBVIOUS
  <2>2. LineFacts(s, l, g)
    BY <2>1, LineMeans
  <2>3. PICK n \in Nat : n = Len(s) /\ DOMAIN s = 1..n /\ DOMAIN l = 1..n + 1
                         /\ l[n + 1] = g
    BY <2>2 DEF LineFacts
  <2>4. i \in 1..n /\ l[i] = f
    BY <1>3, <2>1, <2>2, <2>3 DEF LineFacts
  <2>5. PICK j \in DOMAIN l : j = i + 1 /\ j > 1 /\ j - 1 = i
    BY <2>3, <2>4
  <2>6. PICK h \in PerCommit : h = l[j]
    BY <2>2 DEF LineFacts
  <2>7. Precedes(f, h)
    BY <2>2, <2>4, <2>5, <2>6 DEF LineFacts
  <2>8. h.commit <= g.commit
    <3>1. CASE j = n + 1
      BY <2>3, <2>6, <3>1, PerCommitNumbered
    <3>2. CASE j # n + 1
      <4>1. n + 1 \in DOMAIN l /\ j < n + 1
        BY <2>3, <2>4, <2>5, <3>2
      <4>2. l[j].commit < l[n + 1].commit
        BY <2>2, <4>1 DEF LineFacts
      <4> QED
        BY <2>3, <2>6, <4>2, PerCommitNumbered
    <3> QED
      BY <3>1, <3>2
  <2>9. f.commit < h.commit /\ h.source = p /\ h.sourceRev = Tree(t)[p]
    BY <1>2, <2>7 DEF Precedes, Earlier
  <2>10. PICK c \in Nat : c = h.commit
    BY <1>1, PerCommitNumbered
  <2>11. /\ c \in 1..Posted /\ c \in b + 1..t
         /\ c \in f.commit..t /\ c - 1 \in f.commit..t
    <3>1. f.commit \in 1..Posted /\ h.commit \in 1..Posted /\ g.commit \in 1..Posted
      BY PerCommitNumbered
    <3> QED
      BY <1>1, <1>2, <1>3, <2>8, <2>9, <2>10, <3>1
  <2>12. Tree(c - 1)[p] = Tree(t)[p] /\ Tree(c)[p] = Tree(t)[p]
    BY <1>2, <2>11
  <2>13. Fits(h, Tree(c - 1), Tree(c))
    BY <2>10, DiffsMean
  <2>14. CASE h.status \in {"modified", "deleted"}
    BY <2>9, <2>12, <2>13, <2>14 DEF Fits
  <2>15. CASE h.status = "moved"
    BY <2>9, <2>12, <2>13, <2>15 DEF Fits
  <2>16. CASE h.status = "copied"
    <3>1. \A e \in c - 1..t : e \in f.commit..t
      <4>1. f.commit \in Nat
        BY PerCommitNumbered
      <4> QED
        BY <1>1, <2>11, <4>1
    <3>2. \A e \in c - 1..t : Tree(e)[p] = Tree(t)[p]
      BY <1>2, <3>1
    <3> QED
      BY <2>9, <2>10, <2>11, <2>16, <3>2 DEF CopiedIn
  <2> QED
    BY <2>13, <2>14, <2>15, <2>16 DEF Fits
<1>4. f \in Shown(b, t)
  BY <1>2, <1>3, ShownMeans
<1> QED
  BY <1>2, <1>4

(* A range of commits shows every file that the tip has and the base has   *)
(* not alike, but for a file that the range also copies; and of no file    *)
(* that it shows, a deletion aside, does it show another patched file than *)
(* the tip has (exclude_ancestor_filediffs).                               *)
THEOREM RangesShowTip ==
  ASSUME ~Unedited
  PROVE  Spec => []RangeShowsTip
<1>1. NumbersInv /\ KeptInv /\ DiffsInv => RangeShowsTip
  <2> SUFFICES ASSUME NumbersInv, KeptInv, DiffsInv,
                      NEW b \in 0..Posted, NEW t \in 0..Posted, b < t
               PROVE  LET shown == {f \in Shown(b, t) : ~Deleted(f)} IN
                      /\ \A p \in Paths : Changed(p, <<b, t>>) =>
                           CopiedIn(p, <<b, t>>) \/ \E f \in shown : f.dest = p
                      /\ \A f \in shown : Patched(f) = Tree(t)[f.dest]
    <3>1. \A r \in Ranges : \E b, t \in 0..Posted : r = <<b, t>> /\ b < t
      BY DEF Ranges
    <3> QED
      BY <3>1 DEF RangeShowsTip
  <2>1. ASSUME NEW p \in Paths, Changed(p, <<b, t>>), ~CopiedIn(p, <<b, t>>)
        PROVE  \E f \in Shown(b, t) : ~Deleted(f) /\ f.dest = p
    <3>1. Tree(t)[p] # Tree(b)[p] /\ Tree(t)[p] # Absent
      BY <2>1 DEF Changed
    <3> QED
      BY <2>1, <3>1, TipIsShown
  <2>2. ASSUME NEW f \in Shown(b, t), ~Deleted(f)
        PROVE  Patched(f) = Tree(t)[f.dest]
    <3>1. f \in PerCommit
      BY ShownMeans
    <3> QED
      BY <2>2, <3>1, ShownIsTip, PatchedIsDest
  <2> QED
    BY <2>1, <2>2
<1> QED
  BY <1>1, SeriesAlways, PTL

(* Where a line leaves the commits up to b.                                *)
LEMMA FirstAfterIs ==
  ASSUME NumbersInv, KeptInv, DiffsInv, NEW f \in PerCommit, NEW b \in Nat,
         f.commit > b,
         NEW s, NEW l, s = Ancestors(f, PerCommit), l = LineOf(f)
  PROVE  \E k \in Nat : /\ k + 1 \in DOMAIN l /\ FirstAfter(f, b) = l[k + 1]
                        /\ l[k + 1].commit > b
                        /\ UpTo(f, b) = 1..k
                        /\ k \in 0..Len(s)
<1>1. LineFacts(s, l, f) /\ Posted \in Nat
  BY LineMeans, PerCommitNumbered
<1>2. PICK n \in Nat : n = Len(s) /\ DOMAIN s = 1..n /\ DOMAIN l = 1..n + 1
                       /\ l[n + 1] = f
  <2>1. /\ s \in Seq(PerCommit) /\ l \in Seq(PerCommit)
        /\ Len(l) = Len(s) + 1 /\ l[Len(l)] = f
    BY <1>1 DEF LineFacts
  <2>2. Len(s) \in Nat /\ DOMAIN s = 1..Len(s) /\ DOMAIN l = 1..Len(s) + 1
    BY <2>1
  <2> QED
    BY <2>1, <2>2
<1>3. \A i \in DOMAIN l : l[i] \in PerCommit /\ l[i].commit \in Nat
  BY <1>1, PerCommitNumbered DEF LineFacts
<1> DEFINE S == {i \in 1..n + 1 : l[i].commit > b}
<1>4. S \in SUBSET Nat /\ S # {}
  <2>1. n + 1 \in S
    BY <1>2
  <2> QED
    BY <1>2, <2>1
<1>5. PICK j \in S : \A i \in S : j <= i
  <2> HIDE DEF S
  <2> QED
    BY <1>4, Least
<1>6. PICK k \in Nat : k = j - 1 /\ j = k + 1 /\ k \in 0..n
  BY <1>2
<1>7. \A i \in 1..k : l[i].commit <= b
  <2> TAKE i \in 1..k
  <2>1. i \in 1..n + 1 /\ i < j
    BY <1>2, <1>6
  <2>2. i \notin S /\ l[i].commit \in Nat
    BY <1>2, <1>3, <1>5, <2>1
  <2> QED
    BY <2>1, <2>2
<1>8. \A i \in 1..n + 1 : i > k => l[i].commit > b
  <2> SUFFICES ASSUME NEW i \in 1..n + 1, i > k PROVE l[i].commit > b
    OBVIOUS
  <2>1. l[j].commit > b /\ j \in DOMAIN l /\ i \in DOMAIN l
    BY <1>2
  <2>2. CASE i = j
    BY <2>1, <2>2
  <2>3. CASE i # j
    <3>1. j < i
      BY <1>6, <2>3
    <3>2. l[j].commit < l[i].commit
      BY <1>1, <2>1, <3>1 DEF LineFacts
    <3> QED
      BY <1>3, <2>1, <3>2
  <2> QED
    BY <2>2, <2>3
<1>9. FirstAfter(f, b) = l[j]
  <2> DEFINE P(i) == l[i].commit > b /\ \A m \in 1..i - 1 : l[m].commit <= b
  <2>1. l = Append(s, f)
    BY <1>1 DEF LineFacts
  <2>2. FirstAfter(f, b) = l[CHOOSE i \in DOMAIN l : P(i)]
    BY <2>1 DEF FirstAfter
  <2>3. j \in DOMAIN l /\ P(j)
    BY <1>2, <1>6, <1>7
  <2>4. ASSUME NEW i \in DOMAIN l, P(i) PROVE i = j
    <3>1. i \in 1..n + 1 /\ i > k
      <4>1. CASE i <= k
        <5>1. i \in 1..k
          BY <1>2, <4>1
        <5>2. l[i].commit <= b /\ l[i].commit \in Nat
          BY <1>3, <1>7, <5>1
        <5> QED
          BY <2>4, <5>2
      <4> QED
        BY <1>2, <4>1
    <3>2. CASE i > j
      <4>1. j \in 1..i - 1
        BY <1>2, <1>6, <3>1, <3>2
      <4>2. l[j].commit <= b /\ l[j].commit > b /\ l[j].commit \in Nat
        BY <1>3, <2>3, <2>4, <4>1
      <4> QED
        BY <4>2
    <3> QED
      BY <1>6, <3>1, <3>2
  <2> HIDE DEF P
  <2> QED
    BY <2>2, <2>3, <2>4
<1>10. UpTo(f, b) = 1..k
  <2>1. UpTo(f, b) = {i \in 1..n : s[i].commit <= b}
    BY <1>2 DEF UpTo
  <2>2. \A i \in 1..n : s[i] = l[i] /\ i \in 1..n + 1 /\ l[i].commit \in Nat
    BY <1>1, <1>2, <1>3 DEF LineFacts
  <2>3. \A i \in 1..n : s[i].commit <= b <=> i <= k
    BY <1>6, <1>7, <1>8, <2>2
  <2> QED
    BY <1>6, <2>1, <2>3
<1> QED
  BY <1>2, <1>6, <1>9, <1>10

(* What the FileDiff after commit b starts from is what the base has, when *)
(* its ancestor, if it has one, is not after b.                            *)
LEMMA StartsAtBase ==
  ASSUME NumbersInv, KeptInv, DiffsInv, NEW g \in PerCommit, NEW b \in Nat,
         g.commit > b, ~IsNew(g),
         Earlier(g, PerCommit) = {} \/ Latest(Earlier(g, PerCommit)).commit <= b
  PROVE  g.sourceRev = Tree(b)[g.source]
<1>1. Posted \in Nat /\ g.commit \in 1..Posted /\ Numbered(PerCommit, Posted)
  BY PerCommitNumbered
<1>2. PICK p \in Paths, c \in 0..Posted :
        /\ p = g.source /\ c = g.commit - 1 /\ b <= c
        /\ g.sourceRev = Tree(c)[p] /\ Tree(c)[p] # Absent
  BY <1>1, DiffsMean DEF Fits, IsNew
<1> SUFFICES ASSUME Tree(b)[p] # Tree(c)[p] PROVE FALSE
  BY <1>2
<1>3. PICK f \in PerCommit : f.commit \in b + 1..c /\ f.dest = p
                             /\ f.destRev = Tree(c)[p]
  BY <1>2, Brought
<1>4. f.commit > b /\ f.commit < g.commit
  BY <1>1, <1>2, <1>3
<1>5. f \in Earlier(g, PerCommit)
  BY <1>2, <1>3, <1>4 DEF Earlier, Before
<1>6. PICK h \in PerCommit : h = Latest(Earlier(g, PerCommit)) /\ f.commit <= h.commit
  BY <1>1, <1>5, LatestIs
<1>7. h.commit \in Nat /\ f.commit \in Nat
  BY PerCommitNumbered
<1> QED
  BY <1>4, <1>5, <1>6, <1>7

(* The old side of a file of a range is what the base of the range had of  *)
(* it, but for a file that the range deletes and brings back and that no   *)
(* commit touched before: the latest ancestor up to the base is patched,   *)
(* or else the first that is kept apart is taken (get_base_filediff,       *)
(* get_filediff_revision).                                                 *)
THEOREM RangesStartAtBase ==
  ASSUME ~Unedited
  PROVE  Spec => []RangeStartsAtBase
<1>1. NumbersInv /\ KeptInv /\ DiffsInv => RangeStartsAtBase
  <2> SUFFICES ASSUME NumbersInv, KeptInv, DiffsInv,
                      NEW b \in 0..Posted, NEW t \in 0..Posted, b < t,
                      NEW f \in Shown(b, t), ~LostByDeletion(f, b)
               PROVE  OldSide(f, b) = AtBase(f, b)
    <3>1. \A r \in Ranges : \E b, t \in 0..Posted : r = <<b, t>> /\ b < t
      BY DEF Ranges
    <3> QED
      BY <3>1 DEF RangeStartsAtBase
  <2>1. Posted \in Nat /\ b \in Nat /\ f \in PerCommit /\ f.commit > b
    BY PerCommitNumbered, ShownMeans
  <2>2. PICK s, l : s = Ancestors(f, PerCommit) /\ l = LineOf(f)
    OBVIOUS
  <2>3. LineFacts(s, l, f)
    BY <2>1, <2>2, LineMeans
  <2>4. PICK n \in Nat : n = Len(s) /\ DOMAIN s = 1..n /\ DOMAIN l = 1..n + 1
                         /\ l[n + 1] = f
    BY <2>3 DEF LineFacts
  <2>5. PICK k \in 0..n : /\ k + 1 \in DOMAIN l /\ FirstAfter(f, b) = l[k + 1]
                          /\ l[k + 1].commit > b /\ UpTo(f, b) = 1..k
    BY <2>1, <2>2, <2>4, FirstAfterIs
  <2>6. PICK g \in PerCommit : g = l[k + 1] /\ g.commit > b /\ FirstAfter(f, b) = g
    BY <2>3, <2>5 DEF LineFacts
  <2>7. AtBase(f, b) = IF IsNew(g) THEN Absent ELSE Tree(b)[g.source]
    BY <2>6 DEF AtBase
  <2>8. CASE k # 0
    <3>1. k \in DOMAIN s /\ l[k] = s[k] /\ k \in DOMAIN l
      BY <2>3, <2>4, <2>8 DEF LineFacts
    <3>2. PICK h \in PerCommit : h = s[k]
      BY <2>3, <3>1 DEF LineFacts
    <3>3. Precedes(h, g)
      <4>1. PICK j : j = k + 1
        OBVIOUS
      <4>2. j \in DOMAIN l /\ j > 1 /\ j - 1 = k
        BY <2>5, <2>8, <4>1
      <4> QED
        BY <2>3, <2>6, <3>1, <3>2, <4>1, <4>2 DEF LineFacts
    <3>4. h.commit <= b
      <4>1. k \in UpTo(f, b)
        BY <2>5, <2>8
      <4> QED
        BY <2>2, <3>2, <4>1 DEF UpTo
    <3>5. OldSide(f, b) = Patched(h)
      <4>1. k \in UpTo(f, b) /\ \A j \in UpTo(f, b) : j <= k
        BY <2>5, <2>8
      <4>2. \A i \in UpTo(f, b) : (\A j \in UpTo(f, b) : j <= i) => i = k
        BY <2>5, <4>1
      <4>3. (CHOOSE i \in UpTo(f, b) : \A j \in UpTo(f, b) : j <= i) = k
        BY <4>1, <4>2
      <4>4. Base(f, b) = h
        BY <2>2, <3>2, <4>3 DEF Base
      <4> QED
        BY <4>1, <4>4 DEF OldSide
    <3>6. OldSide(f, b) = g.sourceRev
      BY <3>3, <3>5, PatchedIsDest DEF Precedes
    <3>7. CASE IsNew(g)
      BY <2>7, <3>6, <3>7 DEF IsNew
    <3>8. CASE ~IsNew(g)
      <4>1. g.sourceRev = Tree(b)[g.source]
        BY <2>1, <2>6, <3>3, <3>4, <3>8, StartsAtBase DEF Precedes
      <4> QED
        BY <2>7, <3>6, <3>8, <4>1
    <3> QED
      BY <3>7, <3>8
  <2>9. CASE k = 0
    <3>1. UpTo(f, b) = {} /\ g = l[1] /\ 1 \in DOMAIN l
      BY <2>5, <2>6, <2>9
    <3>2. Earlier(g, PerCommit) = {}
      BY <2>3, <3>1 DEF LineFacts
    <3>3. Minimal(f) = s
      <4>1. Split(s)[1] = <<>>
        BY <2>2, <3>1 DEF LostByDeletion
      <4>2. WellSplit(Split(s), s)
        BY <2>3, SplitWell DEF LineFacts
      <4>3. PICK cut \in 0..n :
              Split(s) = <<SubSeq(s, 1, cut), SubSeq(s, cut + 1, n)>>
        BY <2>3, <2>4, SplitIs DEF LineFacts
      <4>4. Split(s)[2] \in Seq(PerCommit)
        BY <2>3, <2>4, <4>3 DEF LineFacts
      <4>5. <<>> \o Split(s)[2] = s
        BY <4>1, <4>2 DEF WellSplit
      <4>6. Split(s)[2] = s
        BY <4>4, <4>5, ConcatEmptySeq
      <4> QED
        BY <2>2, <4>6 DEF Minimal
    <3>4. OldSide(f, b) = g.sourceRev
      <4>1. CASE s = <<>>
        <5>1. g = f
          BY <2>4, <3>1, <4>1
        <5> QED
          BY <3>1, <3>3, <4>1, <5>1, OriginalIsSource DEF OldSide
      <4>2. CASE s # <<>>
        <5>1. 1 \in DOMAIN s
          BY <2>3, <2>4, <4>2 DEF LineFacts
        <5>2. s[1] = g
          BY <2>3, <3>1, <5>1 DEF LineFacts
        <5> QED
          BY <3>1, <3>3, <4>2, <5>2, OriginalIsSource DEF OldSide
      <4> QED
        BY <4>1, <4>2
    <3>5. CASE IsNew(g)
      BY <2>7, <3>4, <3>5 DEF IsNew
    <3>6. CASE ~IsNew(g)
      <4>1. g.sourceRev = Tree(b)[g.source]
        BY <2>1, <2>6, <3>2, <3>6, StartsAtBase
      <4> QED
        BY <2>7, <3>4, <3>6, <4>1
    <3> QED
      BY <3>5, <3>6
  <2> QED
    BY <2>8, <2>9
<1> QED
  BY <1>1, SeriesAlways, PTL

(***************************************************************************)
(* The lines that a diff wrote, or that the differ finds modified.         *)
(***************************************************************************)

(* A set of lines of a file of n lines.                                    *)
LinesOf(S, n) == n \in 0..MaxLines /\ S \in SUBSET (0..n - 1)

(* A run of lines of S, as a range: from lo up to hi, which is not in it.  *)
IsRun(S, lo, hi) ==
  /\ lo \in Nat /\ hi \in Nat /\ lo < hi
  /\ lo..hi - 1 \subseteq S
  /\ lo - 1 \notin S /\ hi \notin S

(* RunEnd is the end of the run, or x when x is not in S.                  *)
LEMMA RunEndIs ==
  ASSUME NEW S, NEW n, LinesOf(S, n), NEW x \in 0..n
  PROVE  /\ RunEnd(S, x) \in x..n
         /\ x..RunEnd(S, x) - 1 \subseteq S
         /\ RunEnd(S, x) \notin S
         /\ x \in S => x < RunEnd(S, x)
<1> DEFINE R == {e \in x..n : e \notin S}
<1>1. R \in SUBSET Nat /\ n \in R
  BY DEF LinesOf
<1>2. PICK m \in R : \A e \in R : m <= e
  <2> HIDE DEF R
  <2> QED
    BY <1>1, Least
<1>3. m \in x..MaxLines /\ (\A y \in x..m - 1 : y \in S) /\ m \notin S
  BY <1>2, LinesAssumption DEF LinesOf
<1>4. /\ RunEnd(S, x) \in x..MaxLines
      /\ \A y \in x..RunEnd(S, x) - 1 : y \in S
      /\ RunEnd(S, x) \notin S
  BY <1>3 DEF RunEnd
<1>5. RunEnd(S, x) <= n
  <2>1. n \notin S /\ n \in Nat
    BY DEF LinesOf
  <2>2. ASSUME n < RunEnd(S, x) PROVE FALSE
    <3>1. n \in x..RunEnd(S, x) - 1
      BY <1>4, <2>1, <2>2, LinesAssumption
    <3> QED
      BY <1>4, <2>1, <3>1
  <2> QED
    BY <1>4, <2>1, <2>2, LinesAssumption
<1> QED
  BY <1>4, <1>5, LinesAssumption DEF LinesOf

(***************************************************************************)
(* The ranges that _get_interdiff_change_ranges() makes of them.           *)
(***************************************************************************)

(* Runs of S, in order.                                                    *)
Runs(s, S) ==
  /\ s \in Seq(Nat \X Nat)
  /\ \A r \in 1..Len(s) : IsRun(S, s[r][1], s[r][2])
  /\ \A r, t \in 1..Len(s) : r < t => s[r][2] <= s[t][1]

(* Line y is in one of the ranges.                                         *)
Covered(s, y) == \E r \in 1..Len(s) : s[r][1] <= y /\ y < s[r][2]

(* The ranges from line x on: those of every run that starts there.        *)
RangesFrom(s, S, x) ==
  /\ Runs(s, S)
  /\ \A r \in 1..Len(s) : x <= s[r][1]
  /\ \A z, y \in S : x <= z /\ z <= y /\ z - 1 \notin S /\ z..y \subseteq S => Covered(s, y)

LEMMA NoRanges ==
  ASSUME NEW S, NEW n, LinesOf(S, n)
  PROVE  RangesFrom(<<>>, S, MaxLines)
<1>1. <<>> \in Seq(Nat \X Nat) /\ Len(<<>>) = 0 /\ 1..0 = {}
  BY EmptySeq
<1>2. \A z \in S : ~(MaxLines <= z)
  BY LinesAssumption DEF LinesOf
<1> QED
  BY <1>1, <1>2 DEF RangesFrom, Runs

(* The step of the recursion: a run that starts at x comes first.          *)
LEMMA RangeFirst ==
  ASSUME NEW S, NEW n, LinesOf(S, n), NEW x \in Nat, x \in S, x - 1 \notin S,
         NEW t, RangesFrom(t, S, x + 1)
  PROVE  RangesFrom(<<<<x, RunEnd(S, x)>>>> \o t, S, x)
<1> DEFINE e == RunEnd(S, x)
           s == <<<<x, e>>>> \o t
<1>1. x \in 0..n
  BY DEF LinesOf
<1>2. e \in x..n /\ x..e - 1 \subseteq S /\ e \notin S /\ x < e /\ e \in Nat
  <2>1. e \in x..n /\ x..e - 1 \subseteq S /\ e \notin S /\ x < e
    BY <1>1, RunEndIs
  <2> HIDE DEF e
  <2>2. n \in Nat
    BY LinesAssumption DEF LinesOf
  <2> QED
    BY <2>1, <2>2
<1> HIDE DEF e
<1>3. IsRun(S, x, e)
  BY <1>2 DEF IsRun
<1>4. t \in Seq(Nat \X Nat)
  BY DEF RangesFrom, Runs
<1>5. Len(t) \in Nat /\ DOMAIN t = 1..Len(t) /\ \A r \in 1..Len(t) : t[r] \in Nat \X Nat
  BY <1>4
<1>6. s \in Seq(Nat \X Nat) /\ Len(s) = Len(t) + 1
  BY <1>2, <1>4
<1>7. s[1] = <<x, e>> /\ \A r \in 2..Len(s) : s[r] = t[r - 1]
  BY <1>2, <1>4, <1>5
<1> HIDE DEF s
<1>8. \A r \in 2..Len(s) : r - 1 \in 1..Len(t)
  BY <1>5, <1>6
<1>9. \A r \in 1..Len(t) : e <= t[r][1]
  <2> SUFFICES ASSUME NEW r \in 1..Len(t), t[r][1] < e PROVE FALSE
    BY <1>2, <1>5
  <2>1. PICK lo : lo = t[r][1]
    OBVIOUS
  <2>2. lo \in Nat /\ x + 1 <= lo /\ lo - 1 \notin S
    BY <2>1 DEF RangesFrom, Runs, IsRun
  <2>3. lo - 1 \in x..e - 1
    BY <1>2, <2>1, <2>2
  <2> QED
    BY <1>2, <2>2, <2>3
<1>10. \A r \in 1..Len(s) : IsRun(S, s[r][1], s[r][2]) /\ x <= s[r][1]
  <2> SUFFICES ASSUME NEW r \in 1..Len(s)
               PROVE  IsRun(S, s[r][1], s[r][2]) /\ x <= s[r][1]
    OBVIOUS
  <2>1. CASE r = 1
    BY <1>3, <1>7, <2>1
  <2>2. CASE r # 1
    <3>1. r \in 2..Len(s)
      BY <2>2
    <3>2. PICK q \in 1..Len(t) : s[r] = t[q]
      BY <1>7, <1>8, <3>1
    <3> QED
      BY <3>2 DEF RangesFrom, Runs, IsRun
  <2> QED
    BY <2>1, <2>2
<1>11. \A r, q \in 1..Len(s) : r < q => s[r][2] <= s[q][1]
  <2> SUFFICES ASSUME NEW r \in 1..Len(s), NEW q \in 1..Len(s), r < q
               PROVE  s[r][2] <= s[q][1]
    OBVIOUS
  <2>1. q \in 2..Len(s) /\ q - 1 \in 1..Len(t) /\ s[q] = t[q - 1]
    BY <1>7, <1>8
  <2>2. CASE r = 1
    BY <1>7, <1>9, <2>1, <2>2
  <2>3. CASE r # 1
    <3>1. r - 1 \in 1..Len(t) /\ s[r] = t[r - 1] /\ r - 1 < q - 1
      BY <1>7, <1>8, <2>3
    <3> QED
      BY <2>1, <3>1 DEF RangesFrom, Runs
  <2> QED
    BY <2>2, <2>3
<1>12. ASSUME NEW z \in S, NEW y \in S, x <= z, z <= y, z - 1 \notin S, z..y \subseteq S
       PROVE  Covered(s, y)
  <2>1. z \in Nat /\ y \in Nat
    BY DEF LinesOf
  <2>2. CASE z = x
    <3>1. y < e
      BY <1>2, <1>12, <2>1, <2>2
    <3>2. 1 \in 1..Len(s) /\ s[1][1] = x /\ s[1][2] = e
      BY <1>5, <1>6, <1>7
    <3> QED
      BY <1>12, <2>2, <3>1, <3>2 DEF Covered
  <2>3. CASE z # x
    <3>1. x + 1 <= z
      BY <1>12, <2>1, <2>3
    <3>2. Covered(t, y)
      BY <1>12, <3>1 DEF RangesFrom
    <3>3. PICK r \in 1..Len(t) : t[r][1] <= y /\ y < t[r][2]
      BY <3>2 DEF Covered
    <3>4. r + 1 \in 2..Len(s) /\ r + 1 \in 1..Len(s)
      BY <1>5, <1>6
    <3>5. s[r + 1] = t[r]
      BY <1>7, <3>4
    <3> QED
      BY <3>3, <3>4, <3>5 DEF Covered
  <2> QED
    BY <2>2, <2>3
<1> QED
  BY <1>6, <1>10, <1>11, <1>12 DEF RangesFrom, Runs, s, e

LEMMA RangeNone ==
  ASSUME NEW S, NEW n, LinesOf(S, n), NEW x \in Nat, ~(x \in S /\ x - 1 \notin S),
         NEW t, RangesFrom(t, S, x + 1)
  PROVE  RangesFrom(t, S, x)
<1>1. \A r \in 1..Len(t) : x <= t[r][1]
  <2> SUFFICES ASSUME NEW r \in 1..Len(t) PROVE x <= t[r][1]
    OBVIOUS
  <2>1. t[r][1] \in Nat /\ x + 1 <= t[r][1]
    BY DEF RangesFrom, Runs, IsRun
  <2> QED
    BY <2>1
<1>2. \A z \in S : x <= z /\ z - 1 \notin S => x + 1 <= z
  BY DEF LinesOf
<1> QED
  BY <1>1, <1>2 DEF RangesFrom

LEMMA ChangeRangesAre ==
  ASSUME NEW S, NEW n, LinesOf(S, n)
  PROVE  RangesFrom(ChangeRanges(S), S, 0)
<1> DEFINE D == 0..MaxLines
           E == 0..MaxLines - 1
           V == Seq(Nat \X Nat)
           Opens(x) == x \in S /\ x - 1 \notin S
           rank == [x \in D |-> MaxLines - x]
           par == [x \in E |-> x + 1]
           step == [x \in E |-> [s \in V |->
                      IF Opens(x) THEN <<<<x, RunEnd(S, x)>>>> \o s ELSE s]]
           base == [x \in D |-> <<>>]
           After == CHOOSE after : after = [x \in D |->
                      IF x = MaxLines THEN <<>>
                      ELSE IF x \in S /\ x - 1 \notin S
                      THEN <<<<x, RunEnd(S, x)>>>> \o after[x + 1]
                      ELSE after[x + 1]]
<1>1. MaxLines \in Nat /\ MaxLines + 1 \in Nat
  BY LinesAssumption
<1>2. rank \in [D -> Nat] /\ \A x \in D : rank[x] < MaxLines + 1
  BY <1>1
<1>3. E \in SUBSET D /\ par \in [E -> D] /\ \A x \in E : rank[par[x]] < rank[x]
  BY <1>1
<1>4. base \in [D -> V]
  BY EmptySeq
<1>5. step \in [E -> [V -> V]]
  <2>1. ASSUME NEW x \in E, NEW s \in V, Opens(x)
        PROVE  <<<<x, RunEnd(S, x)>>>> \o s \in V
    <3>1. n \in Nat /\ x \in 0..n /\ x \in Nat
      BY <1>1, <2>1 DEF LinesOf
    <3>2. RunEnd(S, x) \in Nat
      <4>1. RunEnd(S, x) \in x..n
        BY <3>1, RunEndIs
      <4> QED
        BY <3>1, <4>1
    <3> QED
      BY <3>1, <3>2
  <2>2. \A x \in E : \A s \in V :
          (IF Opens(x) THEN <<<<x, RunEnd(S, x)>>>> \o s ELSE s) \in V
    BY <2>1
  <2> HIDE DEF V, Opens
  <2> QED
    BY <2>2
<1>6. PICK h \in [D -> V] : Recursive(h, D, E, par, step, base)
  <2> HIDE DEF D, E, V, rank, par, step, base
  <2> QED
    BY <1>1, <1>2, <1>3, <1>4, <1>5, RecursionExists
<1>7. h = [x \in D |-> IF x = MaxLines THEN <<>>
                       ELSE IF x \in S /\ x - 1 \notin S
                       THEN <<<<x, RunEnd(S, x)>>>> \o h[x + 1]
                       ELSE h[x + 1]]
  <2>1. \A x \in D : h[x] = IF x \in E THEN step[x][h[par[x]]] ELSE base[x]
    BY <1>6 DEF Recursive
  <2>2. ASSUME NEW x \in D
        PROVE  h[x] = IF x = MaxLines THEN <<>>
                      ELSE IF x \in S /\ x - 1 \notin S
                      THEN <<<<x, RunEnd(S, x)>>>> \o h[x + 1]
                      ELSE h[x + 1]
    <3>1. CASE x = MaxLines
      <4>1. x \notin E /\ base[x] = <<>>
        BY <1>1, <3>1
      <4> QED
        BY <2>1, <3>1, <4>1
    <3>2. CASE x # MaxLines
      <4>1. x \in E /\ par[x] = x + 1 /\ x + 1 \in D
        BY <1>1, <3>2
      <4>2. h[x + 1] \in V
        BY <4>1
      <4>3. step[x][h[x + 1]] = IF Opens(x) THEN <<<<x, RunEnd(S, x)>>>> \o h[x + 1]
                                ELSE h[x + 1]
        BY <4>1, <4>2
      <4>4. h[x] = step[x][h[x + 1]]
        BY <2>1, <4>1
      <4> QED
        BY <3>2, <4>3, <4>4
    <3> QED
      BY <3>1, <3>2
  <2> HIDE DEF D
  <2> QED
    BY <2>2
<1>8. After = [x \in D |-> IF x = MaxLines THEN <<>>
                          ELSE IF x \in S /\ x - 1 \notin S
                          THEN <<<<x, RunEnd(S, x)>>>> \o After[x + 1]
                          ELSE After[x + 1]]
  BY <1>7
<1>9. \A x \in D : After[x] = IF x = MaxLines THEN <<>>
                              ELSE IF x \in S /\ x - 1 \notin S
                              THEN <<<<x, RunEnd(S, x)>>>> \o After[x + 1]
                              ELSE After[x + 1]
  BY <1>8
<1>10. ChangeRanges(S) = After[0]
  BY DEF ChangeRanges
<1> HIDE DEF After
<1> DEFINE Good == {x \in D : RangesFrom(After[x], S, x)}
<1>11. ASSUME NEW x \in D, \A y \in D : rank[y] < rank[x] => y \in Good
       PROVE  x \in Good
  <2>1. CASE x = MaxLines
    BY <1>9, <2>1, NoRanges
  <2>2. CASE x # MaxLines
    <3>1. x \in Nat /\ x + 1 \in D /\ rank[x + 1] < rank[x]
      BY <1>1, <2>2
    <3>2. RangesFrom(After[x + 1], S, x + 1)
      BY <1>11, <3>1
    <3>3. CASE Opens(x)
      <4>1. After[x] = <<<<x, RunEnd(S, x)>>>> \o After[x + 1]
        BY <1>9, <2>2, <3>3
      <4> QED
        BY <3>1, <3>2, <3>3, <4>1, RangeFirst
    <3>4. CASE ~Opens(x)
      <4>1. After[x] = After[x + 1]
        BY <1>9, <2>2, <3>4
      <4> QED
        BY <3>1, <3>2, <3>4, <4>1, RangeNone
    <3> QED
      BY <3>3, <3>4
  <2> QED
    BY <2>1, <2>2
<1>12. D \subseteq Good
  <2>1. \A x \in D : (\A y \in D : rank[y] < rank[x] => y \in Good) => x \in Good
    BY <1>11
  <2> HIDE DEF Good, rank, D
  <2> QED
    BY <1>2, <2>1, LeastRank
<1>13. 0 \in D
  BY <1>1
<1> QED
  BY <1>10, <1>12, <1>13

(* So they cover every line.                                               *)
LEMMA RangesCover ==
  ASSUME NEW S, NEW n, LinesOf(S, n), NEW s, RangesFrom(s, S, 0), NEW y \in S
  PROVE  Covered(s, y)
<1> DEFINE R == {z \in 0..y : z..y \subseteq S}
<1>1. y \in Nat
  BY DEF LinesOf
<1>2. R \in SUBSET Nat /\ y \in R
  BY <1>1
<1>3. PICK m \in R : \A z \in R : m <= z
  <2> HIDE DEF R
  <2> QED
    BY <1>2, Least
<1>4. m \in Nat /\ m <= y /\ m..y \subseteq S /\ m \in S
  BY <1>1, <1>3
<1>5. ASSUME m - 1 \in S PROVE FALSE
  <2>1. m - 1 \in Nat
    BY <1>5 DEF LinesOf
  <2>2. m - 1 \in 0..y /\ (m - 1)..y \subseteq S
    BY <1>1, <1>4, <1>5, <2>1
  <2>3. m <= m - 1
    BY <1>3, <2>2
  <2> QED
    BY <1>4, <2>3
<1> QED
  BY <1>4, <1>5 DEF RangesFrom

(***************************************************************************)
(* The opcodes of the differ.                                              *)
(***************************************************************************)

(* What the two files are, and what the differ and the diffs say of them.  *)
FilesOK(d) ==
  /\ LinesOf(d.aModified, d.aLen) /\ LinesOf(d.bModified, d.bLen)
  /\ LinesOf(d.aWritten, d.aLen) /\ LinesOf(d.bWritten, d.bLen)

(* The lines from line x on that the files share.                          *)
Shared(n, M, x) == (x..n - 1) \ M

(* Both files have as many of them left.                                   *)
Aligned(d, i, j) ==
  Cardinality(Shared(d.aLen, d.aModified, i)) = Cardinality(Shared(d.bLen, d.bModified, j))

LEMMA SharedSkips ==
  ASSUME NEW M, NEW n \in Nat, NEW x \in Nat, NEW y \in Nat, x <= y, x..y - 1 \subseteq M
  PROVE  Shared(n, M, x) = Shared(n, M, y)
<1>1. \A z \in x..n - 1 : z \notin M => z \in y..n - 1
  OBVIOUS
<1>2. \A z \in y..n - 1 : z \in x..n - 1
  OBVIOUS
<1> QED
  BY <1>1, <1>2 DEF Shared

LEMMA SharedIsFinite ==
  ASSUME NEW M, NEW n \in Nat, NEW x \in Nat
  PROVE  /\ IsFiniteSet(Shared(n, M, x))
         /\ Cardinality(Shared(n, M, x)) \in Nat
         /\ x <= n => Cardinality(Shared(n, M, x)) <= n - x
<1>1. /\ IsFiniteSet(x..n - 1)
      /\ Cardinality(x..n - 1) = IF x > n - 1 THEN 0 ELSE (n - 1) - x + 1
  BY FS_Interval
<1>2. Shared(n, M, x) \in SUBSET (x..n - 1)
  BY DEF Shared
<1>3. /\ IsFiniteSet(Shared(n, M, x))
      /\ Cardinality(Shared(n, M, x)) <= Cardinality(x..n - 1)
  BY <1>1, <1>2, FS_Subset
<1>4. Cardinality(Shared(n, M, x)) \in Nat
  BY <1>3, FS_CardinalityType
<1> QED
  BY <1>1, <1>3, <1>4

LEMMA DisjointUnion ==
  ASSUME NEW S, IsFiniteSet(S), NEW T, IsFiniteSet(T), S \cap T = {}
  PROVE  /\ Cardinality(S) \in Nat /\ Cardinality(T) \in Nat
         /\ Cardinality(S \cup T) = Cardinality(S) + Cardinality(T)
<1>1. Cardinality(S) \in Nat /\ Cardinality(T) \in Nat
  BY FS_CardinalityType
<1>2. PICK s, t : s = Cardinality(S) /\ t = Cardinality(T)
  OBVIOUS
<1>3. Cardinality(S \cap T) = 0
  BY FS_EmptySet
<1>4. Cardinality(S \cup T) =
        Cardinality(S) + Cardinality(T) - Cardinality(S \cap T)
  BY FS_Union
<1>5. Cardinality(S \cup T) = s + t - 0
  BY <1>2, <1>3, <1>4
<1>6. s \in Nat /\ t \in Nat
  BY <1>1, <1>2
<1>7. s + t - 0 = s + t
  BY <1>6
<1> QED
  BY <1>1, <1>2, <1>5, <1>7

LEMMA SharedTakes ==
  ASSUME NEW M, NEW n \in Nat, NEW x \in Nat, NEW y \in Nat, x <= y, y <= n,
         \A z \in x..y - 1 : z \notin M
  PROVE  Cardinality(Shared(n, M, x)) = (y - x) + Cardinality(Shared(n, M, y))
<1> DEFINE F == x..y - 1
           R == Shared(n, M, y)
<1>1. IsFiniteSet(F) /\ Cardinality(F) = y - x
  <2>1. /\ IsFiniteSet(F)
        /\ Cardinality(F) = IF x > y - 1 THEN 0 ELSE (y - 1) - x + 1
    BY FS_Interval
  <2> QED
    BY <2>1
<1>2. IsFiniteSet(R) /\ Cardinality(R) \in Nat
  BY SharedIsFinite
<1>3. F \cap R = {} /\ Shared(n, M, x) = F \cup R
  BY DEF Shared
<1>4. Cardinality(F \cup R) = Cardinality(F) + Cardinality(R)
  <2> HIDE DEF F, R
  <2> QED
    BY <1>1, <1>2, <1>3, DisjointUnion
<1> QED
  BY <1>1, <1>3, <1>4

LEMMA AlignedAtStart ==
  ASSUME NEW a \in 0..MaxLines, NEW b \in 0..MaxLines, NEW d \in Inputs(a, b)
  PROVE  FilesOK(d) /\ d.aLen = a /\ d.bLen = b /\ Aligned(d, 0, 0)
<1>1. FilesOK(d) /\ d.aLen = a /\ d.bLen = b
  BY DEF Inputs, FilesOK, LinesOf
<1>2. a \in Nat /\ b \in Nat
  BY LinesAssumption
<1>3. ASSUME NEW n \in Nat, NEW M \in SUBSET (0..n - 1)
      PROVE  Cardinality(M) \in Nat /\ Cardinality(Shared(n, M, 0)) = n - Cardinality(M)
  <2>1. IsFiniteSet(0..n - 1) /\ Cardinality(0..n - 1) = n
    <3>1. /\ IsFiniteSet(0..n - 1)
          /\ Cardinality(0..n - 1) = IF 0 > n - 1 THEN 0 ELSE (n - 1) - 0 + 1
      BY FS_Interval
    <3> QED
      BY <3>1
  <2>2. IsFiniteSet(M) /\ Cardinality(M) \in Nat
    BY <2>1, FS_Subset, FS_CardinalityType
  <2>3. IsFiniteSet(Shared(n, M, 0)) /\ Cardinality(Shared(n, M, 0)) \in Nat
    BY SharedIsFinite
  <2>4. M \cap Shared(n, M, 0) = {} /\ M \cup Shared(n, M, 0) = 0..n - 1
    BY DEF Shared
  <2>5. Cardinality(M \cup Shared(n, M, 0)) =
          Cardinality(M) + Cardinality(Shared(n, M, 0))
    BY <2>2, <2>3, <2>4, DisjointUnion
  <2>6. PICK s, t : s = Cardinality(M) /\ t = Cardinality(Shared(n, M, 0))
    OBVIOUS
  <2>7. n = s + t /\ s \in Nat /\ t \in Nat
    BY <2>1, <2>2, <2>3, <2>4, <2>5, <2>6
  <2>8. t = n - s
    BY <2>7
  <2> QED
    BY <2>2, <2>6, <2>8
<1>4. d.aModified \in SUBSET (0..a - 1) /\ d.bModified \in SUBSET (0..b - 1)
      /\ a - Cardinality(d.aModified) = b - Cardinality(d.bModified)
  BY DEF Inputs
<1> QED
  BY <1>1, <1>2, <1>3, <1>4 DEF Aligned

Tags == {"equal", "replace", "delete", "insert"}

(* The lines of an opcode that both files have.                            *)
Unmodified(d, op) ==
  /\ \A y \in op.i1..op.i2 - 1 : y \notin d.aModified
  /\ \A y \in op.j1..op.j2 - 1 : y \notin d.bModified

OpFits(d, op) ==
  /\ op \in [tag : Tags, i1 : Nat, i2 : Nat, j1 : Nat, j2 : Nat]
  /\ op.i1 <= op.i2 /\ op.i2 <= d.aLen
  /\ op.j1 <= op.j2 /\ op.j2 <= d.bLen
  /\ op.i1 < op.i2 \/ op.j1 < op.j2
  /\ op.tag \in {"equal", "replace"} => op.i2 - op.i1 = op.j2 - op.j1
  /\ op.tag = "equal" => Unmodified(d, op)
  /\ op.tag = "delete" => op.j1 = op.j2
  /\ op.tag = "insert" => op.i1 = op.i2

(* The opcode of get_opcodes() at a place.                                 *)
OpcodeFits(d, i, j) ==
  LET op == OpcodeAt(d, i, j) IN
  /\ OpFits(d, op)
  /\ op.i1 = i /\ op.j1 = j
  /\ Aligned(d, op.i2, op.j2)

(* The length of an equal.                                                 *)
SameFrom(d, i, j) ==
  CHOOSE n \in 1..MaxLines + 1 :
    /\ \A k \in 0..n - 1 : /\ i + k < d.aLen
                           /\ i + k \notin d.aModified
                           /\ j + k \notin d.bModified
    /\ \/ i + n = d.aLen
       \/ i + n \in d.aModified
       \/ j + n \in d.bModified

LEMMA SameIs ==
  ASSUME NEW d, FilesOK(d), NEW i \in 0..d.aLen, NEW j \in 0..d.bLen,
         i < d.aLen, i \notin d.aModified, j \notin d.bModified
  PROVE  LET n == SameFrom(d, i, j) IN
         n \in Nat /\ n > 0 /\ i + n <= d.aLen
         /\ (\A y \in i..i + n - 1 : y \notin d.aModified)
         /\ (\A y \in j..j + n - 1 : y \notin d.bModified)
<1> DEFINE Ends(n) == \/ i + n = d.aLen
                     \/ i + n \in d.aModified
                     \/ j + n \in d.bModified
           R == {n \in 1..d.aLen - i : Ends(n)}
<1>1. d.aLen \in Nat /\ d.bLen \in Nat /\ d.aLen <= MaxLines /\ MaxLines \in Nat
      /\ i \in Nat /\ j \in Nat
  BY LinesAssumption DEF FilesOK, LinesOf
<1>2. R \in SUBSET Nat /\ d.aLen - i \in R
  BY <1>1
<1>3. PICK m \in R : \A e \in R : m <= e
  <2> HIDE DEF R
  <2> QED
    BY <1>2, Least
<1>4. m \in 1..MaxLines + 1 /\ m \in Nat /\ i + m <= d.aLen /\ Ends(m)
  BY <1>1, <1>3
<1>5. ASSUME NEW k \in 0..m - 1
      PROVE  i + k < d.aLen /\ i + k \notin d.aModified /\ j + k \notin d.bModified
  <2>1. i + k < d.aLen
    BY <1>1, <1>4
  <2>2. CASE k = 0
    BY <1>1, <2>1, <2>2
  <2>3. CASE k # 0
    <3>1. k \in 1..d.aLen - i /\ k < m
      BY <1>1, <1>4, <2>3
    <3>2. ~Ends(k)
      BY <1>3, <3>1
    <3> QED
      BY <2>1, <3>2
  <2> QED
    BY <2>2, <2>3
<1> DEFINE n == SameFrom(d, i, j)
<1>6. /\ n \in 1..MaxLines + 1
      /\ \A k \in 0..n - 1 : /\ i + k < d.aLen
                             /\ i + k \notin d.aModified
                             /\ j + k \notin d.bModified
  <2>1. \E l \in 1..MaxLines + 1 :
          /\ \A k \in 0..l - 1 : /\ i + k < d.aLen
                                 /\ i + k \notin d.aModified
                                 /\ j + k \notin d.bModified
          /\ Ends(l)
    BY <1>4, <1>5
  <2> QED
    BY <2>1 DEF SameFrom
<1> HIDE DEF n
<1>7. n \in Nat /\ n > 0 /\ n - 1 \in 0..n - 1
  BY <1>1, <1>6
<1>8. i + (n - 1) < d.aLen
  BY <1>6, <1>7
<1>9. ASSUME NEW y \in i..i + n - 1 PROVE y \notin d.aModified
  <2>1. y - i \in 0..n - 1 /\ i + (y - i) = y
    BY <1>1, <1>7
  <2> QED
    BY <1>6, <2>1
<1>10. ASSUME NEW y \in j..j + n - 1 PROVE y \notin d.bModified
  <2>1. y - j \in 0..n - 1 /\ j + (y - j) = y
    BY <1>1, <1>7
  <2> QED
    BY <1>6, <2>1
<1>11. i + n <= d.aLen
  BY <1>1, <1>7, <1>8
<1> QED
  BY <1>7, <1>9, <1>10, <1>11 DEF n

LEMMA OpcodeAtFits ==
  ASSUME NEW d, FilesOK(d), NEW i \in 0..d.aLen, NEW j \in 0..d.bLen,
         ~(i = d.aLen /\ j = d.bLen), Aligned(d, i, j)
  PROVE  OpcodeFits(d, i, j)
<1> DEFINE M == d.aModified
           W == d.bModified
           ie == RunEnd(M, i)
           je == RunEnd(W, j)
           a == ie - i
           b == je - j
           n == SameFrom(d, i, j)
           op == OpcodeAt(d, i, j)
<1>1. d.aLen \in Nat /\ d.bLen \in Nat /\ i \in Nat /\ j \in Nat
      /\ i <= d.aLen /\ j <= d.bLen
  BY LinesAssumption DEF FilesOK, LinesOf
<1>2. ie \in i..d.aLen /\ i..ie - 1 \subseteq M /\ ie \notin M /\ (i \in M => i < ie)
  BY RunEndIs DEF FilesOK
<1>3. je \in j..d.bLen /\ j..je - 1 \subseteq W /\ je \notin W /\ (j \in W => j < je)
  BY RunEndIs DEF FilesOK
<1>4. op = IF a > 0 /\ b > 0
           THEN Op("replace", i, i + Smaller(a, b), j, j + Smaller(a, b))
           ELSE IF a > 0 THEN Op("delete", i, i + a, j, j)
           ELSE IF b > 0 THEN Op("insert", i, i, j, j + b)
           ELSE Op("equal", i, i + n, j, j + n)
  BY DEF OpcodeAt, SameFrom
<1> HIDE DEF ie, je, n, op
<1>5. a \in Nat /\ b \in Nat /\ i + a = ie /\ j + b = je
      /\ ie \in Nat /\ je \in Nat /\ ie <= d.aLen /\ je <= d.bLen
  BY <1>1, <1>2, <1>3
<1>6. CASE a > 0 /\ b > 0
  <2>1. PICK m : m = Smaller(a, b)
    OBVIOUS
  <2>2. m \in Nat /\ m > 0 /\ m <= a /\ m <= b
    <3> HIDE DEF a, b
    <3> QED
      BY <1>5, <1>6, <2>1 DEF Smaller
  <2>3. op = Op("replace", i, i + m, j, j + m)
    BY <1>4, <1>6, <2>1
  <2>4. i + m \in Nat /\ j + m \in Nat /\ i <= i + m /\ j <= j + m
        /\ i + m <= ie /\ j + m <= je
    BY <1>1, <1>5, <2>2
  <2>5. i..i + m - 1 \subseteq M /\ j..j + m - 1 \subseteq W
    BY <1>1, <1>2, <1>3, <1>5, <2>2, <2>4
  <2>6. PICK k, l : k = i + m /\ l = j + m
    OBVIOUS
  <2>7. k \in Nat /\ l \in Nat /\ i <= k /\ j <= l /\ k - 1 = i + m - 1 /\ l - 1 = j + m - 1
    BY <1>1, <2>2, <2>4, <2>6
  <2>9. Shared(d.aLen, M, i) = Shared(d.aLen, M, k)
    BY <1>1, <2>5, <2>7, SharedSkips
  <2>10. Shared(d.bLen, W, j) = Shared(d.bLen, W, l)
    BY <1>1, <2>5, <2>7, SharedSkips
  <2>11. Aligned(d, i + m, j + m)
    BY <2>6, <2>9, <2>10 DEF Aligned
  <2>8. OpFits(d, op)
    BY <1>1, <1>5, <2>2, <2>3, <2>4 DEF OpFits, Op, Tags
  <2> QED
    BY <2>3, <2>8, <2>11 DEF OpcodeFits, Op, op
<1>7. CASE a > 0 /\ ~(b > 0)
  <2>1. op = Op("delete", i, ie, j, j)
    BY <1>4, <1>5, <1>7
  <2>2. Shared(d.aLen, M, i) = Shared(d.aLen, M, ie)
    BY <1>1, <1>2, <1>5, SharedSkips
  <2>3. Aligned(d, ie, j)
    BY <2>2 DEF Aligned
  <2>4. i < ie
    BY <1>1, <1>5, <1>7
  <2>5. OpFits(d, op)
    BY <1>1, <1>5, <2>1, <2>4 DEF OpFits, Op, Tags
  <2> QED
    BY <2>1, <2>3, <2>5 DEF OpcodeFits, Op, op
<1>8. CASE ~(a > 0) /\ b > 0
  <2>1. op = Op("insert", i, i, j, je)
    BY <1>4, <1>5, <1>8
  <2>2. Shared(d.bLen, W, j) = Shared(d.bLen, W, je)
    BY <1>1, <1>3, <1>5, SharedSkips
  <2>3. Aligned(d, i, je)
    BY <2>2 DEF Aligned
  <2>4. j < je
    BY <1>1, <1>5, <1>8
  <2>5. OpFits(d, op)
    BY <1>1, <1>5, <2>1, <2>4 DEF OpFits, Op, Tags
  <2> QED
    BY <2>1, <2>3, <2>5 DEF OpcodeFits, Op, op
<1>9. CASE ~(a > 0) /\ ~(b > 0)
  <2>1. i \notin M /\ j \notin W
    <3> HIDE DEF M, W
    <3>1. ie = i /\ je = j
      BY <1>1, <1>5, <1>9
    <3> QED
      BY <1>2, <1>3, <3>1
  <2>2. i < d.aLen
    <3> SUFFICES ASSUME i = d.aLen PROVE FALSE
      BY <1>1
    <3>1. Cardinality(Shared(d.aLen, M, i)) = 0
      <4>1. Shared(d.aLen, M, i) = {}
        BY <1>1 DEF Shared
      <4> QED
        BY <4>1, FS_EmptySet
    <3>2. IsFiniteSet(Shared(d.bLen, W, j)) /\ Cardinality(Shared(d.bLen, W, j)) = 0
      BY <1>1, <3>1, SharedIsFinite DEF Aligned
    <3>3. Shared(d.bLen, W, j) = {}
      BY <3>2, FS_EmptySet
    <3>4. j \in Shared(d.bLen, W, j)
      BY <1>1, <2>1 DEF Shared
    <3> QED
      BY <3>3, <3>4
  <2>3. n \in Nat /\ n > 0 /\ i + n <= d.aLen
        /\ (\A y \in i..i + n - 1 : y \notin M)
        /\ (\A y \in j..j + n - 1 : y \notin W)
    BY <2>1, <2>2, SameIs DEF n
  <2>4. PICK m : m = i + n
    OBVIOUS
  <2>5. m \in Nat /\ i <= m /\ m <= d.aLen /\ m - i = n
    BY <1>1, <2>3, <2>4
  <2>6. Cardinality(Shared(d.aLen, M, i)) = n + Cardinality(Shared(d.aLen, M, m))
        /\ Cardinality(Shared(d.aLen, M, m)) \in Nat
    <3> HIDE DEF M
    <3>1. \A y \in i..m - 1 : y \notin M
      BY <2>3, <2>4
    <3>2. Cardinality(Shared(d.aLen, M, i)) = (m - i) + Cardinality(Shared(d.aLen, M, m))
      <4>1. d.aLen \in Nat /\ i \in Nat /\ m \in Nat /\ i <= m /\ m <= d.aLen
        BY <1>1, <2>5
      <4> QED
        BY ONLY <4>1, <3>1, SharedTakes
    <3>3. Cardinality(Shared(d.aLen, M, m)) \in Nat
      BY <1>1, <2>5, SharedIsFinite
    <3> QED
      BY <2>5, <3>2, <3>3
  <2>7. j + n <= d.bLen
    <3>1. Cardinality(Shared(d.bLen, W, j)) <= d.bLen - j
          /\ Cardinality(Shared(d.bLen, W, j)) \in Nat
      BY <1>1, SharedIsFinite
    <3>2. n <= Cardinality(Shared(d.aLen, M, i))
      BY <2>3, <2>6
    <3> QED
      BY <1>1, <2>3, <3>1, <3>2 DEF Aligned
  <2>8. PICK l : l = j + n
    OBVIOUS
  <2>9. l \in Nat /\ j <= l /\ l <= d.bLen /\ l - j = n
    BY <1>1, <2>3, <2>7, <2>8
  <2>10. Cardinality(Shared(d.bLen, W, j)) = n + Cardinality(Shared(d.bLen, W, l))
         /\ Cardinality(Shared(d.bLen, W, l)) \in Nat
    <3> HIDE DEF W
    <3>1. \A y \in j..l - 1 : y \notin W
      BY <2>3, <2>8
    <3>2. Cardinality(Shared(d.bLen, W, j)) = (l - j) + Cardinality(Shared(d.bLen, W, l))
      <4>1. d.bLen \in Nat /\ j \in Nat /\ l \in Nat /\ j <= l /\ l <= d.bLen
        BY <1>1, <2>9
      <4> QED
        BY ONLY <4>1, <3>1, SharedTakes
    <3>3. Cardinality(Shared(d.bLen, W, l)) \in Nat
      BY <1>1, <2>9, SharedIsFinite
    <3> QED
      BY <2>9, <3>2, <3>3
  <2>11. Aligned(d, m, l)
    <3>1. PICK s, t : s = Cardinality(Shared(d.aLen, M, m)) /\ t = Cardinality(Shared(d.bLen, W, l))
      OBVIOUS
    <3>2. n + s = n + t
      BY <2>6, <2>10, <3>1 DEF Aligned
    <3>3. s \in Nat /\ t \in Nat
      BY <2>6, <2>10, <3>1
    <3>4. s = t
      BY <2>3, <3>2, <3>3
    <3> QED
      BY <3>1, <3>4 DEF Aligned
  <2>12. op = Op("equal", i, m, j, l)
    BY <1>4, <1>9, <2>4, <2>8
  <2>13. OpFits(d, op)
    BY <1>1, <2>3, <2>4, <2>5, <2>8, <2>9, <2>12 DEF OpFits, Op, Tags, Unmodified
  <2> QED
    BY <2>11, <2>12, <2>13 DEF OpcodeFits, Op, op
<1> QED
  BY <1>6, <1>7, <1>8, <1>9

(***************************************************************************)
(* Sequences of opcodes.                                                   *)
(***************************************************************************)

Ops == [tag : Tags \cup {"filtered-equal"}, i1 : Nat, i2 : Nat, j1 : Nat, j2 : Nat]

Adjacent(s) ==
  \A k \in 1..Len(s) : \A l \in 1..Len(s) :
    l = k + 1 => s[k].i2 = s[l].i1 /\ s[k].j2 = s[l].j1

(* The opcodes of s cover the lines from a and b to c and e, in order.     *)
Path(s, a, b, c, e) ==
  /\ s \in Seq(Ops)
  /\ s = <<>> => a = c /\ b = e
  /\ s # <<>> => /\ s[1].i1 = a /\ s[1].j1 = b
                 /\ s[Len(s)].i2 = c /\ s[Len(s)].j2 = e
  /\ Adjacent(s)

AllFit(d, s) == \A k \in 1..Len(s) : OpFits(d, s[k])

LEMMA NoPath == \A a, b : Path(<<>>, a, b, a, b)
<1>1. <<>> \in Seq(Ops) /\ Len(<<>>) = 0 /\ 1..0 = {}
  BY EmptySeq
<1> QED
  BY <1>1 DEF Path, Adjacent

LEMMA PathOne ==
  ASSUME NEW op \in Ops
  PROVE  Path(<<op>>, op.i1, op.j1, op.i2, op.j2)
<1>1. <<op>> \in Seq(Ops) /\ Len(<<op>>) = 1 /\ <<op>>[1] = op /\ <<op>> # <<>>
  OBVIOUS
<1>2. \A k, l \in 1..1 : l # k + 1
  OBVIOUS
<1> QED
  BY <1>1, <1>2 DEF Path, Adjacent

LEMMA PathJoin ==
  ASSUME NEW s, NEW t, NEW a, NEW b, NEW c, NEW e, NEW f, NEW g,
         Path(s, a, b, c, e), Path(t, c, e, f, g)
  PROVE  Path(s \o t, a, b, f, g)
<1> DEFINE all == s \o t
<1>1. s \in Seq(Ops) /\ t \in Seq(Ops)
  BY DEF Path
<1>2. all \in Seq(Ops) /\ Len(all) = Len(s) + Len(t) /\ Len(s) \in Nat /\ Len(t) \in Nat
  BY <1>1
<1>3. /\ \A k \in 1..Len(s) : all[k] = s[k]
      /\ \A k \in 1..Len(t) : all[Len(s) + k] = t[k]
  <2>1. \A k \in 1..Len(s) + Len(t) :
          all[k] = IF k <= Len(s) THEN s[k] ELSE t[k - Len(s)]
    BY <1>1
  <2>2. \A k \in 1..Len(s) : k \in 1..Len(s) + Len(t) /\ k <= Len(s)
    BY <1>2
  <2>3. ASSUME NEW k \in 1..Len(t) PROVE all[Len(s) + k] = t[k]
    <3>1. PICK l : l = Len(s) + k
      OBVIOUS
    <3>2. l \in 1..Len(s) + Len(t) /\ ~(l <= Len(s)) /\ l - Len(s) = k
      BY <1>2, <3>1
    <3>3. all[l] = t[l - Len(s)]
      BY <2>1, <3>2
    <3> QED
      BY <3>1, <3>2, <3>3
  <2> QED
    BY <2>1, <2>2, <2>3
<1>4. CASE s = <<>>
  <2>1. all = t
    BY <1>1, <1>4
  <2> QED
    BY <1>4, <2>1 DEF Path
<1>5. CASE t = <<>>
  <2>1. all = s
    BY <1>1, <1>5
  <2> QED
    BY <1>5, <2>1 DEF Path
<1>6. CASE s # <<>> /\ t # <<>>
  <2>1. Len(s) > 0 /\ Len(t) > 0
    BY <1>1, <1>6
  <2>2. all[1] = s[1] /\ all[Len(s)] = s[Len(s)] /\ all[Len(s) + 1] = t[1]
        /\ all[Len(all)] = t[Len(t)] /\ all # <<>>
    BY <1>2, <1>3, <2>1
  <2>3. s[1].i1 = a /\ s[1].j1 = b /\ s[Len(s)].i2 = c /\ s[Len(s)].j2 = e
        /\ t[1].i1 = c /\ t[1].j1 = e /\ t[Len(t)].i2 = f /\ t[Len(t)].j2 = g
    BY <1>6 DEF Path
  <2> HIDE DEF all
  <2>4. ASSUME NEW k \in 1..Len(all), NEW l \in 1..Len(all), l = k + 1
        PROVE  all[k].i2 = all[l].i1 /\ all[k].j2 = all[l].j1
    <3>1. CASE l <= Len(s)
      <4>1. k \in 1..Len(s) /\ l \in 1..Len(s)
        BY <1>2, <2>4, <3>1
      <4> QED
        BY <1>3, <2>4, <4>1 DEF Path, Adjacent
    <3>2. CASE k = Len(s)
      <4>1. l = Len(s) + 1
        BY <2>4, <3>2
      <4> QED
        BY <2>2, <2>3, <3>2, <4>1
    <3>3. CASE k > Len(s)
      <4>1. PICK m, n : m = k - Len(s) /\ n = l - Len(s)
        OBVIOUS
      <4>2. m \in 1..Len(t) /\ n \in 1..Len(t) /\ n = m + 1
            /\ k = Len(s) + m /\ l = Len(s) + n
        BY <1>2, <2>4, <3>3, <4>1
      <4>3. all[k] = t[m] /\ all[l] = t[n]
        BY <1>3, <4>2
      <4>4. t[m].i2 = t[n].i1 /\ t[m].j2 = t[n].j1
        BY <4>2 DEF Path, Adjacent
      <4> QED
        BY <4>3, <4>4
    <3> QED
      BY <1>2, <2>4, <3>1, <3>2, <3>3
  <2>5. Adjacent(all)
    BY <2>4 DEF Adjacent
  <2>6. Path(all, a, b, f, g)
    BY <1>2, <2>2, <2>3, <2>5 DEF Path
  <2> QED
    BY <2>6 DEF all
<1> QED
  BY <1>4, <1>5, <1>6

LEMMA PathTail ==
  ASSUME NEW s, NEW a, NEW b, NEW c, NEW e, Path(s, a, b, c, e), s # <<>>
  PROVE  /\ s[1] \in Ops /\ s[1].i1 = a /\ s[1].j1 = b
         /\ Path(Tail(s), s[1].i2, s[1].j2, c, e)
<1> DEFINE t == Tail(s)
<1>1. s \in Seq(Ops) /\ Len(s) \in Nat /\ Len(s) > 0
  BY DEF Path
<1>2. s[1] \in Ops
  BY <1>1
<1>3. t \in Seq(Ops) /\ Len(t) = Len(s) - 1
  BY <1>1
<1>4. \A k \in 1..Len(t) : t[k] = s[k + 1]
  BY <1>1
<1>5. s[1].i1 = a /\ s[1].j1 = b /\ s[Len(s)].i2 = c /\ s[Len(s)].j2 = e
  BY DEF Path
<1>6. CASE t = <<>>
  <2>1. Len(s) = 1
    BY <1>1, <1>3, <1>6
  <2>2. s[1].i2 = c /\ s[1].j2 = e
    BY <1>5, <2>1
  <2> QED
    BY <1>2, <1>5, <1>6, <2>2, NoPath
<1>7. CASE t # <<>>
  <2> HIDE DEF t
  <2>1. Len(t) \in Nat /\ Len(t) > 0 /\ Len(s) = Len(t) + 1
    BY <1>1, <1>3, <1>7
  <2>2. t[Len(t)] = s[Len(s)] /\ t[1] = s[1 + 1]
    BY <1>4, <2>1
  <2>3. 1 \in 1..Len(s) /\ 1 + 1 \in 1..Len(s)
    BY <1>1, <2>1
  <2>4. s[1].i2 = t[1].i1 /\ s[1].j2 = t[1].j1
    BY <2>2, <2>3 DEF Path, Adjacent
  <2>5. ASSUME NEW k \in 1..Len(t), NEW l \in 1..Len(t), l = k + 1
        PROVE  t[k].i2 = t[l].i1 /\ t[k].j2 = t[l].j1
    <3>1. PICK m, n : m = k + 1 /\ n = l + 1
      OBVIOUS
    <3>2. m \in 1..Len(s) /\ n \in 1..Len(s) /\ n = m + 1
      BY <2>1, <2>5, <3>1
    <3>3. t[k] = s[m] /\ t[l] = s[n]
      BY <1>4, <3>1
    <3> QED
      BY <3>2, <3>3 DEF Path, Adjacent
  <2>6. Adjacent(t)
    BY <2>5 DEF Adjacent
  <2>7. Path(t, s[1].i2, s[1].j2, c, e)
    BY <1>3, <1>5, <1>7, <2>2, <2>4, <2>6 DEF Path
  <2> QED
    BY <1>2, <1>5, <2>7 DEF t
<1> QED
  BY <1>6, <1>7

LEMMA AllFitJoin ==
  ASSUME NEW d, NEW s, NEW t, s \in Seq(Ops), t \in Seq(Ops), AllFit(d, s), AllFit(d, t)
  PROVE  AllFit(d, s \o t)
<1>1. Len(s) \in Nat /\ Len(t) \in Nat /\ Len(s \o t) = Len(s) + Len(t)
  OBVIOUS
<1>2. SUFFICES ASSUME NEW k \in 1..Len(s) + Len(t) PROVE OpFits(d, (s \o t)[k])
  BY <1>1 DEF AllFit
<1>3. (s \o t)[k] = IF k <= Len(s) THEN s[k] ELSE t[k - Len(s)]
  OBVIOUS
<1>4. k <= Len(s) => k \in 1..Len(s)
  OBVIOUS
<1>5. ~(k <= Len(s)) => k - Len(s) \in 1..Len(t)
  BY <1>1
<1> QED
  BY <1>3, <1>4, <1>5 DEF AllFit

(* Where the opcodes so far end.                                           *)
EndI(s) == IF s = <<>> THEN 0 ELSE s[Len(s)].i2
EndJ(s) == IF s = <<>> THEN 0 ELSE s[Len(s)].j2

Prefix(d, s) ==
  /\ Path(s, 0, 0, EndI(s), EndJ(s))
  /\ AllFit(d, s)
  /\ EndI(s) \in 0..d.aLen /\ EndJ(s) \in 0..d.bLen
  /\ Aligned(d, EndI(s), EndJ(s))

LEMMA PrefixGrows ==
  ASSUME NEW d, FilesOK(d), NEW s, Prefix(d, s), ~(EndI(s) = d.aLen /\ EndJ(s) = d.bLen)
  PROVE  LET t == Append(s, OpcodeAt(d, EndI(s), EndJ(s))) IN
         Prefix(d, t) /\ EndI(t) + EndJ(t) > EndI(s) + EndJ(s)
<1> DEFINE op == OpcodeAt(d, EndI(s), EndJ(s))
           t == Append(s, op)
<1>1. OpFits(d, op) /\ op.i1 = EndI(s) /\ op.j1 = EndJ(s) /\ Aligned(d, op.i2, op.j2)
  BY OpcodeAtFits DEF OpcodeFits, Prefix
<1> HIDE DEF op
<1>2. op \in Ops
  BY <1>1 DEF OpFits, Ops
<1>3. Path(<<op>>, EndI(s), EndJ(s), op.i2, op.j2)
  BY <1>1, <1>2, PathOne
<1>4. Path(s \o <<op>>, 0, 0, op.i2, op.j2)
  BY <1>3, PathJoin DEF Prefix
<1>5. s \in Seq(Ops) /\ <<op>> \in Seq(Ops)
  BY <1>2 DEF Prefix, Path
<1>6. s \o <<op>> = t /\ t # <<>> /\ t[Len(t)] = op
  BY <1>2, <1>5
<1>7. AllFit(d, <<op>>)
  BY <1>1 DEF AllFit
<1>8. AllFit(d, t)
  BY <1>5, <1>6, <1>7, AllFitJoin DEF Prefix
<1>9. EndI(t) = op.i2 /\ EndJ(t) = op.j2
  BY <1>6 DEF EndI, EndJ
<1>10. op.i2 \in 0..d.aLen /\ op.j2 \in 0..d.bLen /\ op.i2 + op.j2 > EndI(s) + EndJ(s)
  BY <1>1, LinesAssumption DEF OpFits, FilesOK, LinesOf
<1> QED
  <2>1. Prefix(d, t)
    BY <1>1, <1>4, <1>6, <1>8, <1>9, <1>10 DEF Prefix
  <2> QED
    BY <1>9, <1>10, <2>1 DEF op

LEMMA OpcodesAre ==
  ASSUME NEW d, FilesOK(d), Aligned(d, 0, 0)
  PROVE  /\ Path(Opcodes(d), 0, 0, d.aLen, d.bLen)
         /\ AllFit(d, Opcodes(d))
<1> DEFINE K == 2 * MaxLines
           D == 0..K
           E == 1..K
           V == {s \in Seq(Ops) : Prefix(d, s)}
           Ended(s) == EndI(s) = d.aLen /\ EndJ(s) = d.bLen
           Longer(s) == IF Ended(s) THEN s ELSE Append(s, OpcodeAt(d, EndI(s), EndJ(s)))
           rank == [n \in D |-> n]
           par == [n \in E |-> n - 1]
           step == [n \in E |-> [s \in V |-> Longer(s)]]
           base == [n \in D |-> <<>>]
           F == CHOOSE from : from = [n \in D |->
                  IF n = 0 THEN <<>>
                  ELSE IF EndI(from[n - 1]) = d.aLen /\ EndJ(from[n - 1]) = d.bLen
                       THEN from[n - 1]
                       ELSE Append(from[n - 1],
                                   OpcodeAt(d, EndI(from[n - 1]), EndJ(from[n - 1])))]
<1>1. K \in Nat /\ K + 1 \in Nat /\ MaxLines \in Nat
  BY LinesAssumption
<1>2. d.aLen \in Nat /\ d.bLen \in Nat /\ d.aLen + d.bLen <= K
  BY <1>1 DEF FilesOK, LinesOf
<1>3. <<>> \in V
  <2>1. EndI(<<>>) = 0 /\ EndJ(<<>>) = 0 /\ Path(<<>>, 0, 0, 0, 0)
    BY NoPath DEF EndI, EndJ
  <2>2. AllFit(d, <<>>)
    BY DEF AllFit
  <2>3. <<>> \in Seq(Ops)
    BY EmptySeq
  <2> QED
    BY <1>2, <2>1, <2>2, <2>3 DEF Prefix
<1>4. ASSUME NEW s \in V
      PROVE  Longer(s) \in V /\ (Ended(s) \/ EndI(Longer(s)) + EndJ(Longer(s)) > EndI(s) + EndJ(s))
  <2>1. CASE Ended(s)
    BY <2>1
  <2>2. CASE ~Ended(s)
    <3>1. Prefix(d, s)
      OBVIOUS
    <3>2. Longer(s) = Append(s, OpcodeAt(d, EndI(s), EndJ(s)))
      BY <2>2
    <3>3. Prefix(d, Longer(s)) /\ EndI(Longer(s)) + EndJ(Longer(s)) > EndI(s) + EndJ(s)
      <4> HIDE DEF Longer
      <4> QED
        BY <2>2, <3>1, <3>2, PrefixGrows
    <3>4. Longer(s) \in Seq(Ops)
      BY <3>3 DEF Prefix, Path
    <3> QED
      BY <3>3, <3>4
  <2> QED
    BY <2>1, <2>2
<1> HIDE DEF V, Longer, Ended
<1>5. rank \in [D -> Nat] /\ \A n \in D : rank[n] < K + 1
  BY <1>1
<1>6. E \in SUBSET D /\ par \in [E -> D] /\ \A n \in E : rank[par[n]] < rank[n]
  BY <1>1
<1>7. base \in [D -> V] /\ step \in [E -> [V -> V]]
  BY <1>3, <1>4
<1>8. PICK h \in [D -> V] : Recursive(h, D, E, par, step, base)
  <2> HIDE DEF D, E, rank, par, step, base
  <2> QED
    BY <1>1, <1>5, <1>6, <1>7, RecursionExists
<1>9. \A n \in D : h[n] = IF n = 0 THEN <<>> ELSE Longer(h[n - 1])
  <2> SUFFICES ASSUME NEW n \in D PROVE h[n] = IF n = 0 THEN <<>> ELSE Longer(h[n - 1])
    OBVIOUS
  <2>1. h[n] = IF n \in E THEN step[n][h[par[n]]] ELSE base[n]
    BY <1>8 DEF Recursive
  <2>2. CASE n = 0
    BY <2>1, <2>2
  <2>3. CASE n # 0
    <3>1. n \in E /\ par[n] = n - 1 /\ n - 1 \in D
      BY <1>1, <2>3
    <3>2. h[n - 1] \in V
      BY <3>1
    <3> QED
      BY <2>1, <2>3, <3>1, <3>2
  <2> QED
    BY <2>2, <2>3
<1>10. h = [n \in D |-> IF n = 0 THEN <<>>
                        ELSE IF EndI(h[n - 1]) = d.aLen /\ EndJ(h[n - 1]) = d.bLen
                        THEN h[n - 1]
                        ELSE Append(h[n - 1], OpcodeAt(d, EndI(h[n - 1]), EndJ(h[n - 1])))]
  <2> HIDE DEF D
  <2> QED
    BY <1>9 DEF Longer, Ended
<1>11. F = [n \in D |-> IF n = 0 THEN <<>>
                        ELSE IF EndI(F[n - 1]) = d.aLen /\ EndJ(F[n - 1]) = d.bLen
                        THEN F[n - 1]
                        ELSE Append(F[n - 1], OpcodeAt(d, EndI(F[n - 1]), EndJ(F[n - 1])))]
  BY <1>10
<1>12. Opcodes(d) = F[K]
  BY DEF Opcodes, EndI, EndJ
<1> HIDE DEF F
<1>13. \A n \in D : F[n] = IF n = 0 THEN <<>> ELSE Longer(F[n - 1])
  BY <1>11 DEF Longer, Ended
<1> DEFINE Good == {n \in D : F[n] \in V /\ (Ended(F[n]) \/ EndI(F[n]) + EndJ(F[n]) >= n)}
<1>14. ASSUME NEW n \in D, \A m \in D : rank[m] < rank[n] => m \in Good
       PROVE  n \in Good
  <2>1. CASE n = 0
    <3>1. F[0] = <<>> /\ EndI(<<>>) = 0 /\ EndJ(<<>>) = 0
      BY <1>13, <2>1 DEF EndI, EndJ
    <3> QED
      BY <1>3, <2>1, <3>1
  <2>2. CASE n # 0
    <3>1. n - 1 \in D /\ rank[n - 1] < rank[n]
      BY <1>1, <2>2
    <3>2. PICK s : s = F[n - 1]
      OBVIOUS
    <3>3. s \in V /\ (Ended(s) \/ EndI(s) + EndJ(s) >= n - 1)
      BY <1>14, <3>1, <3>2
    <3>4. F[n] = Longer(s)
      BY <1>13, <2>2, <3>2
    <3>5. CASE Ended(s)
      <4>1. Longer(s) = s
        BY <3>5 DEF Longer
      <4> QED
        BY <3>3, <3>4, <3>5, <4>1
    <3>6. CASE ~Ended(s)
      <4>1. Longer(s) \in V /\ EndI(Longer(s)) + EndJ(Longer(s)) > EndI(s) + EndJ(s)
        BY <1>4, <3>3, <3>6
      <4>2. EndI(s) \in Nat /\ EndJ(s) \in Nat
        BY <1>2, <3>3 DEF V, Prefix
      <4>3. EndI(Longer(s)) \in Nat /\ EndJ(Longer(s)) \in Nat
        BY <1>2, <4>1 DEF V, Prefix
      <4>4. EndI(Longer(s)) + EndJ(Longer(s)) >= n
        BY <1>1, <3>3, <3>6, <4>1, <4>2, <4>3
      <4> QED
        BY <3>4, <4>1, <4>4
    <3> QED
      BY <3>5, <3>6
  <2> QED
    BY <2>1, <2>2
<1>15. D \subseteq Good
  <2>1. \A n \in D : (\A m \in D : rank[m] < rank[n] => m \in Good) => n \in Good
    BY <1>14
  <2> HIDE DEF Good, rank, D
  <2> QED
    BY <1>5, <2>1, LeastRank
<1>16. K \in Good
  BY <1>1, <1>15
<1>17. PICK s : s = F[K]
  OBVIOUS
<1>18. s \in V /\ (Ended(s) \/ EndI(s) + EndJ(s) >= K)
  BY <1>16, <1>17
<1>19. Prefix(d, s) /\ EndI(s) \in 0..d.aLen /\ EndJ(s) \in 0..d.bLen
  BY <1>18 DEF V, Prefix
<1>20. EndI(s) = d.aLen /\ EndJ(s) = d.bLen
  BY <1>1, <1>2, <1>18, <1>19 DEF Ended
<1> QED
  BY <1>12, <1>17, <1>19, <1>20 DEF Prefix

(***************************************************************************)
(* The ranges of a side, and where the loop is in them.                    *)
(***************************************************************************)

Sides == [ranges : Seq(Nat \X Nat), prev : {None} \cup (Nat \X Nat),
          entered : BOOLEAN, prevEntered : BOOLEAN]

(* What is left are runs of S, with all of its lines from line x on.       *)
SideFits(side, S, x) ==
  /\ side \in Sides
  /\ Runs(side.ranges, S)
  /\ \A y \in S : x <= y => Covered(side.ranges, y)
  /\ side.prev # None => IsRun(S, side.prev[1], side.prev[2])

(* So the first of them has the first lines of S from x on.                *)
FirstFits(side, S, x) ==
  /\ Has(side) => /\ Lo(side) \in Nat /\ Hi(side) \in Nat
                  /\ x < Hi(side) /\ Lo(side) < Hi(side)
                  /\ Lo(side)..Hi(side) - 1 \subseteq S
                  /\ Lo(side) \in S
                  /\ \A y \in S : x <= y => Lo(side) <= y
  /\ ~Has(side) => \A y \in S : ~(x <= y)
  /\ side.prev # None => side.prev[2] \in Nat /\ \E y \in S : y < side.prev[2]

LEMMA SideAtStart ==
  ASSUME NEW S, NEW n, LinesOf(S, n)
  PROVE  SideFits(Side(S), S, 0)
<1>1. RangesFrom(ChangeRanges(S), S, 0)
  BY ChangeRangesAre
<1>2. \A y \in S : Covered(ChangeRanges(S), y)
  BY <1>1, RangesCover
<1>3. Side(S) \in Sides
  BY <1>1 DEF Side, Sides, RangesFrom, Runs
<1> QED
  BY <1>1, <1>2, <1>3 DEF SideFits, Side, RangesFrom

(* The ranges that end at or before a line are the first of them.          *)
LEMMA PassedAreFirst ==
  ASSUME NEW s, NEW S, Runs(s, S), NEW x \in Nat
  PROVE  LET T == {r \in DOMAIN s : s[r][2] <= x} IN
         Cardinality(T) \in 0..Len(s) /\ T = 1..Cardinality(T)
<1> DEFINE T == {r \in DOMAIN s : s[r][2] <= x}
<1>1. DOMAIN s = 1..Len(s) /\ Len(s) \in Nat
  BY DEF Runs
<1>2. \A r \in 1..Len(s) : s[r][1] \in Nat /\ s[r][2] \in Nat /\ s[r][1] < s[r][2]
  BY DEF Runs, IsRun
<1>3. T \in SUBSET (1..Len(s))
  BY <1>1
<1>4. \E k \in 0..Len(s) : T = 1..k
  <2>1. CASE T = {}
    <3>1. 0 \in 0..Len(s) /\ 1..0 = {}
      BY <1>1
    <3> QED
      BY <2>1, <3>1
  <2>2. CASE T # {}
    <3>1. PICK m \in T : \A n \in T : n <= m
      <4>1. T \in SUBSET (0..Len(s))
        BY <1>1, <1>3
      <4> HIDE DEF T
      <4> QED
        BY <1>1, <2>2, <4>1, Greatest
    <3>2. m \in 1..Len(s) /\ s[m][2] <= x
      BY <1>1
    <3>3. ASSUME NEW r \in 1..m PROVE r \in T
      <4>1. r \in 1..Len(s)
        BY <1>1, <3>2
      <4>2. CASE r = m
        BY <4>2
      <4>3. CASE r # m
        <5>1. s[r][2] <= s[m][1]
          BY <3>2, <4>1, <4>3 DEF Runs
        <5>2. s[r][2] <= x
          BY <1>2, <3>2, <4>1, <5>1
        <5> QED
          BY <1>1, <4>1, <5>2
      <4> QED
        BY <4>2, <4>3
    <3>4. ASSUME NEW r \in T PROVE r \in 1..m
      BY <1>3, <3>1, <3>2
    <3>5. T = 1..m
      <4> HIDE DEF T
      <4> QED
        BY <3>3, <3>4
    <3> QED
      BY <3>2, <3>5
  <2> QED
    BY <2>1, <2>2
<1>5. PICK k \in 0..Len(s) : T = 1..k
  BY <1>4
<1>6. Cardinality(1..k) = k
  <2>1. Cardinality(1..k) = IF 1 > k THEN 0 ELSE k - 1 + 1
    BY FS_Interval
  <2> QED
    BY <1>1, <2>1
<1> QED
  BY <1>5, <1>6

LEMMA AdvanceIs ==
  ASSUME NEW S \in SUBSET Nat, NEW x \in Nat, NEW side, SideFits(side, S, x)
  PROVE  /\ SideFits(Advance(side, x), S, x)
         /\ Has(Advance(side, x)) => x < Hi(Advance(side, x))
<1> DEFINE s == side.ranges
           T == {r \in DOMAIN s : s[r][2] <= x}
           k == Cardinality(T)
           a == Advance(side, x)
<1>1. /\ s \in Seq(Nat \X Nat) /\ DOMAIN s = 1..Len(s) /\ Len(s) \in Nat
      /\ \A r \in 1..Len(s) : s[r] \in Nat \X Nat
  BY DEF SideFits, Sides, Runs
<1>2. k \in 0..Len(s) /\ T = 1..k
  BY PassedAreFirst DEF SideFits
<1>3. a = IF k = 0 THEN side
          ELSE [ranges |-> SubSeq(s, k + 1, Len(s)),
                prev |-> s[k],
                entered |-> FALSE,
                prevEntered |-> IF k = 1 THEN side.entered ELSE FALSE]
  BY DEF Advance
<1>4. \A r \in 1..Len(s) : r > k => x < s[r][2]
  <2> SUFFICES ASSUME NEW r \in 1..Len(s), r > k PROVE x < s[r][2]
    OBVIOUS
  <2>1. r \notin T
    <3>1. k \in Nat /\ r \in Nat
      BY <1>1, <1>2
    <3> HIDE DEF T, k
    <3>2. r \notin 1..k
      BY <3>1
    <3> QED
      BY <1>2, <3>2
  <2>2. ~(s[r][2] <= x) /\ s[r][2] \in Nat
    BY <1>1, <2>1
  <2> QED
    BY <2>2
<1> HIDE DEF k, a, T
<1>5. CASE k = 0
  <2>1. a = side
    BY <1>3, <1>5
  <2>2. Has(side) => x < Hi(side)
    <3>1. Has(side) => 1 \in 1..Len(s) /\ 1 > 0
      BY <1>1 DEF Has
    <3> QED
      BY <1>4, <1>5, <3>1 DEF Hi
  <2> QED
    BY <2>1, <2>2 DEF a
<1>6. CASE k # 0
  <2>1. k \in 1..Len(s) /\ k \in Nat
    BY <1>1, <1>2, <1>6
  <2>2. PICK t : t = SubSeq(s, k + 1, Len(s))
    OBVIOUS
  <2>3. a = [ranges |-> t, prev |-> s[k], entered |-> FALSE,
             prevEntered |-> IF k = 1 THEN side.entered ELSE FALSE]
    BY <1>3, <1>6, <2>2
  <2>4. t \in Seq(Nat \X Nat) /\ Len(t) = Len(s) - k
        /\ \A r \in 1..Len(s) - k : t[r] = s[k + r]
    <3>1. k + 1 \in Nat /\ Len(s) - (k + 1) + 1 = Len(s) - k
      BY <1>1, <2>1
    <3>2. \A r \in k + 1..Len(s) : s[r] \in Nat \X Nat
      BY <1>1, <2>1
    <3>3. t \in Seq(Nat \X Nat)
      BY <1>1, <2>1, <2>2, <3>2, SubSeqProperties
    <3>4. Len(t) = Len(s) - k
      BY <1>1, <2>1, <2>2, SubSeqProperties
    <3>5. \A r \in 1..Len(s) - k : t[r] = s[k + r]
      <4> SUFFICES ASSUME NEW r \in 1..Len(s) - k PROVE t[r] = s[k + r]
        OBVIOUS
      <4>1. t[r] = s[(k + 1) + r - 1]
        BY <1>1, <2>1, <2>2, SubSeqProperties
      <4>2. (k + 1) + r - 1 = k + r
        BY <1>1, <2>1
      <4> QED
        BY <4>1, <4>2
    <3> QED
      BY <3>3, <3>4, <3>5
  <2>5. \A r \in 1..Len(t) : k + r \in 1..Len(s) /\ k + r > k /\ t[r] = s[k + r]
    <3> SUFFICES ASSUME NEW r \in 1..Len(t)
                 PROVE  k + r \in 1..Len(s) /\ k + r > k /\ t[r] = s[k + r]
      OBVIOUS
    <3>1. r \in 1..Len(s) - k
      BY <2>4
    <3>2. k + r \in 1..Len(s) /\ k + r > k
      BY <1>1, <2>1, <3>1
    <3> QED
      BY <2>4, <3>1, <3>2
  <2>6. Runs(t, S)
    <3>1. \A r \in 1..Len(t) : IsRun(S, t[r][1], t[r][2])
      BY <2>5 DEF SideFits, Runs
    <3>2. \A r, q \in 1..Len(t) : r < q => t[r][2] <= t[q][1]
      <4> SUFFICES ASSUME NEW r \in 1..Len(t), NEW q \in 1..Len(t), r < q
                   PROVE  t[r][2] <= t[q][1]
        OBVIOUS
      <4>1. PICK m, n : m = k + r /\ n = k + q
        OBVIOUS
      <4>2. m \in 1..Len(s) /\ n \in 1..Len(s) /\ m < n
        BY <1>1, <2>1, <2>5, <4>1
      <4>3. s[m][2] <= s[n][1]
        BY <4>2 DEF SideFits, Runs
      <4> QED
        BY <2>5, <4>1, <4>3
    <3> QED
      BY <2>4, <3>1, <3>2 DEF Runs
  <2>7. ASSUME NEW y \in S, x <= y PROVE Covered(t, y)
    <3>1. PICK r \in 1..Len(s) : s[r][1] <= y /\ y < s[r][2]
      BY <2>7 DEF SideFits, Covered
    <3>2. s[r][2] \in Nat /\ s[r][1] \in Nat
      BY <1>1
    <3>3. y \in Nat
      OBVIOUS
    <3>4. r \notin T
      BY <2>7, <3>1, <3>2, <3>3 DEF T
    <3>5. r > k
      BY <1>2, <2>1, <3>4
    <3>6. r - k \in 1..Len(t) /\ t[r - k] = s[r]
      <4>1. PICK q : q = r - k
        OBVIOUS
      <4>2. q \in 1..Len(s) - k /\ k + q = r
        BY <1>1, <2>1, <3>5, <4>1
      <4> QED
        BY <2>4, <4>1, <4>2
    <3> QED
      BY <3>1, <3>6 DEF Covered
  <2>8. a \in Sides
    BY <1>1, <2>1, <2>3, <2>4 DEF SideFits, Sides
  <2>9. IsRun(S, s[k][1], s[k][2])
    BY <2>1 DEF SideFits, Runs
  <2>10. SideFits(a, S, x)
    BY <2>3, <2>6, <2>7, <2>8, <2>9 DEF SideFits
  <2>11. Has(a) => x < Hi(a)
    <3> SUFFICES ASSUME t # <<>> PROVE x < t[1][2]
      BY <2>3 DEF Has, Hi
    <3>1. 1 \in 1..Len(t)
      BY <2>4
    <3> QED
      BY <1>4, <2>5, <3>1
  <2> QED
    BY <2>10, <2>11 DEF a
<1> QED
  BY <1>5, <1>6

LEMMA AdvancedFits ==
  ASSUME NEW S \in SUBSET Nat, NEW x \in Nat, NEW side, SideFits(side, S, x),
         Has(side) => x < Hi(side)
  PROVE  FirstFits(side, S, x)
<1> DEFINE s == side.ranges
<1>1. /\ s \in Seq(Nat \X Nat) /\ Len(s) \in Nat
      /\ \A r \in 1..Len(s) : s[r] \in Nat \X Nat /\ IsRun(S, s[r][1], s[r][2])
  BY DEF SideFits, Sides, Runs
<1>2. ASSUME Has(side)
      PROVE  /\ Lo(side) \in Nat /\ Hi(side) \in Nat
             /\ x < Hi(side) /\ Lo(side) < Hi(side)
             /\ Lo(side)..Hi(side) - 1 \subseteq S
             /\ Lo(side) \in S
             /\ \A y \in S : x <= y => Lo(side) <= y
  <2>1. 1 \in 1..Len(s)
    BY <1>1, <1>2 DEF Has
  <2>2. IsRun(S, Lo(side), Hi(side))
    BY <1>1, <2>1 DEF Lo, Hi
  <2>3. Lo(side) \in S
    BY <2>2 DEF IsRun
  <2>4. ASSUME NEW y \in S, x <= y PROVE Lo(side) <= y
    <3>1. PICK r \in 1..Len(s) : s[r][1] <= y /\ y < s[r][2]
      BY <2>4 DEF SideFits, Covered
    <3>2. s[1][2] <= s[r][1] \/ r = 1
      BY <1>1, <2>1 DEF SideFits, Runs
    <3>3. s[1][1] \in Nat /\ s[1][2] \in Nat /\ s[r][1] \in Nat /\ s[1][1] < s[1][2]
      BY <1>1, <2>1 DEF IsRun
    <3>4. s[1][1] <= y
      BY <3>1, <3>2, <3>3
    <3> QED
      BY <3>4 DEF Lo
  <2> QED
    BY <1>2, <2>2, <2>3, <2>4 DEF IsRun
<1>3. ASSUME ~Has(side), NEW y \in S, x <= y
      PROVE  FALSE
  <2>1. PICK r \in 1..Len(s) : s[r][1] <= y
    BY <1>3 DEF SideFits, Covered
  <2> QED
    BY <1>1, <1>3 DEF Has
<1>4. ASSUME side.prev # None
      PROVE  side.prev[2] \in Nat /\ \E y \in S : y < side.prev[2]
  BY <1>4 DEF SideFits, IsRun
<1> QED
  BY <1>2, <1>3, <1>4 DEF FirstFits

(* Later, it still fits.                                                   *)
LEMMA FitsLater ==
  ASSUME NEW S \in SUBSET Nat, NEW x \in Nat, NEW y \in Nat, x <= y,
         NEW side, SideFits(side, S, x)
  PROVE  SideFits(side, S, y) /\ SideFits([side EXCEPT !.entered = TRUE], S, y)
<1> DEFINE t == [side EXCEPT !.entered = TRUE]
<1>1. t \in Sides /\ t.ranges = side.ranges /\ t.prev = side.prev
  BY DEF SideFits, Sides
<1>2. \A z \in S : y <= z => x <= z
  OBVIOUS
<1> QED
  BY <1>1, <1>2 DEF SideFits

(***************************************************************************)
(* A turn of the loop.                                                     *)
(***************************************************************************)

(* What a filtered opcode hides, and what a kept one shows, is right.      *)
RightlyFiltered(op) ==
  op.tag = "filtered-equal" =>
    /\ WrittenDeleted(op) = {} \/ WrittenInserted(op) = {}
    /\ op.i1 = op.i2 \/ op.j1 = op.j2 =>
         WrittenDeleted(op) = {} /\ WrittenInserted(op) = {}

RightlyKept(op) ==
  /\ op.tag = "delete" => Between(lines.aWritten, op.i1, op.i2)
  /\ op.tag = "insert" => Between(lines.bWritten, op.j1, op.j2)

(* The opcode of the turn and the ranges it is compared with.              *)
TurnOK ==
  /\ FilesOK(lines)
  /\ OpFits(lines, Cur)
  /\ SideFits(O, lines.aWritten, Cur.i1) /\ FirstFits(O, lines.aWritten, Cur.i1)
  /\ SideFits(N, lines.bWritten, Cur.j1) /\ FirstFits(N, lines.bWritten, Cur.j1)

(* A turn yields the opcode up to lines i and j, and puts the rest back.   *)
Cut(tag, i, j) ==
  /\ tag \in {Cur.tag, "filtered-equal"}
  /\ i \in Nat /\ Cur.i1 <= i /\ i <= Cur.i2
  /\ j \in Nat /\ Cur.j1 <= j /\ j <= Cur.j2
  /\ Cur.i1 < i \/ Cur.j1 < j
  /\ Cur.tag \in {"equal", "replace"} => i - Cur.i1 = j - Cur.j1
  /\ RightlyFiltered(Op(tag, Cur.i1, i, Cur.j1, j))
  /\ RightlyKept(Op(tag, Cur.i1, i, Cur.j1, j))

CutAt(tag, i, j) ==
  /\ Cut(tag, i, j)
  /\ Yield(Op(tag, Cur.i1, i, Cur.j1, j))
  /\ todo' = IF i = Cur.i2 /\ j = Cur.j2 THEN Tail(todo)
             ELSE <<Op(Cur.tag, i, Cur.i2, j, Cur.j2)>> \o Tail(todo)
  /\ orig' \in {O, [O EXCEPT !.entered = TRUE]}
  /\ new' \in {N, [N EXCEPT !.entered = TRUE]}
  /\ lines' = lines

CutTurn == \E tag, i, j : CutAt(tag, i, j)

LEMMA CleanBefore ==
  ASSUME NEW S \in SUBSET Nat, NEW x \in Nat, NEW side, FirstFits(side, S, x),
         NEW to \in Nat, Has(side) => to <= Lo(side)
  PROVE  \A y \in S : ~(x <= y /\ y < to)
BY DEF FirstFits

LEMMA CurFacts ==
  ASSUME TurnOK
  PROVE  /\ Cur = Op(Cur.tag, Cur.i1, Cur.i2, Cur.j1, Cur.j2)
         /\ Cur.tag \in Tags
         /\ Cur.i1 \in Nat /\ Cur.i2 \in Nat /\ Cur.j1 \in Nat /\ Cur.j2 \in Nat
         /\ Cur.i1 <= Cur.i2 /\ Cur.j1 <= Cur.j2
         /\ Cur.i1 < Cur.i2 \/ Cur.j1 < Cur.j2
         /\ lines.aWritten \in SUBSET Nat /\ lines.bWritten \in SUBSET Nat
<1>1. Cur \in [tag : Tags, i1 : Nat, i2 : Nat, j1 : Nat, j2 : Nat]
  BY DEF TurnOK, OpFits
<1>2. Cur = Op(Cur.tag, Cur.i1, Cur.i2, Cur.j1, Cur.j2)
  <2> HIDE DEF Cur
  <2> QED
    BY <1>1 DEF Op
<1>3. lines.aWritten \in SUBSET Nat /\ lines.bWritten \in SUBSET Nat
  BY DEF TurnOK, FilesOK, LinesOf
<1> QED
  BY <1>1, <1>2, <1>3 DEF TurnOK, OpFits

(* What is outside of the ranges and does not reach into them is filtered. *)
LEMMA FilterOutCuts ==
  ASSUME TurnOK, FilterOut
  PROVE  CutTurn
<1> DEFINE op == Op("filtered-equal", Cur.i1, Cur.i2, Cur.j1, Cur.j2)
<1>1. /\ Cur = Op(Cur.tag, Cur.i1, Cur.i2, Cur.j1, Cur.j2)
      /\ Cur.tag \in Tags
      /\ Cur.i1 \in Nat /\ Cur.i2 \in Nat /\ Cur.j1 \in Nat /\ Cur.j2 \in Nat
      /\ Cur.i1 <= Cur.i2 /\ Cur.j1 <= Cur.j2
      /\ Cur.i1 < Cur.i2 \/ Cur.j1 < Cur.j2
      /\ lines.aWritten \in SUBSET Nat /\ lines.bWritten \in SUBSET Nat
  BY CurFacts
<1>2. [Cur EXCEPT !.tag = "filtered-equal"] = op
  <2> HIDE DEF Cur
  <2> QED
    BY <1>1 DEF Op
<1>3. FirstFits(O, lines.aWritten, Cur.i1) /\ FirstFits(N, lines.bWritten, Cur.j1)
  BY DEF TurnOK
<1>4. ASSUME ~OrigStraddles, Cur.tag \in {"replace", "delete"}, Cur.i1 < Cur.i2
      PROVE  WrittenDeleted(op) = {}
  <2>1. Has(O) => Cur.i2 <= Lo(O)
    BY <1>1, <1>3, <1>4 DEF FilterOut, Outside, OrigStraddles, OrigValid, Within, FirstFits
  <2>2. \A y \in lines.aWritten : ~(Cur.i1 <= y /\ y < Cur.i2)
    BY <1>1, <1>3, <2>1, CleanBefore
  <2> QED
    BY <1>1, <2>2 DEF WrittenDeleted, Op
<1>5. ASSUME ~NewStraddles, Cur.tag \in {"replace", "insert"}, Cur.j1 < Cur.j2
      PROVE  WrittenInserted(op) = {}
  <2>1. Has(N) => Cur.j2 <= Lo(N)
    BY <1>1, <1>3, <1>5 DEF FilterOut, Outside, NewStraddles, NewValid, Within, FirstFits
  <2>2. \A y \in lines.bWritten : ~(Cur.j1 <= y /\ y < Cur.j2)
    BY <1>1, <1>3, <2>1, CleanBefore
  <2> QED
    BY <1>1, <2>2 DEF WrittenInserted, Op
<1>6. ~Straddles
  BY DEF FilterOut, Outside
<1>7. RightlyFiltered(op)
  <2>1. CASE Cur.tag = "equal"
    <3>1. Unmodified(lines, Cur)
      BY <2>1 DEF TurnOK, OpFits
    <3>2. WrittenDeleted(op) = {} /\ WrittenInserted(op) = {}
      <4> HIDE DEF Cur
      <4> QED
        BY <3>1 DEF Unmodified, WrittenDeleted, WrittenInserted, Op
    <3> QED
      BY <3>2 DEF RightlyFiltered
  <2>2. CASE Cur.tag = "delete"
    <3>1. Cur.j1 = Cur.j2
      BY <2>2 DEF TurnOK, OpFits
    <3>2. WrittenInserted(op) = {}
      BY <1>1, <3>1 DEF WrittenInserted, Op
    <3>3. WrittenDeleted(op) = {}
      BY <1>1, <1>4, <1>6, <2>2, <3>1 DEF Straddles
    <3> QED
      BY <3>2, <3>3 DEF RightlyFiltered
  <2>3. CASE Cur.tag = "insert"
    <3>1. Cur.i1 = Cur.i2
      BY <2>3 DEF TurnOK, OpFits
    <3>2. WrittenDeleted(op) = {}
      BY <1>1, <3>1 DEF WrittenDeleted, Op
    <3>3. WrittenInserted(op) = {}
      BY <1>1, <1>5, <1>6, <2>3, <3>1 DEF Straddles
    <3> QED
      BY <3>2, <3>3 DEF RightlyFiltered
  <2>4. CASE Cur.tag = "replace"
    <3>1. Cur.i2 - Cur.i1 = Cur.j2 - Cur.j1
      BY <2>4 DEF TurnOK, OpFits
    <3>2. Cur.i1 < Cur.i2 /\ Cur.j1 < Cur.j2
      BY <1>1, <3>1
    <3>3. WrittenDeleted(op) = {} \/ WrittenInserted(op) = {}
      BY <1>4, <1>5, <1>6, <2>4, <3>2 DEF Straddles
    <3>4. op.i1 < op.i2 /\ op.j1 < op.j2 /\ op.i1 \in Nat /\ op.j1 \in Nat
      BY <1>1, <3>2 DEF Op
    <3>5. op.i1 # op.i2 /\ op.j1 # op.j2
      BY <3>4
    <3> QED
      BY <3>3, <3>5 DEF RightlyFiltered
  <2> QED
    BY <1>1, <2>1, <2>2, <2>3, <2>4 DEF Tags
<1>8. RightlyKept(op)
  BY DEF RightlyKept, Op
<1>9. Cut("filtered-equal", Cur.i2, Cur.j2)
  BY <1>1, <1>7, <1>8 DEF Cut, TurnOK, OpFits
<1>10. CutAt("filtered-equal", Cur.i2, Cur.j2)
  BY <1>2, <1>9 DEF CutAt, FilterOut
<1> QED
  BY <1>10 DEF CutTurn

(* What comes before the ranges that an opcode reaches into is filtered.   *)
LEMMA SplitBeforeCuts ==
  ASSUME TurnOK, SplitBefore
  PROVE  CutTurn
<1> DEFINE i == Cur.i1 + SplitLength[1]
           j == Cur.j1 + SplitLength[2]
           tag == IF PrefixIsBoundary THEN Cur.tag ELSE "filtered-equal"
           op == Op(tag, Cur.i1, i, Cur.j1, j)
<1>1. /\ Cur.tag \in Tags
      /\ Cur.i1 \in Nat /\ Cur.i2 \in Nat /\ Cur.j1 \in Nat /\ Cur.j2 \in Nat
      /\ Cur.i1 <= Cur.i2 /\ Cur.j1 <= Cur.j2
      /\ lines.aWritten \in SUBSET Nat /\ lines.bWritten \in SUBSET Nat
  BY CurFacts
<1>2. FirstFits(O, lines.aWritten, Cur.i1) /\ FirstFits(N, lines.bWritten, Cur.j1)
  BY DEF TurnOK
<1>3. Straddles
  BY DEF SplitBefore
<1>4. CASE Cur.tag = "insert"
  <2>1. Has(N) /\ Cur.j1 < Lo(N) /\ Lo(N) < Cur.j2
    BY <1>3, <1>4 DEF Straddles, OrigStraddles, NewStraddles
  <2>2. Lo(N) \in Nat /\ Lo(N) \in lines.bWritten
    BY <1>2, <2>1 DEF FirstFits
  <2>3. i = Cur.i1 /\ j = Lo(N)
    <3>1. SplitLength = <<0, Lo(N) - Cur.j1>>
      BY <1>4 DEF SplitLength
    <3> QED
      BY <1>1, <2>2, <3>1
  <2>4. Cur.i1 = Cur.i2
    BY <1>4 DEF TurnOK, OpFits
  <2> HIDE DEF i, j, tag
  <2>5. op.tag = tag /\ op.i1 = Cur.i1 /\ op.i2 = Cur.i1 /\ op.j1 = Cur.j1 /\ op.j2 = Lo(N)
    BY <2>3 DEF Op
  <2>6. WrittenDeleted(op) = {}
    BY <1>1, <2>5 DEF WrittenDeleted
  <2>7. WrittenInserted(op) = {}
    <3>1. \A y \in lines.bWritten : ~(Cur.j1 <= y /\ y < Lo(N))
      BY <1>1, <1>2, <2>1, <2>2, CleanBefore
    <3> QED
      BY <1>1, <2>2, <2>5, <3>1 DEF WrittenInserted
  <2>8. RightlyFiltered(op)
    BY <2>6, <2>7 DEF RightlyFiltered
  <2>9. RightlyKept(op)
    <3>1. CASE PrefixIsBoundary
      <4>1. AtEndOf(N, Cur.j1)
        BY <1>4, <3>1 DEF PrefixIsBoundary
      <4>2. \E y \in lines.bWritten : y < Cur.j1
        BY <1>2, <4>1 DEF FirstFits, AtEndOf
      <4>3. Between(lines.bWritten, Cur.j1, Lo(N))
        BY <2>2, <4>2 DEF Between
      <4> QED
        BY <1>4, <2>5, <3>1, <4>3 DEF RightlyKept, tag
    <3>2. CASE ~PrefixIsBoundary
      BY <2>5, <3>2 DEF RightlyKept, tag
    <3> QED
      BY <3>1, <3>2
  <2>10. Cut(tag, i, j)
    BY <1>1, <1>4, <2>1, <2>2, <2>3, <2>4, <2>8, <2>9 DEF Cut, tag
  <2>11. ~(i = Cur.i2 /\ j = Cur.j2)
    BY <1>1, <2>1, <2>2, <2>3
  <2>12. CutAt(tag, i, j)
    BY <2>10, <2>11 DEF CutAt, SplitBefore, i, j, tag
  <2> QED
    BY <2>12 DEF CutTurn
<1>5. CASE Cur.tag = "delete"
  <2>1. Has(O) /\ Cur.i1 < Lo(O) /\ Lo(O) < Cur.i2
    BY <1>3, <1>5 DEF Straddles, OrigStraddles, NewStraddles
  <2>2. Lo(O) \in Nat /\ Lo(O) \in lines.aWritten
    BY <1>2, <2>1 DEF FirstFits
  <2>3. j = Cur.j1 /\ i = Lo(O)
    <3>1. SplitLength = <<Lo(O) - Cur.i1, 0>>
      BY <1>5 DEF SplitLength
    <3> QED
      BY <1>1, <2>2, <3>1
  <2>4. Cur.j1 = Cur.j2
    BY <1>5 DEF TurnOK, OpFits
  <2> HIDE DEF i, j, tag
  <2>5. op.tag = tag /\ op.i1 = Cur.i1 /\ op.i2 = Lo(O) /\ op.j1 = Cur.j1 /\ op.j2 = Cur.j1
    BY <2>3 DEF Op
  <2>6. WrittenInserted(op) = {}
    BY <1>1, <2>5 DEF WrittenInserted
  <2>7. WrittenDeleted(op) = {}
    <3>1. \A y \in lines.aWritten : ~(Cur.i1 <= y /\ y < Lo(O))
      BY <1>1, <1>2, <2>1, <2>2, CleanBefore
    <3> QED
      BY <1>1, <2>2, <2>5, <3>1 DEF WrittenDeleted
  <2>8. RightlyFiltered(op)
    BY <2>6, <2>7 DEF RightlyFiltered
  <2>9. RightlyKept(op)
    <3>1. CASE PrefixIsBoundary
      <4>1. AtEndOf(O, Cur.i1)
        BY <1>5, <3>1 DEF PrefixIsBoundary
      <4>2. \E y \in lines.aWritten : y < Cur.i1
        BY <1>2, <4>1 DEF FirstFits, AtEndOf
      <4>3. Between(lines.aWritten, Cur.i1, Lo(O))
        BY <2>2, <4>2 DEF Between
      <4> QED
        BY <1>5, <2>5, <3>1, <4>3 DEF RightlyKept, tag
    <3>2. CASE ~PrefixIsBoundary
      BY <2>5, <3>2 DEF RightlyKept, tag
    <3> QED
      BY <3>1, <3>2
  <2>10. Cut(tag, i, j)
    BY <1>1, <1>5, <2>1, <2>2, <2>3, <2>4, <2>8, <2>9 DEF Cut, tag
  <2>11. ~(i = Cur.i2 /\ j = Cur.j2)
    BY <1>1, <2>1, <2>2, <2>3
  <2>12. CutAt(tag, i, j)
    BY <2>10, <2>11 DEF CutAt, SplitBefore, i, j, tag
  <2> QED
    BY <2>12 DEF CutTurn
<1>6. CASE Cur.tag = "replace"
  <2>1. /\ Has(O) /\ Cur.i1 < Lo(O) /\ Lo(O) < Cur.i2
        /\ Has(N) /\ Cur.j1 < Lo(N) /\ Lo(N) < Cur.j2
    BY <1>3, <1>6 DEF Straddles, OrigStraddles, NewStraddles
  <2>2. Lo(O) \in Nat /\ Lo(N) \in Nat
    BY <1>2, <2>1 DEF FirstFits
  <2>3. Cur.i2 - Cur.i1 = Cur.j2 - Cur.j1
    BY <1>6 DEF TurnOK, OpFits
  <2>4. PICK m : m = Larger(Lo(O) - Cur.i1, Lo(N) - Cur.j1)
    OBVIOUS
  <2>5. m \in Nat /\ m > 0 /\ m < Cur.i2 - Cur.i1 /\ m < Cur.j2 - Cur.j1
        /\ (m = Lo(O) - Cur.i1 \/ m = Lo(N) - Cur.j1)
    BY <1>1, <2>1, <2>2, <2>3, <2>4 DEF Larger
  <2>6. i = Cur.i1 + m /\ j = Cur.j1 + m
    <3>1. SplitLength = <<m, m>>
      BY <1>6, <2>4 DEF SplitLength
    <3> QED
      BY <3>1
  <2>7. ~PrefixIsBoundary
    BY <1>6 DEF PrefixIsBoundary
  <2> HIDE DEF i, j
  <2>8. /\ i \in Nat /\ Cur.i1 < i /\ i < Cur.i2 /\ i - Cur.i1 = m
        /\ j \in Nat /\ Cur.j1 < j /\ j < Cur.j2 /\ j - Cur.j1 = m
        /\ (i = Lo(O) \/ j = Lo(N))
    BY <1>1, <2>2, <2>5, <2>6
  <2>9. op.tag = "filtered-equal" /\ op.i1 = Cur.i1 /\ op.i2 = i /\ op.j1 = Cur.j1 /\ op.j2 = j
    BY <2>7 DEF Op
  <2>10. WrittenDeleted(op) = {} \/ WrittenInserted(op) = {}
    <3>1. CASE i = Lo(O)
      <4>1. \A y \in lines.aWritten : ~(Cur.i1 <= y /\ y < i)
        <5>1. i \in Nat /\ i <= Lo(O)
          BY <2>2, <2>8, <3>1
        <5> QED
          BY <1>1, <1>2, <5>1, CleanBefore
      <4>2. WrittenDeleted(op) = {}
        BY <1>1, <2>8, <2>9, <4>1 DEF WrittenDeleted
      <4> QED
        BY <4>2
    <3>2. CASE j = Lo(N)
      <4>1. \A y \in lines.bWritten : ~(Cur.j1 <= y /\ y < j)
        <5>1. j \in Nat /\ j <= Lo(N)
          BY <2>2, <2>8, <3>2
        <5> QED
          BY <1>1, <1>2, <5>1, CleanBefore
      <4>2. WrittenInserted(op) = {}
        BY <1>1, <2>8, <2>9, <4>1 DEF WrittenInserted
      <4> QED
        BY <4>2
    <3> QED
      BY <2>8, <3>1, <3>2
  <2>11. op.i1 # op.i2 /\ op.j1 # op.j2
    BY <1>1, <2>8, <2>9
  <2>12. RightlyFiltered(op) /\ RightlyKept(op)
    BY <2>9, <2>10, <2>11 DEF RightlyFiltered, RightlyKept
  <2>13. Cut(tag, i, j)
    BY <1>1, <1>6, <2>7, <2>8, <2>12 DEF Cut
  <2>14. ~(i = Cur.i2 /\ j = Cur.j2)
    BY <1>1, <2>8
  <2>15. CutAt(tag, i, j)
    BY <2>13, <2>14 DEF CutAt, SplitBefore, i, j
  <2> QED
    BY <2>15 DEF CutTurn
<1>7. CASE Cur.tag = "equal"
  BY <1>3, <1>7 DEF Straddles, OrigStraddles, NewStraddles
<1> QED
  BY <1>1, <1>4, <1>5, <1>6, <1>7 DEF Tags

(* What is moved past the end of a range is kept, up to the next range.    *)
LEMMA KeepAtBoundaryCuts ==
  ASSUME TurnOK, KeepAtBoundary
  PROVE  CutTurn
<1> DEFINE i == IF OrigBoundary THEN Smaller(Cur.i2, Lo(O)) ELSE Cur.i2
           j == IF NewBoundary THEN Smaller(Cur.j2, Lo(N)) ELSE Cur.j2
           op == Op(Cur.tag, Cur.i1, i, Cur.j1, j)
<1>1. /\ Cur.tag \in Tags
      /\ Cur.i1 \in Nat /\ Cur.i2 \in Nat /\ Cur.j1 \in Nat /\ Cur.j2 \in Nat
      /\ Cur.i1 <= Cur.i2 /\ Cur.j1 <= Cur.j2
      /\ Cur.i1 < Cur.i2 \/ Cur.j1 < Cur.j2
  BY CurFacts
<1>2. FirstFits(O, lines.aWritten, Cur.i1) /\ FirstFits(N, lines.bWritten, Cur.j1)
  BY DEF TurnOK
<1>3. CASE OrigBoundary
  <2>1. Cur.tag = "delete" /\ Has(O) /\ O.prev # None /\ ~NewBoundary
    BY <1>3 DEF OrigBoundary, NewBoundary
  <2>2. Cur.j1 = Cur.j2 /\ Cur.i1 < Cur.i2
    BY <1>1, <2>1 DEF TurnOK, OpFits
  <2>3. Lo(O) \in Nat /\ Lo(O) \in lines.aWritten /\ Cur.i1 < Hi(O) /\ Hi(O) \in Nat
    BY <1>2, <2>1 DEF FirstFits
  <2>4. Cur.i1 < Lo(O)
    BY <1>1, <2>1, <2>2, <2>3 DEF KeepAtBoundary, Outside, OrigValid, Within
  <2>5. j = Cur.j2 /\ i = Smaller(Cur.i2, Lo(O))
    BY <1>3, <2>1
  <2> HIDE DEF i, j
  <2>6. i \in Nat /\ Cur.i1 < i /\ i <= Cur.i2 /\ i <= Lo(O)
    BY <1>1, <2>2, <2>3, <2>4, <2>5 DEF Smaller
  <2>7. \E y \in lines.aWritten : y < Cur.i1
    <3>1. PICK y \in lines.aWritten : y < O.prev[2] /\ O.prev[2] \in Nat
      BY <1>2, <2>1 DEF FirstFits
    <3>2. O.prev[2] <= Cur.i1
      BY <1>1, <1>3, <3>1 DEF OrigBoundary
    <3>3. y \in Nat
      BY CurFacts
    <3> QED
      BY <1>1, <3>1, <3>2, <3>3
  <2>8. Between(lines.aWritten, Cur.i1, i)
    BY <2>3, <2>6, <2>7 DEF Between
  <2>9. RightlyFiltered(op) /\ RightlyKept(op)
    BY <2>1, <2>8 DEF RightlyFiltered, RightlyKept, Op
  <2>10. Cut(Cur.tag, i, j)
    BY <1>1, <2>1, <2>2, <2>5, <2>6, <2>9 DEF Cut
  <2>11. todo' = IF i = Cur.i2 /\ j = Cur.j2 THEN Tail(todo)
                 ELSE <<Op(Cur.tag, i, Cur.i2, j, Cur.j2)>> \o Tail(todo)
    BY <1>3, <2>1, <2>2, <2>5 DEF KeepAtBoundary, i
  <2>12. CutAt(Cur.tag, i, j)
    BY <2>10, <2>11 DEF CutAt, KeepAtBoundary, i, j
  <2> QED
    BY <2>12 DEF CutTurn
<1>4. CASE NewBoundary /\ ~OrigBoundary
  <2>1. Cur.tag = "insert" /\ Has(N) /\ N.prev # None /\ Cur.j1 = N.prev[2]
    BY <1>4 DEF NewBoundary, AtEndOf
  <2>2. Cur.i1 = Cur.i2 /\ Cur.j1 < Cur.j2
    BY <1>1, <2>1 DEF TurnOK, OpFits
  <2>3. Lo(N) \in Nat /\ Lo(N) \in lines.bWritten /\ Cur.j1 < Hi(N) /\ Hi(N) \in Nat
    BY <1>2, <2>1 DEF FirstFits
  <2>4. Cur.j1 < Lo(N)
    BY <1>1, <2>1, <2>2, <2>3 DEF KeepAtBoundary, Outside, NewValid, Within
  <2>5. i = Cur.i2 /\ j = Smaller(Cur.j2, Lo(N))
    BY <1>4
  <2> HIDE DEF i, j
  <2>6. j \in Nat /\ Cur.j1 < j /\ j <= Cur.j2 /\ j <= Lo(N)
    BY <1>1, <2>2, <2>3, <2>4, <2>5 DEF Smaller
  <2>7. \E y \in lines.bWritten : y < Cur.j1
    BY <1>2, <2>1 DEF FirstFits
  <2>8. Between(lines.bWritten, Cur.j1, j)
    <3>1. \E y \in lines.bWritten : y >= j
      BY <2>3, <2>6
    <3> QED
      BY <2>7, <3>1 DEF Between
  <2>9. RightlyFiltered(op) /\ RightlyKept(op)
    BY <2>1, <2>8 DEF RightlyFiltered, RightlyKept, Op
  <2>10. Cut(Cur.tag, i, j)
    BY <1>1, <2>1, <2>2, <2>5, <2>6, <2>9 DEF Cut
  <2>11. todo' = IF i = Cur.i2 /\ j = Cur.j2 THEN Tail(todo)
                 ELSE <<Op(Cur.tag, i, Cur.i2, j, Cur.j2)>> \o Tail(todo)
    BY <1>4, <2>2, <2>5 DEF KeepAtBoundary, j
  <2>12. CutAt(Cur.tag, i, j)
    BY <2>10, <2>11 DEF CutAt, KeepAtBoundary, i, j
  <2> QED
    BY <2>12 DEF CutTurn
<1> QED
  BY <1>3, <1>4 DEF KeepAtBoundary

(* What starts in a range is kept, up to its end.                          *)
LEMMA KeepCuts ==
  ASSUME TurnOK, Keep
  PROVE  CutTurn
<1> DEFINE i == IF Even THEN Cur.i1 + EvenLength ELSE OrigEnd
           j == IF Even THEN Cur.j1 + EvenLength ELSE NewEnd
           iCap == IF Even THEN i ELSE Cap(O, Cur.i2)
           jCap == IF Even THEN j ELSE Cap(N, Cur.j2)
           restI == RestStart(O, Cur.i1, Cur.i2, i, iCap)
           restJ == RestStart(N, Cur.j1, Cur.j2, j, jCap)
           op == Op(Cur.tag, Cur.i1, i, Cur.j1, j)
<1>1. /\ Cur.tag \in Tags
      /\ Cur.i1 \in Nat /\ Cur.i2 \in Nat /\ Cur.j1 \in Nat /\ Cur.j2 \in Nat
      /\ Cur.i1 <= Cur.i2 /\ Cur.j1 <= Cur.j2
      /\ Cur.i1 < Cur.i2 \/ Cur.j1 < Cur.j2
  BY CurFacts
<1>2. FirstFits(O, lines.aWritten, Cur.i1) /\ FirstFits(N, lines.bWritten, Cur.j1)
  BY DEF TurnOK
<1>3. OrigValid \/ NewValid
  BY DEF Keep, InRange
<1>4. OrigEnd = IF OrigValid THEN Smaller(Cur.i2, Hi(O)) ELSE Cur.i2
  BY DEF OrigEnd, ValidEnd, Cap, OrigValid, Within
<1>5. NewEnd = IF NewValid THEN Smaller(Cur.j2, Hi(N)) ELSE Cur.j2
  BY DEF NewEnd, ValidEnd, Cap, NewValid, Within
<1>6. /\ OrigValid => /\ Has(O) /\ Lo(O) \in Nat /\ Hi(O) \in Nat
                      /\ Lo(O) <= Cur.i1 /\ Cur.i1 < Hi(O) /\ Cur.i1 < Cur.i2
                      /\ Lo(O)..Hi(O) - 1 \subseteq lines.aWritten
      /\ NewValid => /\ Has(N) /\ Lo(N) \in Nat /\ Hi(N) \in Nat
                     /\ Lo(N) <= Cur.j1 /\ Cur.j1 < Hi(N) /\ Cur.j1 < Cur.j2
                     /\ Lo(N)..Hi(N) - 1 \subseteq lines.bWritten
  BY <1>1, <1>2 DEF FirstFits, OrigValid, NewValid, Within
<1>7. /\ OrigEnd \in Nat /\ Cur.i1 <= OrigEnd /\ OrigEnd <= Cur.i2
      /\ Cur.i1 < Cur.i2 => Cur.i1 < OrigEnd
      /\ NewEnd \in Nat /\ Cur.j1 <= NewEnd /\ NewEnd <= Cur.j2
      /\ Cur.j1 < Cur.j2 => Cur.j1 < NewEnd
  BY <1>1, <1>4, <1>5, <1>6 DEF Smaller
<1>8. orig' \in {O, [O EXCEPT !.entered = TRUE]} /\ new' \in {N, [N EXCEPT !.entered = TRUE]}
  BY DEF Keep, Enter
<1>9. CASE Even
  <2>1. Cur.i2 - Cur.i1 = Cur.j2 - Cur.j1 /\ Cur.tag \in {"equal", "replace"}
    BY <1>9 DEF Even, TurnOK, OpFits
  <2>2. Cur.i1 < Cur.i2 /\ Cur.j1 < Cur.j2
    BY <1>1, <2>1
  <2>3. EvenLength \in Nat /\ EvenLength > 0 /\ EvenLength <= Cur.i2 - Cur.i1
    <3>1. PICK a, b, l : a = OrigEnd - Cur.i1 /\ b = NewEnd - Cur.j1 /\ l = Cur.i2 - Cur.i1
      OBVIOUS
    <3>2. a \in Nat /\ a > 0 /\ b \in Nat /\ b > 0 /\ l \in Nat /\ l > 0
          /\ Cur.j2 - Cur.j1 = l
      BY <1>1, <1>7, <2>1, <2>2, <3>1
    <3>3. PICK most : /\ most \in {a, b, Larger(a, b)}
                      /\ EvenLength = Smaller(most, Smaller(l, l))
      BY <3>1, <3>2 DEF EvenLength
    <3> QED
      BY <3>1, <3>2, <3>3 DEF Larger, Smaller
  <2>4. i = Cur.i1 + EvenLength /\ j = Cur.j1 + EvenLength /\ iCap = i /\ jCap = j
    BY <1>9
  <2>5. PICK n : n = EvenLength
    OBVIOUS
  <2> HIDE DEF i, j, iCap, jCap
  <2>6. /\ i \in Nat /\ Cur.i1 < i /\ i <= Cur.i2 /\ i - Cur.i1 = n
        /\ j \in Nat /\ Cur.j1 < j /\ j <= Cur.j2 /\ j - Cur.j1 = n
        /\ i = Cur.i2 <=> j = Cur.j2
    BY <1>1, <2>1, <2>3, <2>4, <2>5
  <2>7. RightlyFiltered(op) /\ RightlyKept(op)
    BY <2>1 DEF RightlyFiltered, RightlyKept, Op
  <2>8. Cut(Cur.tag, i, j)
    BY <1>1, <2>6, <2>7 DEF Cut
  <2>9. ~(i = Cur.i2 /\ j = Cur.j2) => restI = i /\ restJ = j
    <3>1. i <= Cur.i2 + 1 /\ Cur.i2 + 1 > i /\ Cur.j2 + 1 > j
      BY <1>1, <2>6
    <3>2. ~(i = Cur.i2 /\ j = Cur.j2) => i < Cur.i2 /\ j < Cur.j2
      BY <1>1, <2>6
    <3> QED
      BY <2>4, <3>1, <3>2 DEF RestStart
  <2>10. todo' = IF i = Cur.i2 /\ j = Cur.j2 THEN Tail(todo)
                 ELSE <<Op(Cur.tag, restI, Cur.i2, restJ, Cur.j2)>> \o Tail(todo)
    BY DEF Keep, i, j, iCap, jCap
  <2>11. todo' = IF i = Cur.i2 /\ j = Cur.j2 THEN Tail(todo)
                 ELSE <<Op(Cur.tag, i, Cur.i2, j, Cur.j2)>> \o Tail(todo)
    <3> HIDE DEF restI, restJ
    <3> QED
      BY <2>9, <2>10
  <2>12. CutAt(Cur.tag, i, j)
    BY <1>8, <2>8, <2>11 DEF CutAt, Keep, i, j
  <2> QED
    BY <2>12 DEF CutTurn
<1>10. CASE Cur.tag = "delete"
  <2>1. ~Even /\ Cur.j1 = Cur.j2
    BY <1>10 DEF Even, TurnOK, OpFits
  <2>2. ~NewValid /\ OrigValid
    BY <1>3, <2>1 DEF NewValid, Within
  <2>3. i = OrigEnd /\ j = Cur.j2 /\ iCap = Hi(O) /\ jCap = Cap(N, Cur.j2)
    BY <1>5, <1>6, <2>1, <2>2 DEF Cap
  <2> HIDE DEF i, j, iCap, jCap
  <2>4. i = Smaller(Cur.i2, Hi(O)) /\ i \in Nat /\ Cur.i1 < i /\ i <= Cur.i2 /\ i <= Hi(O)
    BY <1>1, <1>4, <1>6, <1>7, <2>2, <2>3 DEF Smaller
  <2>5. Cur.i1..i - 1 \subseteq lines.aWritten
    <3>1. \A y \in Cur.i1..i - 1 : y \in Lo(O)..Hi(O) - 1
      BY <1>1, <1>6, <2>2, <2>4
    <3> QED
      BY <1>6, <2>2, <3>1
  <2>6. RightlyFiltered(op) /\ RightlyKept(op)
    BY <1>10, <2>5 DEF RightlyFiltered, RightlyKept, Op, Between
  <2>7. Cut(Cur.tag, i, j)
    BY <1>1, <1>10, <2>1, <2>3, <2>4, <2>6 DEF Cut
  <2>8. ~(i = Cur.i2) => restI = i
    <3>1. ~(i = Cur.i2) => i = Hi(O) /\ Cur.i2 + 1 > Hi(O)
      BY <1>1, <1>6, <2>2, <2>4 DEF Smaller
    <3> QED
      BY <1>6, <2>2, <2>3, <3>1 DEF RestStart
  <2>9. restJ = j
    <3>1. Has(N) => jCap = Hi(N) /\ ~(Cur.j2 + 1 > Hi(N))
      BY <1>1, <1>2, <2>1, <2>3 DEF Cap, FirstFits
    <3>2. ~(j < Cur.j2)
      BY <1>1, <2>3
    <3> QED
      BY <2>1, <2>3, <3>1, <3>2 DEF RestStart
  <2>10. todo' = IF i = Cur.i2 /\ j = Cur.j2 THEN Tail(todo)
                 ELSE <<Op(Cur.tag, restI, Cur.i2, restJ, Cur.j2)>> \o Tail(todo)
    BY DEF Keep, i, j, iCap, jCap
  <2>11. todo' = IF i = Cur.i2 /\ j = Cur.j2 THEN Tail(todo)
                 ELSE <<Op(Cur.tag, i, Cur.i2, j, Cur.j2)>> \o Tail(todo)
    <3> HIDE DEF restI, restJ
    <3> QED
      BY <2>3, <2>8, <2>9, <2>10
  <2>12. CutAt(Cur.tag, i, j)
    BY <1>8, <2>7, <2>11 DEF CutAt, Keep, i, j
  <2> QED
    BY <2>12 DEF CutTurn
<1>11. CASE Cur.tag = "insert"
  <2>1. ~Even /\ Cur.i1 = Cur.i2
    BY <1>11 DEF Even, TurnOK, OpFits
  <2>2. ~OrigValid /\ NewValid
    BY <1>3, <2>1 DEF OrigValid, Within
  <2>3. i = Cur.i2 /\ j = NewEnd /\ iCap = Cap(O, Cur.i2) /\ jCap = Hi(N)
    BY <1>4, <1>6, <2>1, <2>2 DEF Cap
  <2> HIDE DEF i, j, iCap, jCap
  <2>4. j = Smaller(Cur.j2, Hi(N)) /\ j \in Nat /\ Cur.j1 < j /\ j <= Cur.j2 /\ j <= Hi(N)
    BY <1>1, <1>5, <1>6, <1>7, <2>2, <2>3 DEF Smaller
  <2>5. Cur.j1..j - 1 \subseteq lines.bWritten
    <3>1. \A y \in Cur.j1..j - 1 : y \in Lo(N)..Hi(N) - 1
      BY <1>1, <1>6, <2>2, <2>4
    <3> QED
      BY <1>6, <2>2, <3>1
  <2>6. RightlyFiltered(op) /\ RightlyKept(op)
    BY <1>11, <2>5 DEF RightlyFiltered, RightlyKept, Op, Between
  <2>7. Cut(Cur.tag, i, j)
    BY <1>1, <1>11, <2>1, <2>3, <2>4, <2>6 DEF Cut
  <2>8. ~(j = Cur.j2) => restJ = j
    <3>1. ~(j = Cur.j2) => j = Hi(N) /\ Cur.j2 + 1 > Hi(N)
      BY <1>1, <1>6, <2>2, <2>4 DEF Smaller
    <3> QED
      BY <1>6, <2>2, <2>3, <3>1 DEF RestStart
  <2>9. restI = i
    <3>1. Has(O) => iCap = Hi(O) /\ ~(Cur.i2 + 1 > Hi(O))
      BY <1>1, <1>2, <2>1, <2>3 DEF Cap, FirstFits
    <3>2. ~(i < Cur.i2)
      BY <1>1, <2>3
    <3> QED
      BY <2>1, <2>3, <3>1, <3>2 DEF RestStart
  <2>10. todo' = IF i = Cur.i2 /\ j = Cur.j2 THEN Tail(todo)
                 ELSE <<Op(Cur.tag, restI, Cur.i2, restJ, Cur.j2)>> \o Tail(todo)
    BY DEF Keep, i, j, iCap, jCap
  <2>11. todo' = IF i = Cur.i2 /\ j = Cur.j2 THEN Tail(todo)
                 ELSE <<Op(Cur.tag, i, Cur.i2, j, Cur.j2)>> \o Tail(todo)
    <3> HIDE DEF restI, restJ
    <3> QED
      BY <2>3, <2>8, <2>9, <2>10
  <2>12. CutAt(Cur.tag, i, j)
    BY <1>8, <2>7, <2>11 DEF CutAt, Keep, i, j
  <2> QED
    BY <2>12 DEF CutTurn
<1> QED
  BY <1>1, <1>9, <1>10, <1>11 DEF Tags, Even

(***************************************************************************)
(* The invariant: what was yielded and what is left cover both files, every*)
(* opcode left is one the differ could have made, the ranges left have all *)
(* written lines from the next opcode on, and what was yielded is right.   *)
(***************************************************************************)

PathsMeet ==
  \E i, j : Path(out, 0, 0, i, j) /\ Path(todo, i, j, lines.aLen, lines.bLen)

YieldedRightly ==
  \A k \in 1..Len(out) :
    /\ out[k].tag \in {"equal", "replace"} =>
         out[k].i2 - out[k].i1 = out[k].j2 - out[k].j1
    /\ RightlyFiltered(out[k])
    /\ Filtered => RightlyKept(out[k])

FilterInv ==
  /\ FilesOK(lines)
  /\ PathsMeet
  /\ AllFit(lines, todo)
  /\ todo # <<>> => /\ SideFits(orig, lines.aWritten, todo[1].i1)
                   /\ SideFits(new, lines.bWritten, todo[1].j1)
  /\ YieldedRightly

LEMMA FilterInitInv == FilterInit => FilterInv
<1> SUFFICES ASSUME FilterInit PROVE FilterInv
  OBVIOUS
<1>1. FilesOK(lines) /\ Aligned(lines, 0, 0)
  BY AlignedAtStart DEF FilterInit
<1>2. Path(todo, 0, 0, lines.aLen, lines.bLen) /\ AllFit(lines, todo)
  BY <1>1, OpcodesAre DEF FilterInit
<1>3. Path(out, 0, 0, 0, 0)
  BY NoPath DEF FilterInit
<1>4. YieldedRightly
  BY DEF YieldedRightly, FilterInit
<1>5. SideFits(orig, lines.aWritten, 0) /\ SideFits(new, lines.bWritten, 0)
  BY <1>1, SideAtStart DEF FilterInit, FilesOK
<1>6. todo # <<>> => todo[1].i1 = 0 /\ todo[1].j1 = 0
  BY <1>2 DEF Path
<1> QED
  BY <1>1, <1>2, <1>3, <1>4, <1>5, <1>6 DEF FilterInv, PathsMeet

LEMMA TurnIsOK ==
  ASSUME FilterInv, todo # <<>>
  PROVE  TurnOK
<1>1. todo \in Seq(Ops)
  BY DEF FilterInv, PathsMeet, Path
<1>2. 1 \in 1..Len(todo)
  BY <1>1
<1>3. OpFits(lines, Cur)
  BY <1>2 DEF FilterInv, AllFit, Cur
<1>4. Cur.i1 \in Nat /\ Cur.j1 \in Nat
  BY <1>3 DEF OpFits
<1>5. lines.aWritten \in SUBSET Nat /\ lines.bWritten \in SUBSET Nat
  BY DEF FilterInv, FilesOK, LinesOf
<1>6. SideFits(O, lines.aWritten, Cur.i1) /\ (Has(O) => Cur.i1 < Hi(O))
  BY <1>4, <1>5, AdvanceIs DEF FilterInv, O, Cur
<1>7. SideFits(N, lines.bWritten, Cur.j1) /\ (Has(N) => Cur.j1 < Hi(N))
  BY <1>4, <1>5, AdvanceIs DEF FilterInv, N, Cur
<1> QED
  BY <1>3, <1>4, <1>5, <1>6, <1>7, AdvancedFits DEF TurnOK, FilterInv

(* Every turn, and the step that filters nothing, keeps the invariant and  *)
(* gets further.                                                           *)
LEMMA CutKeeps ==
  ASSUME FilterInv, todo # <<>>, NEW tag, NEW i, NEW j, CutAt(tag, i, j)
  PROVE  FilterInv' /\ Left' < Left
<1> DEFINE op == Op(tag, Cur.i1, i, Cur.j1, j)
           rest == Op(Cur.tag, i, Cur.i2, j, Cur.j2)
           t == Tail(todo)
           whole == i = Cur.i2 /\ j = Cur.j2
<1>1. TurnOK
  BY TurnIsOK
<1>2. /\ Cur.tag \in Tags
      /\ Cur.i1 \in Nat /\ Cur.i2 \in Nat /\ Cur.j1 \in Nat /\ Cur.j2 \in Nat
      /\ Cur.i1 <= Cur.i2 /\ Cur.j1 <= Cur.j2
      /\ lines.aWritten \in SUBSET Nat /\ lines.bWritten \in SUBSET Nat
  BY <1>1, CurFacts
<1>3. /\ tag \in {Cur.tag, "filtered-equal"}
      /\ i \in Nat /\ Cur.i1 <= i /\ i <= Cur.i2
      /\ j \in Nat /\ Cur.j1 <= j /\ j <= Cur.j2
      /\ Cur.i1 < i \/ Cur.j1 < j
      /\ Cur.tag \in {"equal", "replace"} => i - Cur.i1 = j - Cur.j1
      /\ RightlyFiltered(op) /\ RightlyKept(op)
  BY DEF CutAt, Cut
<1>4. /\ lines' = lines
      /\ out' = Append(out, op)
      /\ todo' = IF whole THEN t ELSE <<rest>> \o t
      /\ orig' \in {O, [O EXCEPT !.entered = TRUE]}
      /\ new' \in {N, [N EXCEPT !.entered = TRUE]}
  BY DEF CutAt, Yield
<1>5. PICK p, q : Path(out, 0, 0, p, q) /\ Path(todo, p, q, lines.aLen, lines.bLen)
  BY DEF FilterInv, PathsMeet
<1>6. /\ Cur.i1 = p /\ Cur.j1 = q
      /\ Path(t, Cur.i2, Cur.j2, lines.aLen, lines.bLen)
  BY <1>5, PathTail DEF Cur
<1>7. OpFits(lines, Cur)
  BY <1>1 DEF TurnOK
<1>8. op \in Ops /\ op.tag = tag /\ op.i1 = Cur.i1 /\ op.i2 = i /\ op.j1 = Cur.j1 /\ op.j2 = j
  BY <1>2, <1>3 DEF Op, Ops
<1>9. ~whole => OpFits(lines, rest)
  <2> SUFFICES ASSUME ~whole PROVE OpFits(lines, rest)
    OBVIOUS
  <2>1. /\ rest.tag = Cur.tag /\ rest.i1 = i /\ rest.i2 = Cur.i2 /\ rest.j1 = j /\ rest.j2 = Cur.j2
        /\ rest \in [tag : Tags, i1 : Nat, i2 : Nat, j1 : Nat, j2 : Nat]
    BY <1>2, <1>3 DEF Op
  <2>2. i < Cur.i2 \/ j < Cur.j2
    BY <1>2, <1>3
  <2>3. Cur.tag = "equal" => Unmodified(lines, rest)
    <3> SUFFICES ASSUME Cur.tag = "equal" PROVE Unmodified(lines, rest)
      OBVIOUS
    <3>1. Unmodified(lines, Cur)
      BY <1>7 DEF OpFits
    <3>2. \A y \in i..Cur.i2 - 1 : y \in Cur.i1..Cur.i2 - 1
      BY <1>2, <1>3
    <3>3. \A y \in j..Cur.j2 - 1 : y \in Cur.j1..Cur.j2 - 1
      BY <1>2, <1>3
    <3> HIDE DEF rest
    <3> QED
      BY <2>1, <3>1, <3>2, <3>3 DEF Unmodified
  <2>4. Cur.tag \in {"equal", "replace"} => Cur.i2 - i = Cur.j2 - j
    <3>1. Cur.tag \in {"equal", "replace"} => Cur.i2 - Cur.i1 = Cur.j2 - Cur.j1
      BY <1>7 DEF OpFits
    <3> QED
      BY <1>2, <1>3, <3>1
  <2>5. /\ Cur.i2 <= lines.aLen /\ Cur.j2 <= lines.bLen
        /\ Cur.tag = "delete" => Cur.j1 = Cur.j2
        /\ Cur.tag = "insert" => Cur.i1 = Cur.i2
    BY <1>7 DEF OpFits
  <2>6. /\ Cur.tag = "delete" => j = Cur.j2
        /\ Cur.tag = "insert" => i = Cur.i2
    BY <1>2, <1>3, <2>5
  <2> HIDE DEF rest
  <2> QED
    BY <1>3, <2>1, <2>2, <2>3, <2>4, <2>5, <2>6 DEF OpFits
<1>10. Path(out', 0, 0, i, j)
  <2>1. Path(<<op>>, p, q, i, j)
    BY <1>6, <1>8, PathOne
  <2>2. Path(out \o <<op>>, 0, 0, i, j)
    BY <1>5, <2>1, PathJoin
  <2>3. out \in Seq(Ops)
    BY <1>5 DEF Path
  <2>4. out \o <<op>> = out'
    BY <1>4, <1>8, <2>3
  <2> QED
    BY <2>2, <2>4
<1>11. Path(todo', i, j, lines.aLen, lines.bLen)
  <2>1. CASE whole
    BY <1>4, <1>6, <2>1
  <2>2. CASE ~whole
    <3>1. rest \in Ops /\ rest.i1 = i /\ rest.i2 = Cur.i2 /\ rest.j1 = j /\ rest.j2 = Cur.j2
      BY <1>2, <1>3 DEF Op, Ops
    <3>2. Path(<<rest>>, i, j, Cur.i2, Cur.j2)
      BY <3>1, PathOne
    <3>3. Path(<<rest>> \o t, i, j, lines.aLen, lines.bLen)
      BY <1>6, <3>2, PathJoin
    <3> QED
      BY <1>4, <2>2, <3>3
  <2> QED
    BY <2>1, <2>2
<1>12. AllFit(lines, todo')
  <2>1. todo \in Seq(Ops) /\ t \in Seq(Ops)
    BY <1>5, <1>6 DEF Path
  <2>2. AllFit(lines, t)
    <3>1. \A k \in 1..Len(t) : k + 1 \in 1..Len(todo) /\ t[k] = todo[k + 1]
      BY <2>1
    <3> HIDE DEF t
    <3> QED
      BY <3>1 DEF FilterInv, AllFit
  <2>3. CASE whole
    BY <1>4, <2>2, <2>3
  <2>4. CASE ~whole
    <3>1. rest \in Ops
      BY <1>2, <1>3 DEF Op, Ops
    <3>2. AllFit(lines, <<rest>>) /\ <<rest>> \in Seq(Ops)
      <4> HIDE DEF rest
      <4> QED
        BY <1>9, <2>4, <3>1 DEF AllFit
    <3>3. AllFit(lines, <<rest>> \o t)
      BY <2>1, <2>2, <3>2, AllFitJoin
    <3> QED
      BY <1>4, <2>4, <3>3
  <2> QED
    BY <2>3, <2>4
<1>13. todo' # <<>> => todo'[1].i1 = i /\ todo'[1].j1 = j
  BY <1>11 DEF Path
<1>14. SideFits(orig', lines.aWritten, i) /\ SideFits(new', lines.bWritten, j)
  <2>1. SideFits(O, lines.aWritten, i) /\ SideFits([O EXCEPT !.entered = TRUE], lines.aWritten, i)
    <3>1. SideFits(O, lines.aWritten, Cur.i1)
      BY <1>1 DEF TurnOK
    <3> QED
      BY <1>2, <1>3, <3>1, FitsLater
  <2>2. SideFits(N, lines.bWritten, j) /\ SideFits([N EXCEPT !.entered = TRUE], lines.bWritten, j)
    <3>1. SideFits(N, lines.bWritten, Cur.j1)
      BY <1>1 DEF TurnOK
    <3> QED
      BY <1>2, <1>3, <3>1, FitsLater
  <2> QED
    BY <1>4, <2>1, <2>2
<1>15. YieldedRightly'
  <2>1. out \in Seq(Ops) /\ Len(out) \in Nat
    BY <1>5 DEF Path
  <2>2. Len(out') = Len(out) + 1 /\ \A k \in 1..Len(out) + 1 : out'[k] = IF k = Len(out) + 1 THEN op ELSE out[k]
    <3> HIDE DEF op
    <3> QED
      BY <1>4, <2>1
  <2>3. tag \in {"equal", "replace"} => i - Cur.i1 = j - Cur.j1
    BY <1>3
  <2> HIDE DEF op
  <2>5. ASSUME NEW k \in 1..Len(out')
        PROVE  /\ out'[k].tag \in {"equal", "replace"} =>
                    out'[k].i2 - out'[k].i1 = out'[k].j2 - out'[k].j1
               /\ RightlyFiltered(out'[k])
               /\ Filtered => RightlyKept(out'[k])
    <3>1. CASE k = Len(out) + 1
      BY <1>3, <1>8, <2>2, <2>3, <3>1
    <3>2. CASE k # Len(out) + 1
      <4>1. k \in 1..Len(out) /\ out'[k] = out[k]
        BY <2>1, <2>2, <3>2
      <4> QED
        BY <4>1 DEF FilterInv, YieldedRightly
    <3> QED
      BY <3>1, <3>2
  <2> QED
    BY <1>4, <2>5 DEF YieldedRightly, RightlyFiltered, RightlyKept, Filtered,
                      WrittenDeleted, WrittenInserted
<1>16. Left' < Left
  <2>1. Left = (lines.aLen - Cur.i1) + (lines.bLen - Cur.j1)
    BY DEF Left, Cur
  <2>2. Left' = IF todo' = <<>> THEN 0 ELSE (lines.aLen - i) + (lines.bLen - j)
    BY <1>4, <1>13 DEF Left
  <2>3. lines.aLen \in Nat /\ lines.bLen \in Nat /\ Cur.i2 <= lines.aLen /\ Cur.j2 <= lines.bLen
    BY <1>1, <1>7, LinesAssumption DEF OpFits, TurnOK, FilesOK, LinesOf
  <2>4. PICK m, n, k, l : /\ m = lines.aLen /\ n = lines.bLen
                          /\ k = Cur.i1 /\ l = Cur.j1
    OBVIOUS
  <2>5. /\ m \in Nat /\ n \in Nat /\ k \in Nat /\ l \in Nat
        /\ k <= i /\ i <= m /\ l <= j /\ j <= n /\ (k < i \/ l < j)
    <3>1. Cur.i2 \in Nat /\ Cur.j2 \in Nat /\ i <= Cur.i2 /\ j <= Cur.j2
      BY <1>2, <1>3
    <3>2. i <= lines.aLen /\ j <= lines.bLen
      BY <1>3, <2>3, <3>1
    <3> QED
      BY <1>2, <1>3, <2>3, <2>4, <3>2
  <2>6. PICK a, b, c, d : a = m - k /\ b = n - l /\ c = m - i /\ d = n - j
    OBVIOUS
  <2>8. /\ a \in Nat /\ b \in Nat /\ c \in Nat /\ d \in Nat
        /\ c <= a /\ d <= b /\ (c < a \/ d < b)
    BY <1>3, <2>5, <2>6
  <2>7. c + d < a + b /\ 0 < a + b
    BY <2>8
  <2> QED
    BY <2>1, <2>2, <2>4, <2>6, <2>7
<1>17. FilterInv'
  <2>1. FilesOK(lines') /\ PathsMeet' /\ AllFit(lines', todo')
    BY <1>1, <1>4, <1>10, <1>11, <1>12 DEF PathsMeet, TurnOK
  <2>2. todo' # <<>> => /\ SideFits(orig', lines'.aWritten, todo'[1].i1)
                       /\ SideFits(new', lines'.bWritten, todo'[1].j1)
    BY <1>4, <1>13, <1>14
  <2> QED
    BY <1>15, <2>1, <2>2 DEF FilterInv
<1> QED
  BY <1>16, <1>17

LEMMA UnfilteredKeeps ==
  ASSUME FilterInv, Unfiltered
  PROVE  FilterInv' /\ Left' < Left
<1>1. /\ ~Filtered /\ todo # <<>> /\ out' = out \o todo /\ todo' = <<>>
      /\ lines' = lines /\ orig' = orig /\ new' = new
  BY DEF Unfiltered
<1>2. PICK p, q : Path(out, 0, 0, p, q) /\ Path(todo, p, q, lines.aLen, lines.bLen)
  BY DEF FilterInv, PathsMeet
<1>3. PathsMeet'
  <2>1. Path(out', 0, 0, lines.aLen, lines.bLen)
    BY <1>1, <1>2, PathJoin
  <2>2. Path(todo', lines.aLen, lines.bLen, lines.aLen, lines.bLen)
    BY <1>1, NoPath
  <2> QED
    BY <1>1, <2>1, <2>2 DEF PathsMeet
<1>4. AllFit(lines, todo')
  BY <1>1 DEF AllFit
<1>5. YieldedRightly'
  <2>1. out \in Seq(Ops) /\ todo \in Seq(Ops) /\ Len(out) \in Nat /\ Len(todo) \in Nat
    BY <1>2 DEF Path
  <2>2. ASSUME NEW k \in 1..Len(out')
        PROVE  /\ out'[k].tag \in {"equal", "replace"} =>
                    out'[k].i2 - out'[k].i1 = out'[k].j2 - out'[k].j1
               /\ RightlyFiltered(out'[k])
    <3>1. k \in 1..Len(out) + Len(todo)
      BY <1>1, <2>1
    <3>2. out'[k] = IF k <= Len(out) THEN out[k] ELSE todo[k - Len(out)]
      BY <1>1, <2>1, <3>1
    <3>3. CASE k <= Len(out)
      <4>1. k \in 1..Len(out) /\ out'[k] = out[k]
        BY <2>1, <3>1, <3>2, <3>3
      <4> QED
        BY <4>1 DEF FilterInv, YieldedRightly
    <3>4. CASE ~(k <= Len(out))
      <4>1. PICK l : l = k - Len(out)
        OBVIOUS
      <4>2. l \in 1..Len(todo) /\ out'[k] = todo[l]
        BY <2>1, <3>1, <3>2, <3>4, <4>1
      <4>3. OpFits(lines, todo[l])
        BY <4>2 DEF FilterInv, AllFit
      <4> QED
        BY <4>2, <4>3 DEF OpFits, RightlyFiltered, Tags
    <3> QED
      BY <3>3, <3>4
  <2> QED
    BY <1>1, <2>2 DEF YieldedRightly, RightlyFiltered, Filtered, WrittenDeleted, WrittenInserted
<1>6. Left' < Left
  <2>1. 1 \in 1..Len(todo)
    BY <1>1, <1>2 DEF Path
  <2>2. OpFits(lines, todo[1])
    BY <2>1 DEF FilterInv, AllFit
  <2>3. PICK a, b : a = lines.aLen - todo[1].i1 /\ b = lines.bLen - todo[1].j1
    OBVIOUS
  <2>4. a \in Nat /\ b \in Nat /\ (a > 0 \/ b > 0)
    <3>1. lines.aLen \in Nat /\ lines.bLen \in Nat
      BY LinesAssumption DEF FilterInv, FilesOK, LinesOf
    <3> QED
      BY <2>2, <2>3, <3>1 DEF OpFits
  <2>5. Left' = 0 /\ Left = a + b
    BY <1>1, <2>3 DEF Left
  <2> QED
    BY <2>4, <2>5
<1> QED
  BY <1>1, <1>3, <1>4, <1>5, <1>6 DEF FilterInv

LEMMA FilterNextKeeps ==
  ASSUME FilterInv, FilterNext
  PROVE  FilterInv' /\ Left' < Left
<1>1. CASE Unfiltered
  BY <1>1, UnfilteredKeeps
<1>2. ASSUME SplitBefore \/ KeepAtBoundary \/ FilterOut \/ Keep
      PROVE  FilterInv' /\ Left' < Left
  <2>1. todo # <<>>
    BY <1>2 DEF SplitBefore, KeepAtBoundary, FilterOut, Keep, Outside, InRange, Turn
  <2>2. TurnOK
    BY <2>1, TurnIsOK
  <2>3. CASE SplitBefore
    <3>1. CutTurn
      BY <2>2, <2>3, SplitBeforeCuts
    <3> QED
      BY <2>1, <3>1, CutKeeps DEF CutTurn
  <2>4. CASE KeepAtBoundary
    <3>1. CutTurn
      BY <2>2, <2>4, KeepAtBoundaryCuts
    <3> QED
      BY <2>1, <3>1, CutKeeps DEF CutTurn
  <2>5. CASE FilterOut
    <3>1. CutTurn
      BY <2>2, <2>5, FilterOutCuts
    <3> QED
      BY <2>1, <3>1, CutKeeps DEF CutTurn
  <2>6. CASE Keep
    <3>1. CutTurn
      BY <2>2, <2>6, KeepCuts
    <3> QED
      BY <2>1, <3>1, CutKeeps DEF CutTurn
  <2> QED
    BY <1>2, <2>3, <2>4, <2>5, <2>6
<1> QED
  BY <1>1, <1>2 DEF FilterNext

LEMMA FilterInvHolds == FilterSpec => []FilterInv
<1>1. FilterInit => FilterInv
  BY FilterInitInv
<1>2. FilterInv /\ [FilterNext]_filterVars => FilterInv'
  <2> SUFFICES ASSUME FilterInv, [FilterNext]_filterVars PROVE FilterInv'
    OBVIOUS
  <2>1. CASE FilterNext
    BY <2>1, FilterNextKeeps
  <2>2. CASE UNCHANGED filterVars
    BY <2>2 DEF filterVars, FilterInv, PathsMeet, YieldedRightly, RightlyFiltered, RightlyKept,
                Filtered, WrittenDeleted, WrittenInserted
  <2> QED
    BY <2>1, <2>2
<1> QED
  BY <1>1, <1>2, PTL DEF FilterSpec

(* Whatever the differ found and the diffs wrote, the opcodes yielded and  *)
(* those put back cover both files in order, nothing lost or shown twice,  *)
(* and stay aligned.                                                       *)
THEOREM FilteredOpcodesTile == FilterSpec => []Tiled
<1>1. FilterInv => Tiled
  <2> SUFFICES ASSUME FilterInv PROVE Tiled
    OBVIOUS
  <2>1. PICK p, q : Path(out, 0, 0, p, q) /\ Path(todo, p, q, lines.aLen, lines.bLen)
    BY DEF FilterInv, PathsMeet
  <2>2. PICK all : all = out \o todo
    OBVIOUS
  <2>3. Path(all, 0, 0, lines.aLen, lines.bLen)
    BY <2>1, <2>2, PathJoin
  <2>4. all \in Seq(Ops) /\ DOMAIN all = 1..Len(all) /\ Len(all) \in Nat
        /\ out \in Seq(Ops) /\ todo \in Seq(Ops) /\ Len(out) \in Nat /\ Len(todo) \in Nat
        /\ Len(all) = Len(out) + Len(todo)
    BY <2>1, <2>2, <2>3 DEF Path
  <2>5. ASSUME NEW k \in 1..Len(all), all[k].tag \in {"equal", "replace"}
        PROVE  all[k].i2 - all[k].i1 = all[k].j2 - all[k].j1
    <3>1. all[k] = IF k <= Len(out) THEN out[k] ELSE todo[k - Len(out)]
      BY <2>2, <2>4
    <3>2. CASE k <= Len(out)
      <4>1. k \in 1..Len(out) /\ all[k] = out[k]
        BY <2>4, <3>1, <3>2
      <4> QED
        BY <2>5, <4>1 DEF FilterInv, YieldedRightly
    <3>3. CASE ~(k <= Len(out))
      <4>1. PICK l : l = k - Len(out)
        OBVIOUS
      <4>2. l \in 1..Len(todo) /\ all[k] = todo[l]
        BY <2>4, <3>1, <3>3, <4>1
      <4>3. OpFits(lines, todo[l])
        BY <4>2 DEF FilterInv, AllFit
      <4> QED
        BY <2>5, <4>2, <4>3 DEF OpFits
    <3> QED
      BY <3>2, <3>3
  <2>6. InRange /\ Even /\ OrigEnd > Cap(O, Cur.i2) => NewEnd <= Cap(N, Cur.j2)
    <3> SUFFICES ASSUME InRange, Even, OrigEnd > Cap(O, Cur.i2)
                 PROVE  NewEnd <= Cap(N, Cur.j2)
      OBVIOUS
    <3>1. todo # <<>>
      BY DEF InRange, Turn
    <3>2. TurnOK
      BY <3>1, TurnIsOK
    <3>3. Cur.i2 \in Nat /\ Cur.j2 \in Nat
      BY <3>2, CurFacts
    <3>4. /\ OrigValid => Has(O) /\ Hi(O) \in Nat
          /\ NewValid => Has(N) /\ Hi(N) \in Nat
      BY <3>2 DEF TurnOK, FirstFits, OrigValid, NewValid, Within
    <3>5. ~OrigValid
      <4> SUFFICES ASSUME OrigValid PROVE FALSE
        OBVIOUS
      <4>1. OrigEnd = Smaller(Cur.i2, Hi(O)) /\ Cap(O, Cur.i2) = Hi(O)
        BY <3>4 DEF OrigEnd, ValidEnd, Cap
      <4> QED
        BY <3>3, <3>4, <4>1 DEF Smaller
    <3>6. NewValid
      BY <3>5 DEF InRange
    <3>7. NewEnd = Smaller(Cur.j2, Hi(N)) /\ Cap(N, Cur.j2) = Hi(N)
      BY <3>4, <3>6 DEF NewEnd, ValidEnd, Cap
    <3> QED
      BY <3>3, <3>4, <3>6, <3>7 DEF Smaller
  <2>7. EvenOpcodes
    BY <2>2, <2>4, <2>5, <2>6 DEF EvenOpcodes
  <2>8. ASSUME NEW k \in 1..Len(all) - 1
        PROVE  all[k].i2 = all[k + 1].i1 /\ all[k].j2 = all[k + 1].j1
    <3>1. k \in 1..Len(all) /\ k + 1 \in 1..Len(all)
      BY <2>4
    <3> QED
      BY <2>3, <3>1 DEF Path, Adjacent
  <2> QED
    BY <2>2, <2>3, <2>7, <2>8 DEF Tiled, Path
<1> QED
  BY <1>1, FilterInvHolds, PTL

(* Nothing that a diff wrote and the other does not have is filtered from  *)
(* an insert or a delete, and of a replace no more than one side.          *)
THEOREM FilterKeepsChanges == FilterSpec => []ChangesKept
<1>1. FilterInv => ChangesKept
  <2> SUFFICES ASSUME FilterInv PROVE ChangesKept
    OBVIOUS
  <2>1. DOMAIN out = 1..Len(out)
    BY DEF FilterInv, PathsMeet, Path
  <2> QED
    BY <2>1 DEF ChangesKept, FilterInv, YieldedRightly, RightlyFiltered
<1> QED
  BY <1>1, FilterInvHolds, PTL

(* An insert or a delete that no diff wrote is only kept in between of two *)
(* ranges of lines that one did.                                           *)
THEOREM FilterDropsUpstream == FilterSpec => []UpstreamFiltered
<1>1. FilterInv => UpstreamFiltered
  <2> SUFFICES ASSUME FilterInv PROVE UpstreamFiltered
    OBVIOUS
  <2>1. DOMAIN out = 1..Len(out)
    BY DEF FilterInv, PathsMeet, Path
  <2> QED
    BY <2>1 DEF UpstreamFiltered, FilterInv, YieldedRightly, RightlyKept
<1> QED
  BY <1>1, FilterInvHolds, PTL

(* Every turn moves past some line, so that the loop ends, though an       *)
(* opcode may be put back any number of times.                             *)
THEOREM FilterProgresses == FilterSpec => Progress
<1>1. FilterInv /\ [FilterNext]_filterVars => [Left' < Left]_filterVars
  BY FilterNextKeeps
<1> QED
  BY <1>1, FilterInvHolds, PTL DEF FilterSpec, Progress
===============================================================================
