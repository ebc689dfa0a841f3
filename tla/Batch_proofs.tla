---------------------------- MODULE Batch_proofs ----------------------------
(***************************************************************************)
(* Proofs about Batch, for any finite sets of review requests and reviews, *)
(* and any number of batches and drafts.                                   *)
(***************************************************************************)
EXTENDS Batch, FiniteSetTheorems, SequenceTheorems, TLAPS

(***************************************************************************)
(* The queue of a batch.                                                   *)
(***************************************************************************)

In(s) == {s[i] : i \in 1..Len(s)}

(* No item twice, and no review before a review request.                   *)
Ordered(s) ==
  /\ \A i, j \in 1..Len(s) : s[i] = s[j] => i = j
  /\ \A i, j \in 1..Len(s) : i < j /\ s[j] \in ReviewRequests =>
                               s[i] \in ReviewRequests

(* A finite set as a sequence has each of its elements once.               *)
LEMMA SetToSeqFacts ==
  ASSUME NEW S, IsFiniteSet(S)
  PROVE  /\ SetToSeq(S) \in Seq(S) /\ In(SetToSeq(S)) = S
         /\ \A i, j \in 1..Len(SetToSeq(S)) :
              SetToSeq(S)[i] = SetToSeq(S)[j] => i = j
<1> DEFINE n == Cardinality(S)
           f == SetToSeq(S)
<1>1. n \in Nat /\ ExistsBijection(1..n, S)
  BY FS_CardinalityType
<1>2. \E g \in [1..n -> S] : IsInjective(g)
  BY <1>1 DEF ExistsBijection, Bijection, Injection
<1>3. f \in [1..n -> S] /\ IsInjective(f)
  BY <1>2 DEF SetToSeq
<1>4. f \in Seq(S) /\ Len(f) = n /\ DOMAIN f = 1..n
  BY <1>1, <1>3
<1>5. f \in Surjection(1..n, S)
  <2>1. IsFiniteSet(1..n) /\ Cardinality(1..n) = n
    BY <1>1, FS_Interval
  <2>2. f \in Injection(1..n, S)
    BY <1>3 DEF Injection
  <2> HIDE DEF f
  <2>3. QED
    BY <2>1, <2>2, FS_Injection
<1>6. \A x \in S : \E i \in 1..n : f[i] = x
  BY <1>5 DEF Surjection
<1>7. In(f) = S
  BY <1>3, <1>4, <1>6 DEF In
<1>8. \A i, j \in 1..Len(f) : f[i] = f[j] => i = j
  BY <1>3, <1>4 DEF IsInjective
<1>9. QED
  BY <1>4, <1>7, <1>8

(* The queue has everything once, and the review requests first.           *)
LEMMA QueueFacts ==
  ASSUME NEW rs \in SUBSET ReviewRequests, NEW vs \in SUBSET Reviews
  PROVE  /\ Queue(rs, vs) \in Seq(Items)
         /\ In(Queue(rs, vs)) = rs \cup vs
         /\ Ordered(Queue(rs, vs))
<1> DEFINE a == SetToSeq(rs)
           b == SetToSeq(vs)
           q == a \o b
<1>1. IsFiniteSet(rs) /\ IsFiniteSet(vs) /\ rs \cap vs = {}
  BY BatchAssumption, FS_Subset
<1>2. /\ a \in Seq(rs) /\ In(a) = rs
      /\ \A i, j \in 1..Len(a) : a[i] = a[j] => i = j
      /\ b \in Seq(vs) /\ In(b) = vs
      /\ \A i, j \in 1..Len(b) : b[i] = b[j] => i = j
  BY <1>1, SetToSeqFacts
<1> HIDE DEF a, b
<1>3. a \in Seq(Items) /\ b \in Seq(Items)
  BY <1>2 DEF Items
<1>4. /\ q \in Seq(Items) /\ Len(q) = Len(a) + Len(b)
      /\ Len(a) \in Nat /\ Len(b) \in Nat
      /\ \A i \in 1..Len(a) : q[i] = a[i]
      /\ \A i \in Len(a)+1..Len(q) : q[i] = b[i - Len(a)]
  BY <1>3
<1>5. ASSUME NEW i \in 1..Len(q)
      PROVE  /\ i <= Len(a) => q[i] \in rs /\ q[i] = a[i] /\ i \in 1..Len(a)
             /\ i > Len(a) => /\ q[i] \in vs /\ q[i] = b[i - Len(a)]
                              /\ i - Len(a) \in 1..Len(b)
  BY <1>2, <1>4
<1>6. In(q) = rs \cup vs
  <2>1. ASSUME NEW x \in rs
        PROVE  x \in In(q)
    <3>1. PICK i \in 1..Len(a) : a[i] = x
      BY <1>2, <2>1 DEF In
    <3>2. i \in 1..Len(q) /\ q[i] = x
      BY <1>4, <3>1
    <3>3. QED
      BY <3>2 DEF In
  <2>2. ASSUME NEW x \in vs
        PROVE  x \in In(q)
    <3>1. PICK i \in 1..Len(b) : b[i] = x
      BY <1>2, <2>2 DEF In
    <3>2. i + Len(a) \in Len(a)+1..Len(q) /\ (i + Len(a)) - Len(a) = i
      BY <1>4, <3>1
    <3>3. i + Len(a) \in 1..Len(q) /\ q[i + Len(a)] = x
      BY <1>4, <3>1, <3>2
    <3>4. QED
      BY <3>3 DEF In
  <2>3. \A i \in 1..Len(q) : q[i] \in rs \cup vs
    BY <1>4, <1>5
  <2>4. QED
    BY <2>1, <2>2, <2>3 DEF In
<1>7. Ordered(q)
  <2>1. ASSUME NEW i \in 1..Len(q), NEW j \in 1..Len(q), q[i] = q[j]
        PROVE  i = j
    <3>1. i <= Len(a) <=> j <= Len(a)
      BY <1>1, <1>4, <1>5, <2>1
    <3>2. CASE i <= Len(a)
      BY <1>2, <1>5, <2>1, <3>1, <3>2
    <3>3. CASE i > Len(a)
      <4>1. i - Len(a) = j - Len(a)
        BY <1>2, <1>4, <1>5, <2>1, <3>1, <3>3
      <4>2. QED
        BY <1>4, <4>1
    <3>4. QED
      BY <1>4, <3>2, <3>3
  <2>2. ASSUME NEW i \in 1..Len(q), NEW j \in 1..Len(q), i < j,
               q[j] \in ReviewRequests
        PROVE  q[i] \in ReviewRequests
    <3>1. ~(j > Len(a))
      BY <1>5, <2>2, BatchAssumption
    <3>2. i <= Len(a)
      BY <1>4, <2>2, <3>1
    <3>3. QED
      BY <1>5, <3>2
  <2>3. QED
    BY <2>1, <2>2 DEF Ordered
<1>8. QED
  BY <1>4, <1>6, <1>7 DEF Queue, a, b

(* The rest of a queue, when its first item has been dealt with.           *)
LEMMA TailFacts ==
  ASSUME NEW s \in Seq(Items), s # <<>>, Ordered(s)
  PROVE  /\ Head(s) \in In(s) /\ Tail(s) \in Seq(Items) /\ Ordered(Tail(s))
         /\ In(Tail(s)) = In(s) \ {Head(s)}
         /\ Head(s) \notin ReviewRequests => In(s) \cap ReviewRequests = {}
<1>1. /\ Len(s) \in Nat /\ Len(s) >= 1 /\ Head(s) = s[1]
      /\ Tail(s) \in Seq(Items) /\ Len(Tail(s)) = Len(s) - 1
      /\ \A i \in 1..Len(Tail(s)) : Tail(s)[i] = s[i + 1]
  OBVIOUS
<1>2. 1 \in 1..Len(s) /\ \A i \in 1..Len(Tail(s)) : i + 1 \in 1..Len(s)
  BY <1>1
<1>3. Head(s) \in In(s)
  BY <1>1, <1>2 DEF In
<1>4. Ordered(Tail(s))
  <2>1. ASSUME NEW i \in 1..Len(Tail(s)), NEW j \in 1..Len(Tail(s))
        PROVE  /\ Tail(s)[i] = Tail(s)[j] => i = j
               /\ i < j /\ Tail(s)[j] \in ReviewRequests =>
                    Tail(s)[i] \in ReviewRequests
    <3>1. /\ i + 1 \in 1..Len(s) /\ Tail(s)[i] = s[i + 1]
          /\ j + 1 \in 1..Len(s) /\ Tail(s)[j] = s[j + 1]
      BY <1>1, <1>2
    <3>2. i + 1 = j + 1 => i = j
      BY <1>1
    <3>3. i < j => i + 1 < j + 1
      BY <1>1
    <3>4. QED
      BY <3>1, <3>2, <3>3 DEF Ordered
  <2>2. QED
    BY <2>1 DEF Ordered
<1>5. In(Tail(s)) = In(s) \ {Head(s)}
  <2>1. ASSUME NEW x \in In(Tail(s))
        PROVE  x \in In(s) \ {Head(s)}
    <3>1. PICK i \in 1..Len(Tail(s)) : Tail(s)[i] = x
      BY <2>1 DEF In
    <3>2. i + 1 \in 1..Len(s) /\ s[i + 1] = x /\ i + 1 # 1
      BY <1>1, <1>2, <3>1
    <3>3. x # s[1]
      BY <1>2, <3>2 DEF Ordered
    <3>4. QED
      BY <1>1, <3>2, <3>3 DEF In
  <2>2. ASSUME NEW x \in In(s) \ {Head(s)}
        PROVE  x \in In(Tail(s))
    <3>1. PICK i \in 1..Len(s) : s[i] = x
      BY <2>2 DEF In
    <3>2. i # 1
      BY <1>1, <2>2, <3>1
    <3>3. i - 1 \in 1..Len(Tail(s)) /\ (i - 1) + 1 = i
      BY <1>1, <3>1, <3>2
    <3>4. Tail(s)[i - 1] = x
      BY <1>1, <3>1, <3>3
    <3>5. QED
      BY <3>3, <3>4 DEF In
  <2>3. QED
    BY <2>1, <2>2
<1>6. Head(s) \notin ReviewRequests => In(s) \cap ReviewRequests = {}
  <2>1. SUFFICES ASSUME NEW i \in 1..Len(s), s[i] \in ReviewRequests
                 PROVE  s[1] \in ReviewRequests
    BY <1>1 DEF In
  <2>2. i = 1 \/ 1 < i
    BY <1>1
  <2>3. QED
    BY <1>2, <2>1, <2>2 DEF Ordered
<1>7. QED
  BY <1>1, <1>3, <1>4, <1>5, <1>6

(***************************************************************************)
(* Types, and the shape of a batch.                                        *)
(***************************************************************************)

(* What is still to be published is what was asked for and is not done;    *)
(* reviews are begun when the review requests are done.                    *)
Shape(b) ==
  /\ Ordered(batch[b].todo)
  /\ batch[b].asked = batch[b].done \cup In(batch[b].todo)
  /\ batch[b].done \cap In(batch[b].todo) = {}
  /\ In(batch[b].todo) \cap ReviewRequests # {} =>
       batch[b].done \subseteq ReviewRequests
  /\ batch[b].held \in [batch[b].asked \cap ReviewRequests -> Draft]

BatchInv == TypeOK /\ \A b \in Batches : Under(b) => Shape(b)

LEMMA BatchFields ==
  ASSUME TypeOK, NEW b \in Batches, Under(b)
  PROVE  /\ batch[b] \in Underway
         /\ batch[b].asked \subseteq Items /\ batch[b].done \subseteq Items
         /\ batch[b].todo \in Seq(Items)
         /\ batch[b].quiet \in BOOLEAN /\ batch[b].trivial \in BOOLEAN
  BY DEF TypeOK, Under, Underway

(* A batch has begun, with everything still to be done.                    *)
Begun(b, rs, vs) ==
  /\ ~Under(b) /\ Under(b)'
  /\ batch' \in [Batches -> Underway \cup {Idle}]
  /\ batch'[b].asked = rs \cup vs /\ batch'[b].done = {}
  /\ In(batch'[b].todo) = rs \cup vs /\ Ordered(batch'[b].todo)
  /\ batch'[b].held \in [rs -> Draft]
  /\ \A r \in rs : batch'[b].held[r] = rr[r].draft
  /\ (rs \cup vs) \cap ReviewRequests = rs
  /\ \A c \in Batches \ {b} : batch'[c] = batch[c]
  /\ \A v \in vs : ~review[v].public
  /\ harm' = Touched(rs \cup vs)
  /\ UNCHANGED <<rr, review, drafts, answer, unsent, stripped>>

LEMMA StartFacts ==
  ASSUME TypeOK, NEW b \in Batches, NEW rs \in SUBSET ReviewRequests,
         NEW vs \in SUBSET Reviews, NEW trivial \in BOOLEAN,
         Start(b, rs, vs, trivial)
  PROVE  Begun(b, rs, vs)
<1> DEFINE row == [asked |-> rs \cup vs, done |-> {}, todo |-> Queue(rs, vs),
                   held |-> [r \in rs |-> rr[r].draft],
                   quiet |-> trivial \/ Cardinality(rs \cup vs) # 1,
                   trivial |-> trivial]
<1>1. /\ ~Under(b) /\ batch' = [batch EXCEPT ![b] = row]
      /\ \A v \in vs : ~review[v].public
      /\ harm' = Touched(rs \cup vs)
      /\ UNCHANGED <<rr, review, drafts, answer, unsent, stripped>>
  BY DEF Start, Begin
<1>2. [r \in rs |-> rr[r].draft] \in [rs -> Draft]
  BY DEF TypeOK, RowOfRequest
<1>3. /\ Queue(rs, vs) \in Seq(Items) /\ In(Queue(rs, vs)) = rs \cup vs
      /\ Ordered(Queue(rs, vs))
  BY QueueFacts
<1>4. row \in Underway
  <2>1. [r \in rs |-> rr[r].draft]
          \in UNION {[ss -> Draft] : ss \in SUBSET ReviewRequests}
    BY <1>2
  <2>2. rs \cup vs \subseteq Items
    BY DEF Items
  <2>3. QED
    BY <1>3, <2>1, <2>2 DEF Underway
<1>5. /\ row.asked = rs \cup vs /\ row.done = {}
      /\ row.todo = Queue(rs, vs) /\ row.held = [r \in rs |-> rr[r].draft]
  OBVIOUS
<1>6. (rs \cup vs) \cap ReviewRequests = rs
  BY BatchAssumption
<1> HIDE DEF row
<1>7. /\ batch' \in [Batches -> Underway \cup {Idle}]
      /\ batch'[b] = row /\ row # Idle
      /\ \A c \in Batches \ {b} : batch'[c] = batch[c]
  BY <1>1, <1>4, BatchAssumption DEF TypeOK
<1>8. QED
  BY <1>1, <1>2, <1>3, <1>5, <1>6, <1>7 DEF Under, Begun

(* A batch goes on to its next item.                                       *)
LEMMA AdvanceFacts ==
  ASSUME BatchInv, NEW b \in Batches, NEW items, Turn(b, items),
         NEW x, x = Current(b), Published(b, x)
  PROVE  /\ x \in items /\ x \in Items /\ x \in In(batch[b].todo)
         /\ x \in batch[b].asked
         /\ Under(b) /\ Under(b)'
         /\ batch' \in [Batches -> Underway \cup {Idle}]
         /\ batch'[b].asked = batch[b].asked
         /\ batch'[b].done = batch[b].done \cup {x}
         /\ In(batch'[b].todo) = In(batch[b].todo) \ {x}
         /\ batch'[b].held = batch[b].held
         /\ batch'[b].quiet = batch[b].quiet
         /\ x \notin ReviewRequests =>
              In(batch[b].todo) \cap ReviewRequests = {}
         /\ Shape(b)'
         /\ \A c \in Batches \ {b} : batch'[c] = batch[c]
<1> DEFINE old == batch[b]
           row == [old EXCEPT !.todo = Tail(old.todo),
                              !.done = old.done \cup {x}]
<1>1. /\ Under(b) /\ old.todo # <<>> /\ x = Head(old.todo) /\ x \in items
      /\ batch' = [batch EXCEPT ![b] = row]
  BY DEF Turn, Current, Published
<1>2. /\ old \in Underway /\ old.todo \in Seq(Items)
      /\ old.asked \subseteq Items /\ old.done \subseteq Items /\ Shape(b)
  BY <1>1, BatchFields DEF BatchInv
<1>3. /\ x \in In(old.todo) /\ Tail(old.todo) \in Seq(Items)
      /\ Ordered(Tail(old.todo))
      /\ In(Tail(old.todo)) = In(old.todo) \ {x}
      /\ x \notin ReviewRequests => In(old.todo) \cap ReviewRequests = {}
  BY <1>1, <1>2, TailFacts DEF Shape
<1>4. x \in Items /\ x \in old.asked
  BY <1>2, <1>3 DEF Shape
<1>5. /\ row \in Underway /\ row.asked = old.asked
      /\ row.done = old.done \cup {x} /\ row.todo = Tail(old.todo)
      /\ row.held = old.held /\ row.quiet = old.quiet
  BY <1>2, <1>3, <1>4 DEF Underway
<1>6. /\ batch' \in [Batches -> Underway \cup {Idle}]
      /\ batch'[b] = row /\ row # Idle
      /\ \A c \in Batches \ {b} : batch'[c] = batch[c]
  <2> HIDE DEF row, old
  <2>1. QED
    BY <1>1, <1>5, BatchAssumption DEF BatchInv, TypeOK
<1> HIDE DEF row
<1>7. Shape(b)'
  <2>1. /\ old.asked = old.done \cup In(old.todo)
        /\ old.done \cap In(old.todo) = {}
        /\ In(old.todo) \cap ReviewRequests # {} =>
             old.done \subseteq ReviewRequests
        /\ old.held \in [old.asked \cap ReviewRequests -> Draft]
    BY <1>2 DEF Shape
  <2>2. /\ row.asked = row.done \cup In(row.todo)
        /\ row.done \cap In(row.todo) = {}
    BY <1>3, <1>5, <2>1
  <2>3. In(row.todo) \cap ReviewRequests # {} =>
          row.done \subseteq ReviewRequests
    BY <1>3, <1>5, <2>1
  <2>4. row.held \in [row.asked \cap ReviewRequests -> Draft]
    BY <1>5, <2>1
  <2>5. Ordered(row.todo)
    BY <1>3, <1>5
  <2> HIDE DEF old
  <2>6. QED
    BY <1>6, <2>2, <2>3, <2>4, <2>5 DEF Shape
<1>8. QED
  BY <1>1, <1>3, <1>4, <1>5, <1>6, <1>7 DEF Under

(* A batch ends.                                                           *)
LEMMA IdleFacts ==
  ASSUME TypeOK, NEW b \in Batches, batch' = [batch EXCEPT ![b] = Idle]
  PROVE  /\ batch' \in [Batches -> Underway \cup {Idle}] /\ ~Under(b)'
         /\ \A c \in Batches \ {b} : batch'[c] = batch[c]
  BY DEF TypeOK, Under

(* The other batches keep their shape.                                     *)
LEMMA ShapesKept ==
  ASSUME BatchInv, NEW b \in Batches,
         \A c \in Batches \ {b} : batch'[c] = batch[c],
         Under(b)' => Shape(b)'
  PROVE  \A c \in Batches : Under(c)' => Shape(c)'
<1>1. SUFFICES ASSUME NEW c \in Batches, Under(c)'
               PROVE  Shape(c)'
  OBVIOUS
<1>2. CASE c = b
  BY <1>1, <1>2
<1>3. CASE c # b
  BY <1>1, <1>3 DEF BatchInv, Under, Shape
<1>4. QED
  BY <1>2, <1>3

(***************************************************************************)
(* Every step keeps types and shapes.                                      *)
(***************************************************************************)

LEMMA ItemsFinite ==
  /\ IsFiniteSet(Items)
  /\ \A S \in SUBSET Items : IsFiniteSet(S) /\ Cardinality(S) \in Nat
<1>1. IsFiniteSet(Items)
  BY BatchAssumption, FS_Union DEF Items
<1>2. QED
  BY <1>1, FS_Subset, FS_CardinalityType

(* Rows of their types when one is replaced.                               *)
RowsTyped ==
  /\ rr \in [ReviewRequests -> RowOfRequest]
  /\ review \in [Reviews -> RowOfReview]
  /\ drafts \in 0..MaxDrafts

(* The operations of the API, which disturb the batches that hold what     *)
(* they change.                                                            *)
ApiStep ==
  \/ \E r \in ReviewRequests :
       \/ DiscardDraft(r)
       \/ \E complete, named \in BOOLEAN : EditDraft(r, complete, named)
  \/ \E v \in Reviews, content \in Contents : Write(v, content)

(* The steps of a batch that is under way.                                 *)
BatchStep(b) ==
  PublishRequest(b) \/ RefuseRequest(b) \/ PublishReview(b) \/ RefuseReview(b)
    \/ Finish(b)

Begins(b) ==
  \E rs \in SUBSET ReviewRequests, vs \in SUBSET Reviews : Begun(b, rs, vs)

LEMMA NextCases ==
  ASSUME TypeOK, Next
  PROVE  ApiStep \/ \E b \in Batches : Begins(b) \/ BatchStep(b)
<1>1. ASSUME NEW b \in Batches, NEW rs \in SUBSET ReviewRequests,
             NEW vs \in SUBSET Reviews, NEW trivial \in BOOLEAN,
             Start(b, rs, vs, trivial)
      PROVE  Begins(b)
  BY <1>1, StartFacts DEF Begins
<1>2. QED
  BY <1>1 DEF Next, ApiStep, BatchStep

Apiless == <<batch, answer, unsent, stripped>>

LEMMA ApiTyped ==
  ASSUME BatchInv, ApiStep
  PROVE  BatchInv' /\ harm \subseteq harm' /\ UNCHANGED Apiless
<1>1. NoDraft \in Draft
  BY BatchAssumption DEF NoDraft, Draft
<1>2. /\ UNCHANGED Apiless
      /\ harm' \in {harm, harm \cup {"met"}}
  BY DEF Apiless, ApiStep, DiscardDraft, EditDraft, Write, Touched
<1>3. RowsTyped'
  <2>1. ASSUME NEW r \in ReviewRequests, NEW complete \in BOOLEAN,
               NEW named \in BOOLEAN, EditDraft(r, complete, named)
        PROVE  RowsTyped'
    <3> DEFINE id == IF rr[r].draft = NoDraft THEN drafts + 1
                                              ELSE rr[r].draft.id
               d == [id |-> id, complete |-> complete]
    <3>1. /\ id <= MaxDrafts /\ UNCHANGED review
          /\ drafts' = IF rr[r].draft = NoDraft THEN id ELSE drafts
          /\ rr' = [rr EXCEPT ![r] =
                      [rr[r] EXCEPT !.draft = d, !.named = named]]
      BY <2>1 DEF EditDraft, BatchInv, TypeOK
    <3>2. rr[r] \in RowOfRequest /\ drafts \in 0..MaxDrafts
      BY DEF BatchInv, TypeOK
    <3>3. id \in 0..MaxDrafts
      <4>1. rr[r].draft \in Draft
        BY <3>2 DEF RowOfRequest
      <4>2. rr[r].draft.id \in 0..MaxDrafts
        BY <4>1 DEF Draft
      <4>3. QED
        BY <3>1, <3>2, <4>2, BatchAssumption
    <3>4. d \in Draft /\ drafts' \in 0..MaxDrafts
      BY <3>1, <3>2, <3>3 DEF Draft
    <3> HIDE DEF d, id
    <3>5. [rr[r] EXCEPT !.draft = d, !.named = named] \in RowOfRequest
      BY <3>2, <3>4 DEF RowOfRequest
    <3>6. QED
      BY <3>1, <3>4, <3>5 DEF BatchInv, TypeOK, RowsTyped
  <2>2. ASSUME NEW r \in ReviewRequests, DiscardDraft(r)
        PROVE  RowsTyped'
    <3>1. [rr[r] EXCEPT !.draft = NoDraft, !.named = FALSE] \in RowOfRequest
      BY <1>1 DEF BatchInv, TypeOK, RowOfRequest
    <3>2. \A v \in Reviews :
            [review[v] EXCEPT !.content = @ \ {"comment on a draft"}]
              \in RowOfReview
      BY DEF BatchInv, TypeOK, RowOfReview
    <3>3. /\ rr' = [rr EXCEPT ![r] =
                      [rr[r] EXCEPT !.draft = NoDraft, !.named = FALSE]]
          /\ UNCHANGED drafts
      BY <2>2 DEF DiscardDraft, BatchInv, TypeOK
    <3>4. review' \in [Reviews -> RowOfReview]
      BY <2>2, <3>2 DEF DiscardDraft, BatchInv, TypeOK
    <3>5. QED
      BY <3>1, <3>3, <3>4 DEF BatchInv, TypeOK, RowsTyped
  <2>3. ASSUME NEW v \in Reviews, NEW content \in Contents, Write(v, content)
        PROVE  RowsTyped'
    <3>1. [review[v] EXCEPT !.content = @ \cup {content}] \in RowOfReview
      BY DEF BatchInv, TypeOK, RowOfReview
    <3>2. QED
      BY <2>3, <3>1 DEF Write, BatchInv, TypeOK, RowsTyped
  <2>4. QED
    BY <2>1, <2>2, <2>3 DEF ApiStep
<1>4. QED
  BY <1>2, <1>3 DEF Apiless, BatchInv, TypeOK, RowsTyped, Under, Shape, Harms

LEMMA StartTyped ==
  ASSUME BatchInv, NEW b \in Batches, NEW rs \in SUBSET ReviewRequests,
         NEW vs \in SUBSET Reviews, Begun(b, rs, vs)
  PROVE  BatchInv' /\ harm \subseteq harm'
<1>1. Shape(b)'
  BY DEF Begun, Shape
<1>2. \A c \in Batches : Under(c)' => Shape(c)'
  BY <1>1, ShapesKept DEF Begun
<1>3. TypeOK' /\ harm \subseteq harm'
  BY DEF Begun, BatchInv, TypeOK, Touched, Harms
<1>4. QED
  BY <1>2, <1>3 DEF BatchInv

(* A batch that goes on keeps types and shapes if the rows keep theirs.    *)
LEMMA AdvanceTyped ==
  ASSUME BatchInv, NEW b \in Batches, NEW items, Turn(b, items),
         NEW x, x = Current(b), Published(b, x),
         RowsTyped', harm' \subseteq Harms, stripped' \subseteq ReviewRequests
  PROVE  BatchInv'
<1>1. /\ batch' \in [Batches -> Underway \cup {Idle}] /\ x \in Items
      /\ Shape(b)' /\ \A c \in Batches \ {b} : batch'[c] = batch[c]
  BY AdvanceFacts
<1>2. \A c \in Batches : Under(c)' => Shape(c)'
  BY <1>1, ShapesKept
<1>3. unsent' \subseteq Items /\ UNCHANGED <<drafts, answer>>
  BY <1>1 DEF Published, BatchInv, TypeOK
<1>4. TypeOK'
  BY <1>1, <1>3 DEF BatchInv, TypeOK, RowsTyped
<1>5. QED
  BY <1>2, <1>4 DEF BatchInv

(* So does one that ends.                                                  *)
LEMMA EndTyped ==
  ASSUME BatchInv, NEW b \in Batches, batch' = [batch EXCEPT ![b] = Idle],
         RowsTyped', harm' \subseteq Harms, unsent' \subseteq unsent,
         stripped' \subseteq ReviewRequests,
         answer' \in [stat : Stats, count : Nat, done : SUBSET Items]
  PROVE  BatchInv'
<1>1. /\ batch' \in [Batches -> Underway \cup {Idle}] /\ ~Under(b)'
      /\ \A c \in Batches \ {b} : batch'[c] = batch[c]
  BY IdleFacts DEF BatchInv
<1>2. \A c \in Batches : Under(c)' => Shape(c)'
  BY <1>1, ShapesKept
<1>3. TypeOK'
  BY <1>1 DEF BatchInv, TypeOK, RowsTyped
<1>4. QED
  BY <1>2, <1>3 DEF BatchInv

(* The answer of a batch that fails, and the ways in which it fails.       *)
Failing(b) ==
  \/ RefuseRequest(b)
  \/ RefuseReview(b)

LEMMA FailFacts ==
  ASSUME BatchInv, NEW b \in Batches, Failing(b)
  PROVE  /\ Under(b) /\ batch[b].todo # <<>> /\ Fails(b)
         /\ Current(b) \in In(batch[b].todo) /\ Current(b) \in Items
         /\ harm' \in {harm, harm \cup {"partial"}}
         /\ batch[b].done # {} => "partial" \in harm'
         /\ UNCHANGED review
<1>1. /\ Under(b) /\ batch[b].todo # <<>> /\ Fails(b)
      /\ harm' = IF batch[b].done # {} THEN harm \cup {"partial"} ELSE harm
      /\ UNCHANGED review
  BY DEF Failing, RefuseRequest, RefuseReview, Turn
<1>2. batch[b].todo \in Seq(Items) /\ Ordered(batch[b].todo)
  BY <1>1, BatchFields DEF BatchInv, Shape
<1>3. Head(batch[b].todo) \in In(batch[b].todo)
  BY <1>1, <1>2, TailFacts
<1>4. Head(batch[b].todo) \in Items
  BY <1>1, <1>2
<1>5. QED
  BY <1>1, <1>3, <1>4 DEF Current

(* Counting what has been published: review requests come first.           *)
LEMMA FailCount ==
  ASSUME BatchInv, NEW b \in Batches, Failing(b)
  PROVE  /\ answer' \in [stat : Stats, count : Nat, done : SUBSET Items]
         /\ AnswersTrue'
<1> DEFINE done == batch[b].done
           asked == batch[b].asked
<1>1. /\ Under(b) /\ Fails(b) /\ Current(b) \in In(batch[b].todo)
      /\ Current(b) \in Items
  BY FailFacts
<1>2. Shape(b) /\ done \subseteq Items /\ asked \subseteq Items
  BY <1>1, BatchFields DEF BatchInv
<1>3. /\ IsFiniteSet(done) /\ Cardinality(done) \in Nat
      /\ IsFiniteSet(done \cap ReviewRequests)
      /\ Cardinality(done \cap ReviewRequests) \in Nat
      /\ IsFiniteSet(done \cap Reviews)
      /\ Cardinality(done \cap Reviews) \in Nat
  BY <1>2, ItemsFinite
<1>4. CASE Current(b) \in ReviewRequests
  <2>1. done \cap ReviewRequests = done /\ ReviewRequests # Reviews
    BY <1>1, <1>2, <1>4, BatchAssumption DEF Shape
  <2>2. /\ answer'.stat = (IF Cardinality(done) >= 1 THEN "mixed" ELSE "fail")
        /\ answer'.count = 0 + Cardinality(done) /\ answer'.done = done
        /\ answer' = [stat |-> answer'.stat, count |-> answer'.count,
                      done |-> answer'.done]
    BY <1>1, <1>4, <2>1 DEF Fails, FailedStat
  <2>3. Cardinality(done) = 0 <=> done = {}
    BY <1>3, FS_EmptySet
  <2> HIDE DEF done, asked
  <2>4. QED
    BY <1>2, <1>3, <2>2, <2>3 DEF AnswersTrue, Stats
<1>5. CASE Current(b) \notin ReviewRequests
  <2>1. In(batch[b].todo) \cap ReviewRequests = {}
    <3>1. batch[b].todo \in Seq(Items) /\ Ordered(batch[b].todo)
          /\ batch[b].todo # <<>>
      BY <1>1, <1>2, BatchFields, FailFacts DEF BatchInv, Shape
    <3>2. QED
      BY <1>5, <3>1, TailFacts DEF Current
  <2>2. asked \cap ReviewRequests = done \cap ReviewRequests
    BY <1>2, <2>1 DEF Shape
  <2>3. Cardinality(done) = Cardinality(done \cap ReviewRequests)
                              + Cardinality(done \cap Reviews)
    <3>1. done = (done \cap ReviewRequests) \cup (done \cap Reviews)
      BY <1>2 DEF Items
    <3>2. (done \cap ReviewRequests) \cap (done \cap Reviews) = {}
      BY BatchAssumption
    <3>3. Cardinality({}) = 0
      BY FS_EmptySet
    <3> DEFINE p == done \cap ReviewRequests
               q == done \cap Reviews
    <3> HIDE DEF p, q
    <3>4. Cardinality(p \cup q)
            = Cardinality(p) + Cardinality(q) - Cardinality(p \cap q)
      BY <1>3, FS_Union DEF p, q
    <3>5. done = p \cup q /\ p \cap q = {}
      BY <3>1, <3>2 DEF p, q
    <3>6. Cardinality(p) \in Nat /\ Cardinality(q) \in Nat
      BY <1>3 DEF p, q
    <3> HIDE DEF done
    <3>7. Cardinality(done) = Cardinality(p \cup q)
      BY <3>5, Zenon
    <3>8. Cardinality(p \cap q) = 0
      BY <3>3, <3>5, Zenon
    <3>9. Cardinality(done) = Cardinality(p) + Cardinality(q)
      BY <3>4, <3>6, <3>7, <3>8
    <3>10. QED
      BY <3>9 DEF p, q
  <2>4. /\ answer'.stat = (IF \/ Cardinality(done \cap Reviews) > 1
                              \/ asked \cap ReviewRequests # {}
                             THEN "mixed" ELSE "fail")
        /\ answer'.count = Cardinality(asked \cap ReviewRequests)
                             + Cardinality(done \cap Reviews)
        /\ answer'.done = done
        /\ answer' = [stat |-> answer'.stat, count |-> answer'.count,
                      done |-> answer'.done]
    BY <1>1, <1>5 DEF Fails, FailedStat
  <2>5. Cardinality(done \cap Reviews) > 1 => done # {}
    <3>1. done = {} => done \cap Reviews = {}
      OBVIOUS
    <3>2. Cardinality({}) = 0
      BY FS_EmptySet
    <3> HIDE DEF done
    <3>3. QED
      BY <3>1, <3>2
  <2> HIDE DEF done, asked
  <2>6. QED
    BY <1>2, <1>3, <2>2, <2>3, <2>4, <2>5 DEF AnswersTrue, Stats
<1>6. QED
  BY <1>4, <1>5

(* A batch that is finished has done all that it was asked for.            *)
LEMMA FinishFacts ==
  ASSUME BatchInv, NEW b \in Batches, Finish(b)
  PROVE  /\ batch[b].done = batch[b].asked
         /\ answer' \in [stat : Stats, count : Nat, done : SUBSET Items]
         /\ AnswersTrue'
<1>1. Under(b) /\ batch[b].todo = <<>> /\ Shape(b)
  BY DEF Finish, BatchInv
<1>2. In(batch[b].todo) = {}
  BY <1>1 DEF In
<1>3. batch[b].done = batch[b].asked /\ batch[b].asked \subseteq Items
  BY <1>1, <1>2, BatchFields DEF Shape, BatchInv
<1>4. Cardinality(batch[b].asked) \in Nat
  BY <1>3, ItemsFinite
<1>5. answer' = [stat |-> "ok", count |-> Cardinality(batch[b].asked),
                 done |-> batch[b].done]
  BY DEF Finish
<1>6. QED
  BY <1>3, <1>4, <1>5 DEF AnswersTrue, Stats

LEMMA StepTyped ==
  ASSUME BatchInv, NEW b \in Batches, BatchStep(b)
  PROVE  BatchInv' /\ harm \subseteq harm'
<1>1. RowsTyped /\ harm \subseteq Harms /\ stripped \subseteq ReviewRequests
  BY DEF BatchInv, TypeOK, RowsTyped
<1>2. CASE PublishRequest(b)
  <2> DEFINE r == Current(b)
  <2>1. /\ Turn(b, ReviewRequests) /\ Published(b, r) /\ UNCHANGED harm
        /\ rr' = [rr EXCEPT ![r] = [public |-> TRUE, reviewers |-> TRUE,
                                    draft |-> NoDraft, named |-> FALSE]]
        /\ stripped' \subseteq stripped
        /\ review' = [v \in Reviews |->
             IF About[v] = r /\ "comment on a draft" \in review[v].content
               THEN [review[v] EXCEPT !.content = {"text"}] ELSE review[v]]
    BY <1>2 DEF PublishRequest
  <2>2. UNCHANGED drafts
    BY <2>1 DEF Published
  <2>3. [public |-> TRUE, reviewers |-> TRUE,
         draft |-> NoDraft, named |-> FALSE] \in RowOfRequest
    BY BatchAssumption DEF NoDraft, Draft, RowOfRequest
  <2>4. \A v \in Reviews :
          [review[v] EXCEPT !.content = {"text"}] \in RowOfReview
    BY <1>1 DEF RowsTyped, RowOfReview, Contents
  <2>5. RowsTyped'
    BY <1>1, <2>1, <2>2, <2>3, <2>4 DEF RowsTyped
  <2> HIDE DEF r
  <2>6. BatchInv'
    BY <1>1, <2>1, <2>5, AdvanceTyped DEF r
  <2>7. QED
    BY <2>1, <2>6
<1>3. CASE PublishReview(b)
  <2> DEFINE v == Current(b)
  <2>1. /\ Turn(b, Reviews) /\ Published(b, v) /\ UNCHANGED <<rr, stripped>>
        /\ review' = [review EXCEPT ![v].public = TRUE]
        /\ harm \subseteq harm' /\ harm' \subseteq harm \cup {"twice", "empty"}
    BY <1>3 DEF PublishReview
  <2>2. UNCHANGED drafts /\ v \in Reviews
    BY <2>1 DEF Published, Turn
  <2>3. [review[v] EXCEPT !.public = TRUE] \in RowOfReview
    BY <1>1, <2>2 DEF RowsTyped, RowOfReview
  <2>4. RowsTyped' /\ harm' \subseteq Harms
    BY <1>1, <2>1, <2>2, <2>3 DEF RowsTyped, Harms
  <2> HIDE DEF v
  <2>5. BatchInv'
    BY <1>1, <2>1, <2>4, AdvanceTyped DEF v
  <2>6. QED
    BY <2>1, <2>5
<1>4. CASE Failing(b)
  <2>1. /\ Fails(b) /\ harm' \in {harm, harm \cup {"partial"}}
        /\ UNCHANGED review
    BY <1>4, FailFacts
  <2>2. /\ batch' = [batch EXCEPT ![b] = Idle] /\ UNCHANGED <<drafts, unsent>>
    BY <2>1 DEF Fails
  <2>3. /\ rr' \in [ReviewRequests -> RowOfRequest]
        /\ stripped' \subseteq ReviewRequests
    <3>1. CASE RefuseRequest(b)
      <4> DEFINE r == Current(b)
                 any == HasHeld(b, r) /\ rr[r].named
      <4>1. /\ r \in ReviewRequests /\ stripped' \subseteq stripped \cup {r}
            /\ rr' = [rr EXCEPT ![r] = [rr[r] EXCEPT !.reviewers = any]]
        BY <1>1, <3>1 DEF RefuseRequest, Turn, RowsTyped
      <4>2. any \in BOOLEAN
        BY <1>1, <4>1 DEF RowsTyped, RowOfRequest
      <4> HIDE DEF r, any
      <4>3. [rr[r] EXCEPT !.reviewers = any] \in RowOfRequest
        BY <1>1, <4>1, <4>2 DEF RowsTyped, RowOfRequest
      <4>4. QED
        BY <1>1, <4>1, <4>3 DEF RowsTyped
    <3>2. CASE RefuseReview(b)
      BY <1>1, <3>2 DEF RefuseReview, RowsTyped
    <3>3. QED
      BY <1>4, <3>1, <3>2 DEF Failing
  <2>4. RowsTyped' /\ harm' \subseteq Harms /\ unsent' \subseteq unsent
    BY <1>1, <2>1, <2>2, <2>3 DEF RowsTyped, Harms
  <2>5. answer' \in [stat : Stats, count : Nat, done : SUBSET Items]
    BY <1>4, FailCount
  <2>6. BatchInv'
    BY <2>2, <2>3, <2>4, <2>5, EndTyped
  <2>7. QED
    BY <2>1, <2>6
<1>5. CASE Finish(b)
  <2>1. /\ batch' = [batch EXCEPT ![b] = Idle] /\ unsent' \subseteq unsent
        /\ UNCHANGED <<rr, review, drafts, harm, stripped>>
    BY <1>5 DEF Finish
  <2>2. answer' \in [stat : Stats, count : Nat, done : SUBSET Items]
    BY <1>5, FinishFacts
  <2>3. RowsTyped'
    BY <1>1, <2>1 DEF RowsTyped
  <2>4. BatchInv'
    BY <1>1, <2>1, <2>2, <2>3, EndTyped
  <2>5. QED
    BY <2>1, <2>4
<1>6. QED
  BY <1>2, <1>3, <1>4, <1>5 DEF BatchStep, Failing

(* Types and shapes are kept by every step, and no harm is forgotten.      *)
LEMMA NextTyped ==
  ASSUME BatchInv, [Next]_vars
  PROVE  BatchInv' /\ harm \subseteq harm'
<1>1. CASE ApiStep
  BY <1>1, ApiTyped
<1>2. ASSUME NEW b \in Batches, Begins(b)
      PROVE  BatchInv' /\ harm \subseteq harm'
  BY <1>2, StartTyped DEF Begins
<1>3. ASSUME NEW b \in Batches, BatchStep(b)
      PROVE  BatchInv' /\ harm \subseteq harm'
  BY <1>3, StepTyped
<1>4. CASE UNCHANGED vars
  BY <1>4 DEF vars, BatchInv, TypeOK, Under, Shape
<1>5. QED
  BY <1>1, <1>2, <1>3, <1>4, NextCases DEF BatchInv

LEMMA InitTyped ==
  ASSUME Init
  PROVE  BatchInv
<1>1. NoDraft \in Draft
  BY BatchAssumption DEF NoDraft, Draft
<1>2. TypeOK
  BY <1>1, BatchAssumption DEF Init, TypeOK, RowOfRequest, RowOfReview, Stats
<1>3. QED
  BY <1>2 DEF BatchInv, Init, Under

(* Rows, batches and answers are always of their types.                    *)
THEOREM TypeCorrect == Spec => []TypeOK
<1>1. Init => BatchInv
  BY InitTyped
<1>2. BatchInv /\ [Next]_vars => BatchInv'
  BY NextTyped
<1>3. BatchInv => TypeOK
  BY DEF BatchInv
<1>4. QED
  BY <1>1, <1>2, <1>3, PTL DEF Spec

(***************************************************************************)
(* What a batch answers.                                                   *)
(***************************************************************************)

(* What the answer of a batch says of it is true: the count is that of     *)
(* what was published, and a failure of which it says that nothing, or     *)
(* only some of it, was published did that (batch.py 418-470).             *)
THEOREM AnswersAreTrue == Spec => []AnswersTrue
<1>1. Init => BatchInv /\ AnswersTrue
  <2>1. Cardinality({}) = 0
    BY FS_EmptySet
  <2>2. QED
    BY <2>1, InitTyped DEF Init, AnswersTrue
<1>2. BatchInv /\ AnswersTrue /\ [Next]_vars => BatchInv' /\ AnswersTrue'
  <2>1. SUFFICES ASSUME BatchInv, AnswersTrue, [Next]_vars
                 PROVE  AnswersTrue'
    BY NextTyped
  <2>2. UNCHANGED answer => AnswersTrue'
    BY <2>1 DEF AnswersTrue
  <2>3. CASE ApiStep
    BY <2>1, <2>2, <2>3, ApiTyped DEF Apiless
  <2>4. ASSUME NEW b \in Batches, Begins(b)
        PROVE  UNCHANGED answer
    BY <2>4 DEF Begins, Begun
  <2>5. ASSUME NEW b \in Batches, BatchStep(b)
        PROVE  AnswersTrue'
    <3>1. CASE PublishRequest(b) \/ PublishReview(b)
      BY <2>2, <3>1 DEF PublishRequest, PublishReview, Published
    <3>2. CASE Failing(b)
      BY <2>1, <3>2, FailCount
    <3>3. CASE Finish(b)
      BY <2>1, <3>3, FinishFacts
    <3>4. QED
      BY <2>5, <3>1, <3>2, <3>3 DEF BatchStep, Failing
  <2>6. CASE UNCHANGED vars
    BY <2>2, <2>6 DEF vars
  <2>7. QED
    BY <2>1, <2>2, <2>3, <2>4, <2>5, <2>6, NextCases DEF BatchInv
<1>3. QED
  BY <1>1, <1>2, PTL DEF Spec

(***************************************************************************)
(* The e-mails.                                                            *)
(***************************************************************************)

(* A batch under way that will send the e-mail about x when it ends.       *)
Owes(b, x) == Under(b) /\ batch[b].quiet /\ x \in batch[b].done

SentInv ==
  Without({"partial"}) => \A x \in unsent : \E b \in Batches : Owes(b, x)

LEMMA SentKept ==
  ASSUME BatchInv, SentInv, [Next]_vars
  PROVE  SentInv'
<1>1. SUFFICES ASSUME Without({"partial"})', NEW x \in unsent'
               PROVE  \E b \in Batches : Owes(b, x)'
  BY DEF SentInv
<1>2. harm \subseteq harm'
  BY NextTyped
<1>3. \A y \in unsent : \E b \in Batches : Owes(b, y)
  BY <1>1, <1>2 DEF SentInv, Without
<1>4. ASSUME UNCHANGED <<batch, unsent>>
      PROVE  \E b \in Batches : Owes(b, x)'
  BY <1>1, <1>3, <1>4 DEF Owes, Under
<1>5. CASE ApiStep
  BY <1>4, <1>5, ApiTyped DEF Apiless
<1>6. ASSUME NEW b \in Batches, Begins(b)
      PROVE  \E c \in Batches : Owes(c, x)'
  <2>1. /\ ~Under(b) /\ UNCHANGED unsent
        /\ \A c \in Batches \ {b} : batch'[c] = batch[c]
    BY <1>6 DEF Begins, Begun
  <2>2. PICK c \in Batches : Owes(c, x)
    BY <1>1, <1>3, <2>1
  <2>3. c # b
    BY <2>1, <2>2 DEF Owes
  <2>4. QED
    BY <2>1, <2>2, <2>3 DEF Owes, Under
<1>7. ASSUME NEW b \in Batches, PublishRequest(b) \/ PublishReview(b)
      PROVE  \E c \in Batches : Owes(c, x)'
  <2>1. PICK items : Turn(b, items)
    BY <1>7 DEF PublishRequest, PublishReview
  <2>2. Published(b, Current(b))
    BY <1>7 DEF PublishRequest, PublishReview
  <2> DEFINE y == Current(b)
  <2>3. /\ Under(b)' /\ batch'[b].done = batch[b].done \cup {y}
        /\ batch'[b].quiet = batch[b].quiet
        /\ \A c \in Batches \ {b} : batch'[c] = batch[c]
    BY <2>1, <2>2, AdvanceFacts
  <2>4. unsent' \subseteq unsent \cup {y} /\ (y \notin unsent =>
          (y \in unsent' => batch[b].quiet))
    BY <2>2 DEF Published
  <2> HIDE DEF y
  <2>5. CASE x \notin unsent
    BY <1>1, <2>3, <2>4, <2>5 DEF Owes
  <2>6. CASE x \in unsent
    <3>1. PICK c \in Batches : Owes(c, x)
      BY <1>3, <2>6
    <3>2. CASE c = b
      BY <2>3, <3>1, <3>2 DEF Owes
    <3>3. CASE c # b
      BY <2>3, <3>1, <3>3 DEF Owes, Under
    <3>4. QED
      BY <3>2, <3>3
  <2>7. QED
    BY <2>5, <2>6
<1>8. ASSUME NEW b \in Batches, Failing(b)
      PROVE  \E c \in Batches : Owes(c, x)'
  <2>1. Fails(b) /\ batch[b].done = {}
    BY <1>1, <1>8, FailFacts DEF Without
  <2>2. UNCHANGED unsent /\ \A c \in Batches \ {b} : batch'[c] = batch[c]
    BY <2>1, IdleFacts DEF Fails, BatchInv
  <2>3. PICK c \in Batches : Owes(c, x)
    BY <1>1, <1>3, <2>2
  <2>4. c # b
    BY <2>1, <2>3 DEF Owes
  <2>5. QED
    BY <2>2, <2>3, <2>4 DEF Owes, Under
<1>9. ASSUME NEW b \in Batches, Finish(b)
      PROVE  \E c \in Batches : Owes(c, x)'
  <2>1. /\ unsent' = IF batch[b].quiet THEN unsent \ batch[b].done ELSE unsent
        /\ batch' = [batch EXCEPT ![b] = Idle]
    BY <1>9 DEF Finish
  <2>2. \A c \in Batches \ {b} : batch'[c] = batch[c]
    BY <2>1, IdleFacts DEF BatchInv
  <2>3. PICK c \in Batches : Owes(c, x)
    BY <1>1, <1>3, <2>1
  <2>4. c # b
    BY <1>1, <2>1, <2>3 DEF Owes
  <2>5. QED
    BY <2>2, <2>3, <2>4 DEF Owes, Under
<1>10. CASE UNCHANGED vars
  BY <1>4, <1>10 DEF vars
<1>11. QED
  BY <1>5, <1>6, <1>7, <1>8, <1>9, <1>10, NextCases
     DEF BatchInv, BatchStep, Failing

(* When no batch is under way, an e-mail has gone out about everything     *)
(* that was published, unless a batch failed half-way.                     *)
THEOREM EverythingIsSent == Spec => []AllSent
<1>1. Init => BatchInv /\ SentInv
  BY InitTyped DEF Init, SentInv
<1>2. BatchInv /\ SentInv /\ [Next]_vars => BatchInv' /\ SentInv'
  BY NextTyped, SentKept
<1>3. SentInv => AllSent
  BY DEF SentInv, AllSent, Owes
<1>4. QED
  BY <1>1, <1>2, <1>3, PTL DEF Spec

(***************************************************************************)
(* Batches that nobody disturbs.                                           *)
(***************************************************************************)

(* A review request that is published, with no later draft nor comments on *)
(* one.                                                                    *)
Ready(r) ==
  /\ rr[r].public /\ rr[r].draft = NoDraft
  /\ \A v \in Reviews :
       About[v] = r => "comment on a draft" \notin review[v].content

(* What a batch found when it began still holds of what it has not done,   *)
(* and the review requests it has done are ready for its reviews.          *)
Calm(b) ==
  /\ \A v \in In(batch[b].todo) \cap Reviews : ~review[v].public
  /\ \A r \in In(batch[b].todo) \cap ReviewRequests :
       rr[r].draft.id = batch[b].held[r].id
  /\ \A r \in batch[b].done \cap ReviewRequests : Ready(r)

Apart ==
  \A b, c \in Batches :
    Under(b) /\ Under(c) /\ b # c => batch[b].asked \cap batch[c].asked = {}

Sound ==
  /\ "twice" \notin harm
  /\ \A r \in ReviewRequests :
       rr[r].public => rr[r].reviewers \/ r \in stripped

Calmness == Apart /\ Sound /\ \A b \in Batches : Under(b) => Calm(b)
CalmInv == Without({"met"}) => Calmness

(* A step that leaves the items of a batch as it found them.               *)
Spares(items) ==
  /\ \A v \in items \cap Reviews : review'[v].public = review[v].public
  /\ \A r \in items \cap ReviewRequests :
       rr'[r].draft = rr[r].draft /\ (Ready(r) => Ready(r)')

LEMMA CalmKept ==
  ASSUME BatchInv, NEW c \in Batches, Under(c), Calm(c),
         batch'[c] = batch[c], Spares(batch[c].asked)
  PROVE  Calm(c)'
<1>1. /\ batch[c].done \subseteq batch[c].asked
      /\ In(batch[c].todo) \subseteq batch[c].asked
  BY DEF BatchInv, Shape
<1>2. In(batch[c].todo)' = In(batch[c].todo)
  BY DEF In
<1>3. \A v \in In(batch[c].todo) \cap Reviews : ~review'[v].public
  BY <1>1 DEF Calm, Spares
<1>4. \A r \in In(batch[c].todo) \cap ReviewRequests :
        rr'[r].draft.id = batch'[c].held[r].id
  BY <1>1 DEF Calm, Spares
<1>5. \A r \in batch[c].done \cap ReviewRequests : Ready(r)'
  BY <1>1 DEF Calm, Spares
<1>6. QED
  BY <1>2, <1>3, <1>4, <1>5 DEF Calm

(* A change through the API that meets no batch spares them all.           *)
LEMMA ApiSpares ==
  ASSUME BatchInv, ApiStep, Without({"met"})',
         NEW b \in Batches, Under(b)
  PROVE  Spares(batch[b].asked)
<1>1. ASSUME NEW items, harm' = Touched(items)
      PROVE  batch[b].asked \cap items = {}
  BY <1>1 DEF Touched, Without
<1>2. /\ review \in [Reviews -> RowOfReview]
      /\ rr \in [ReviewRequests -> RowOfRequest]
  BY DEF BatchInv, TypeOK
<1>3. ASSUME NEW r \in ReviewRequests, NEW complete \in BOOLEAN,
             NEW named \in BOOLEAN, EditDraft(r, complete, named)
      PROVE  Spares(batch[b].asked)
  <2>1. r \notin batch[b].asked
    BY <1>1, <1>3 DEF EditDraft
  <2>2. /\ UNCHANGED review
        /\ \A s \in ReviewRequests : s # r => rr'[s] = rr[s]
    BY <1>2, <1>3 DEF EditDraft
  <2>3. QED
    BY <2>1, <2>2 DEF Spares, Ready
<1>4. ASSUME NEW r \in ReviewRequests, DiscardDraft(r)
      PROVE  Spares(batch[b].asked)
  <2>1. r \notin batch[b].asked
    BY <1>1, <1>4 DEF DiscardDraft
  <2>2. \A s \in ReviewRequests : s # r => rr'[s] = rr[s]
    BY <1>2, <1>4 DEF DiscardDraft
  <2>3. \A v \in Reviews : /\ review'[v].public = review[v].public
                           /\ review'[v].content \subseteq review[v].content
    BY <1>2, <1>4 DEF DiscardDraft, RowOfReview
  <2>4. QED
    BY <2>1, <2>2, <2>3 DEF Spares, Ready
<1>5. ASSUME NEW v \in Reviews, NEW content \in Contents, Write(v, content)
      PROVE  Spares(batch[b].asked)
  <2>1. /\ UNCHANGED rr
        /\ content = "comment on a draft" => rr[About[v]].draft # NoDraft
        /\ review' = [review EXCEPT ![v] =
                        [review[v] EXCEPT !.content = @ \cup {content}]]
    BY <1>5 DEF Write
  <2>2. /\ \A w \in Reviews : review'[w].public = review[w].public
        /\ \A w \in Reviews : w # v => review'[w].content = review[w].content
        /\ review'[v].content = review[v].content \cup {content}
    BY <1>2, <2>1 DEF RowOfReview
  <2>3. ASSUME NEW r \in ReviewRequests, Ready(r)
        PROVE  Ready(r)'
    BY <2>1, <2>2, <2>3 DEF Ready
  <2>4. QED
    BY <2>1, <2>2, <2>3 DEF Spares
<1>6. QED
  BY <1>3, <1>4, <1>5 DEF ApiStep

LEMMA ApiCalm ==
  ASSUME BatchInv, Calmness, ApiStep, Without({"met"})'
  PROVE  Calmness'
<1>1. /\ UNCHANGED <<batch, stripped>>
      /\ harm' \in {harm, harm \cup {"met"}}
  BY ApiTyped DEF Apiless, ApiStep, DiscardDraft, EditDraft, Write, Touched
<1>2. ASSUME NEW b \in Batches, Under(b)'
      PROVE  Calm(b)'
  <2>1. Under(b) /\ Calm(b) /\ batch'[b] = batch[b]
    BY <1>1, <1>2 DEF Under, Calmness
  <2>2. Spares(batch[b].asked)
    BY <2>1, ApiSpares
  <2>3. QED
    BY <2>1, <2>2, CalmKept
<1>3. Apart'
  BY <1>1 DEF Calmness, Apart, Under
<1>4. \A r \in ReviewRequests : /\ rr'[r].public = rr[r].public
                                /\ rr'[r].reviewers = rr[r].reviewers
  <2> DEFINE Kept == \A s \in ReviewRequests :
                       /\ rr'[s].public = rr[s].public
                       /\ rr'[s].reviewers = rr[s].reviewers
  <2>1. rr \in [ReviewRequests -> RowOfRequest]
    BY DEF BatchInv, TypeOK
  <2>2. ASSUME NEW r \in ReviewRequests, NEW draft, NEW named,
               rr' = [rr EXCEPT ![r] =
                        [rr[r] EXCEPT !.draft = draft, !.named = named]]
        PROVE  Kept
    BY <2>1, <2>2 DEF RowOfRequest
  <2>3. ASSUME NEW r \in ReviewRequests, DiscardDraft(r)
        PROVE  rr' = [rr EXCEPT ![r] =
                        [rr[r] EXCEPT !.draft = NoDraft, !.named = FALSE]]
    BY <2>1, <2>3 DEF DiscardDraft
  <2>4. ASSUME NEW r \in ReviewRequests, NEW complete \in BOOLEAN,
               NEW named \in BOOLEAN, EditDraft(r, complete, named)
        PROVE  Kept
    <3> DEFINE d == [id |-> IF rr[r].draft = NoDraft THEN drafts + 1
                                                     ELSE rr[r].draft.id,
                     complete |-> complete]
    <3>1. rr' = [rr EXCEPT ![r] =
                   [rr[r] EXCEPT !.draft = d, !.named = named]]
      BY <2>1, <2>4 DEF EditDraft
    <3> HIDE DEF d, Kept
    <3>2. QED
      BY <2>2, <3>1
  <2>5. ASSUME NEW v \in Reviews, NEW content \in Contents, Write(v, content)
        PROVE  Kept
    BY <2>5 DEF Write
  <2> HIDE DEF Kept
  <2>6. \A r \in ReviewRequests : DiscardDraft(r) => Kept
    BY <2>2, <2>3
  <2>7. \A r \in ReviewRequests : \A complete, named \in BOOLEAN :
          EditDraft(r, complete, named) => Kept
    BY <2>4
  <2>8. \A v \in Reviews, content \in Contents : Write(v, content) => Kept
    BY <2>5
  <2>9. Kept
    BY <2>6, <2>7, <2>8 DEF ApiStep
  <2>10. QED
    BY <2>9 DEF Kept
<1>5. Sound'
  BY <1>1, <1>4 DEF Calmness, Sound
<1>6. QED
  BY <1>2, <1>3, <1>5 DEF Calmness

LEMMA BeginCalm ==
  ASSUME BatchInv, Calmness, NEW b \in Batches,
         NEW rs \in SUBSET ReviewRequests, NEW vs \in SUBSET Reviews,
         Begun(b, rs, vs), Without({"met"})'
  PROVE  Calmness'
<1>1. \A c \in Batches : Under(c) => batch[c].asked \cap (rs \cup vs) = {}
  BY DEF Begun, Touched, Without
<1>2. \A c \in Batches \ {b} : batch'[c] = batch[c]
  BY DEF Begun
<1>3. Apart'
  BY <1>1, <1>2 DEF Begun, Calmness, Apart, Under
<1>4. Sound'
  BY DEF Begun, Calmness, Sound, Touched
<1>5. Calm(b)'
  <2>1. /\ In(batch[b].todo)' = rs \cup vs /\ batch'[b].done = {}
        /\ \A v \in vs : ~review'[v].public
        /\ \A r \in rs : rr'[r].draft.id = batch'[b].held[r].id
    BY DEF Begun, In
  <2>2. rs \cap Reviews = {} /\ vs \cap ReviewRequests = {}
    BY BatchAssumption
  <2>3. QED
    BY <2>1, <2>2 DEF Calm
<1>6. ASSUME NEW c \in Batches, Under(c)'
      PROVE  Calm(c)'
  <2>1. CASE c = b
    BY <1>5, <2>1
  <2>2. CASE c # b
    <3>1. Under(c) /\ Calm(c) /\ batch'[c] = batch[c]
      BY <1>2, <1>6, <2>2 DEF Under, Calmness
    <3>2. Spares(batch[c].asked)
      BY DEF Begun, Spares, Ready
    <3>3. QED
      BY <3>1, <3>2, CalmKept
  <2>3. QED
    BY <2>1, <2>2
<1>7. QED
  BY <1>3, <1>4, <1>6 DEF Calmness

(* A batch that goes on, or ends, disturbs none of the others.             *)
LEMMA OthersCalm ==
  ASSUME BatchInv, Calmness, NEW b \in Batches, Under(b),
         \A c \in Batches \ {b} : batch'[c] = batch[c],
         Under(b)' => batch'[b].asked = batch[b].asked /\ Calm(b)',
         NEW x, x \in batch[b].asked,
         \A items : x \notin items => Spares(items),
         Sound'
  PROVE  Calmness'
<1>1. Apart'
  BY DEF Calmness, Apart, Under
<1>2. ASSUME NEW c \in Batches, Under(c)', c # b
      PROVE  Calm(c)'
  <2>1. Under(c) /\ Calm(c) /\ batch'[c] = batch[c]
    BY <1>2 DEF Under, Calmness
  <2>2. x \notin batch[c].asked
    BY <1>2, <2>1 DEF Calmness, Apart
  <2>3. Spares(batch[c].asked)
    BY <2>2
  <2>4. QED
    BY <2>1, <2>3, CalmKept
<1>3. QED
  BY <1>1, <1>2 DEF Calmness

LEMMA PublishRequestCalm ==
  ASSUME BatchInv, Calmness, NEW b \in Batches, PublishRequest(b),
         NEW r, r = Current(b)
  PROVE  Calmness'
<1>1. /\ Turn(b, ReviewRequests) /\ Published(b, r) /\ UNCHANGED harm
      /\ rr' = [rr EXCEPT ![r] = [public |-> TRUE, reviewers |-> TRUE,
                                  draft |-> NoDraft, named |-> FALSE]]
      /\ stripped' = stripped \ {r}
      /\ review' = [v \in Reviews |->
           IF About[v] = r /\ "comment on a draft" \in review[v].content
             THEN [review[v] EXCEPT !.content = {"text"}] ELSE review[v]]
  BY DEF PublishRequest
<1>2. /\ r \in ReviewRequests /\ r \in batch[b].asked
      /\ r \in In(batch[b].todo) /\ Under(b)
      /\ batch'[b].asked = batch[b].asked
      /\ batch'[b].done = batch[b].done \cup {r}
      /\ In(batch'[b].todo) = In(batch[b].todo) \ {r}
      /\ batch'[b].held = batch[b].held
      /\ \A c \in Batches \ {b} : batch'[c] = batch[c]
  BY <1>1, AdvanceFacts
<1>3. /\ review \in [Reviews -> RowOfReview]
      /\ rr \in [ReviewRequests -> RowOfRequest]
  BY DEF BatchInv, TypeOK
<1>4. /\ \A v \in Reviews : review'[v].public = review[v].public
      /\ \A v \in Reviews : About[v] # r => review'[v] = review[v]
      /\ \A v \in Reviews :
           About[v] = r => "comment on a draft" \notin review'[v].content
  <2>1. ASSUME NEW v \in Reviews
        PROVE  /\ review'[v].public = review[v].public
               /\ About[v] # r => review'[v] = review[v]
               /\ About[v] = r =>
                    "comment on a draft" \notin review'[v].content
    <3>1. review'[v] =
            IF About[v] = r /\ "comment on a draft" \in review[v].content
              THEN [review[v] EXCEPT !.content = {"text"}] ELSE review[v]
      BY <1>1
    <3>2. review[v] \in RowOfReview
      BY <1>3
    <3>3. CASE About[v] = r /\ "comment on a draft" \in review[v].content
      <4>1. review'[v] = [review[v] EXCEPT !.content = {"text"}]
        BY <3>1, <3>3
      <4>2. review'[v].public = review[v].public
            /\ review'[v].content = {"text"}
        BY <3>2, <4>1 DEF RowOfReview
      <4>3. QED
        BY <3>3, <4>2
    <3>4. CASE ~(About[v] = r /\ "comment on a draft" \in review[v].content)
      BY <3>1, <3>4
    <3>5. QED
      BY <3>3, <3>4
  <2>2. QED
    BY <2>1
<1>5. /\ \A s \in ReviewRequests : s # r => rr'[s] = rr[s]
      /\ rr'[r].public /\ rr'[r].reviewers /\ rr'[r].draft = NoDraft
  <2>1. /\ \A s \in ReviewRequests : s # r => rr'[s] = rr[s]
        /\ rr'[r] = [public |-> TRUE, reviewers |-> TRUE,
                      draft |-> NoDraft, named |-> FALSE]
    BY <1>1, <1>2, <1>3
  <2>2. QED
    BY <2>1
<1>6. Ready(r)'
  BY <1>4, <1>5 DEF Ready
<1>7. \A s \in ReviewRequests : s # r /\ Ready(s) => Ready(s)'
  BY <1>4, <1>5 DEF Ready
<1>8. \A items : r \notin items => Spares(items)
  BY <1>4, <1>5, <1>7 DEF Spares
<1>9. Calm(b)'
  <2>1. In(batch[b].todo)' = In(batch[b].todo) \ {r} /\ Calm(b)
    BY <1>2 DEF In, Calmness
  <2>2. /\ \A v \in In(batch[b].todo)' \cap Reviews : ~review'[v].public
        /\ \A s \in In(batch[b].todo)' \cap ReviewRequests :
             rr'[s].draft.id = batch'[b].held[s].id
    BY <1>2, <1>4, <1>5, <2>1 DEF Calm
  <2>3. \A s \in batch'[b].done \cap ReviewRequests : Ready(s)'
    BY <1>2, <1>6, <1>7, <2>1 DEF Calm
  <2>4. QED
    BY <2>2, <2>3 DEF Calm
<1>10. Sound'
  BY <1>1, <1>2, <1>5 DEF Calmness, Sound
<1>11. QED
  BY <1>2, <1>8, <1>9, <1>10, OthersCalm

(* A review that is published was not public, and what is to hold of it    *)
(* does: it was checked, or its review request has just been published.    *)
LEMMA PublishReviewCalm ==
  ASSUME BatchInv, Calmness, NEW b \in Batches, PublishReview(b),
         NEW v, v = Current(b)
  PROVE  /\ Calmness'
         /\ rr[About[v]].public
         /\ "comment on a draft" \notin review[v].content
<1>1. /\ Turn(b, Reviews) /\ Published(b, v) /\ UNCHANGED <<rr, stripped>>
      /\ review' = [review EXCEPT ![v].public = TRUE]
      /\ CanPublish(v, About[v] \in batch[b].asked)
      /\ harm' = harm
           \cup (IF review[v].public THEN {"twice"} ELSE {})
           \cup (IF review[v].content = {} THEN {"empty"} ELSE {})
  BY DEF PublishReview
<1>2. /\ v \in Reviews /\ v \in batch[b].asked
      /\ v \in In(batch[b].todo) /\ Under(b)
      /\ batch'[b].asked = batch[b].asked
      /\ batch'[b].done = batch[b].done \cup {v}
      /\ In(batch'[b].todo) = In(batch[b].todo) \ {v}
      /\ batch'[b].held = batch[b].held
      /\ v \notin ReviewRequests => In(batch[b].todo) \cap ReviewRequests = {}
      /\ \A c \in Batches \ {b} : batch'[c] = batch[c]
  BY <1>1, AdvanceFacts
<1>3. v \notin ReviewRequests /\ In(batch[b].todo) \cap ReviewRequests = {}
  BY <1>2, BatchAssumption
<1>4. review \in [Reviews -> RowOfReview] /\ About[v] \in ReviewRequests
  BY <1>2, BatchAssumption DEF BatchInv, TypeOK
<1>5. /\ \A w \in Reviews : review'[w].content = review[w].content
      /\ \A w \in Reviews : w # v => review'[w] = review[w]
  BY <1>1, <1>4 DEF RowOfReview
<1>6. \A r \in ReviewRequests : Ready(r) => Ready(r)'
  BY <1>1, <1>5 DEF Ready
<1>7. \A items : v \notin items => Spares(items)
  BY <1>1, <1>5, <1>6 DEF Spares
<1>8. Calm(b) /\ Shape(b)
  BY <1>2 DEF Calmness, BatchInv
<1>9. ~review[v].public
  BY <1>2, <1>8 DEF Calm
<1>10. Calm(b)'
  <2>1. In(batch[b].todo)' = In(batch[b].todo) \ {v}
    BY <1>2 DEF In
  <2>2. /\ \A w \in In(batch[b].todo)' \cap Reviews : ~review'[w].public
        /\ \A s \in In(batch[b].todo)' \cap ReviewRequests :
             rr'[s].draft.id = batch'[b].held[s].id
    BY <1>3, <1>5, <1>8, <2>1 DEF Calm
  <2>3. \A s \in batch'[b].done \cap ReviewRequests : Ready(s)'
    BY <1>2, <1>3, <1>6, <1>8 DEF Calm
  <2>4. QED
    BY <2>2, <2>3 DEF Calm
<1>11. Sound'
  BY <1>1, <1>9 DEF Calmness, Sound
<1>12. Calmness'
  BY <1>2, <1>7, <1>10, <1>11, OthersCalm
<1>13. /\ rr[About[v]].public
       /\ "comment on a draft" \notin review[v].content
  <2>1. CASE About[v] \in batch[b].asked
    <3>1. About[v] \in batch[b].done \cap ReviewRequests
      BY <1>3, <1>4, <1>8, <2>1 DEF Shape
    <3>2. Ready(About[v])
      BY <1>8, <3>1 DEF Calm
    <3>3. QED
      BY <1>2, <3>2 DEF Ready
  <2>2. CASE About[v] \notin batch[b].asked
    BY <1>1, <2>2 DEF CanPublish
  <2>3. QED
    BY <2>1, <2>2
<1>14. QED
  BY <1>12, <1>13

(* No draft has gone when its turn comes: one without reviewers that is    *)
(* refused is recorded, and any other one that is refused brings some.     *)
LEMMA EndCalm ==
  ASSUME BatchInv, Calmness, NEW b \in Batches, Failing(b) \/ Finish(b)
  PROVE  Calmness'
<1>1. /\ Under(b) /\ batch' = [batch EXCEPT ![b] = Idle] /\ UNCHANGED review
      /\ harm' \in {harm, harm \cup {"partial"}}
  <2>1. CASE Failing(b)
    BY <2>1, FailFacts DEF Fails
  <2>2. CASE Finish(b)
    BY <2>2 DEF Finish
  <2>3. QED
    BY <2>1, <2>2
<1>2. ~Under(b)' /\ \A c \in Batches \ {b} : batch'[c] = batch[c]
  BY <1>1, IdleFacts DEF BatchInv
<1>3. /\ \A r \in ReviewRequests : /\ rr'[r].public = rr[r].public
                                   /\ rr'[r].draft = rr[r].draft
      /\ \A r \in ReviewRequests : rr[r].reviewers \/ r \in stripped =>
                                     rr'[r].reviewers \/ r \in stripped'
  <2>1. CASE RefuseRequest(b)
    <3> DEFINE r == Current(b)
               any == HasHeld(b, r) /\ rr[r].named
    <3>1. /\ r \in ReviewRequests /\ rr \in [ReviewRequests -> RowOfRequest]
          /\ r \in In(batch[b].todo)
      BY <2>1, FailFacts DEF Failing, RefuseRequest, Turn, BatchInv, TypeOK
    <3>2. HasHeld(b, r)
      BY <1>1, <3>1 DEF Calmness, Calm, HasHeld
    <3>3. /\ rr' = [rr EXCEPT ![r] = [rr[r] EXCEPT !.reviewers = any]]
          /\ stripped' = IF HasHeld(b, r) /\ ~any THEN stripped \cup {r}
                                                   ELSE stripped \ {r}
      BY <2>1, <3>1 DEF RefuseRequest
    <3> HIDE DEF r, any
    <3>4. /\ rr'[r].public = rr[r].public /\ rr'[r].draft = rr[r].draft
          /\ rr'[r].reviewers = any
          /\ \A s \in ReviewRequests : s # r => rr'[s] = rr[s]
      BY <3>1, <3>3 DEF RowOfRequest
    <3>5. rr'[r].reviewers \/ r \in stripped'
      BY <3>2, <3>3, <3>4
    <3>6. QED
      BY <3>3, <3>4, <3>5
  <2>2. CASE RefuseReview(b) \/ Finish(b)
    BY <2>2 DEF RefuseReview, Finish
  <2>3. QED
    BY <2>1, <2>2 DEF Failing
<1>4. \A items : Spares(items)
  BY <1>1, <1>3 DEF Spares, Ready
<1>5. Sound'
  BY <1>1, <1>3 DEF Calmness, Sound
<1>6. ASSUME NEW c \in Batches, Under(c)'
      PROVE  Calm(c)'
  <2>1. c # b
    BY <1>2, <1>6
  <2>2. Under(c) /\ Calm(c) /\ batch'[c] = batch[c]
    BY <1>2, <1>6, <2>1 DEF Under, Calmness
  <2>3. QED
    BY <1>4, <2>2, CalmKept
<1>7. Apart'
  BY <1>2 DEF Calmness, Apart, Under
<1>8. QED
  BY <1>5, <1>6, <1>7 DEF Calmness

LEMMA NextCalm ==
  ASSUME BatchInv, CalmInv, [Next]_vars
  PROVE  CalmInv'
<1>1. SUFFICES ASSUME Without({"met"})'
               PROVE  Calmness'
  BY DEF CalmInv
<1>2. harm \subseteq harm'
  BY NextTyped
<1>3. Calmness
  BY <1>1, <1>2 DEF CalmInv, Without
<1>4. CASE ApiStep
  BY <1>1, <1>3, <1>4, ApiCalm
<1>5. ASSUME NEW b \in Batches, Begins(b)
      PROVE  Calmness'
  BY <1>1, <1>3, <1>5, BeginCalm DEF Begins
<1>6. ASSUME NEW b \in Batches, BatchStep(b)
      PROVE  Calmness'
  BY <1>3, <1>6, PublishRequestCalm, PublishReviewCalm, EndCalm
     DEF BatchStep, Failing
<1>7. CASE UNCHANGED vars
  <2>1. /\ Apart' /\ Sound' /\ UNCHANGED <<rr, review, batch>>
    BY <1>3, <1>7 DEF vars, Calmness, Apart, Sound, Under
  <2>2. ASSUME NEW b \in Batches, Under(b)'
        PROVE  Calm(b)'
    <3>1. Under(b) /\ Calm(b) /\ batch'[b] = batch[b]
      BY <1>3, <2>1, <2>2 DEF Calmness, Under
    <3>2. Spares(batch[b].asked)
      BY <2>1 DEF Spares, Ready
    <3>3. QED
      BY <3>1, <3>2, CalmKept
  <2>3. QED
    BY <2>1, <2>2 DEF Calmness
<1>8. QED
  BY <1>4, <1>5, <1>6, <1>7, NextCases DEF BatchInv

LEMMA InitCalm ==
  ASSUME Init
  PROVE  CalmInv
  BY DEF Init, CalmInv, Calmness, Apart, Sound, Under

(* No review is published twice, and a public review request has           *)
(* reviewers unless the refusal of a draft that names none took them away, *)
(* as long as no request of the API, nor another batch, met a batch that   *)
(* was under way (batch.py 405-416, review_request_draft.py 393-402 and    *)
(* 477-490).                                                               *)
THEOREM CalmBatches == Spec => []Undisturbed
<1>1. Init => BatchInv /\ CalmInv
  BY InitTyped, InitCalm
<1>2. BatchInv /\ CalmInv /\ [Next]_vars => BatchInv' /\ CalmInv'
  BY NextTyped, NextCalm
<1>3. CalmInv => Undisturbed
  BY DEF CalmInv, Calmness, Sound, Undisturbed
<1>4. QED
  BY <1>1, <1>2, <1>3, PTL DEF Spec

(* A review becomes public after its review request, and with nothing on   *)
(* a draft, also when one batch publishes both (batch.py 363-403).         *)
THEOREM ReviewsComeLast == Spec => PublishedInOrder
<1> DEFINE Fit(v) == /\ rr[About[v]].public
                     /\ "comment on a draft" \notin review[v].content
           InOrder == \A v \in Reviews :
             review'[v].public /\ ~review[v].public /\ Without({"met"}) =>
               Fit(v)
<1>1. Init => BatchInv /\ CalmInv
  BY InitTyped, InitCalm
<1>2. BatchInv /\ CalmInv /\ [Next]_vars => BatchInv' /\ CalmInv'
  BY NextTyped, NextCalm
<1>3. BatchInv /\ CalmInv /\ [Next]_vars => [InOrder]_vars
  <2>1. SUFFICES ASSUME BatchInv, CalmInv, Next, NEW v \in Reviews,
                        review'[v].public, ~review[v].public,
                        Without({"met"})
                 PROVE  Fit(v)
    OBVIOUS
  <2>2. Calmness /\ review \in [Reviews -> RowOfReview]
    BY <2>1 DEF CalmInv, BatchInv, TypeOK
  <2>3. ~ApiStep
    <3>1. ASSUME NEW r \in ReviewRequests, DiscardDraft(r)
          PROVE  FALSE
      BY <2>1, <2>2, <3>1 DEF DiscardDraft, RowOfReview
    <3>2. ASSUME NEW r \in ReviewRequests, NEW complete \in BOOLEAN,
                 NEW named \in BOOLEAN, EditDraft(r, complete, named)
          PROVE  FALSE
      BY <2>1, <3>2 DEF EditDraft
    <3>3. ASSUME NEW w \in Reviews, NEW content \in Contents,
                 Write(w, content)
          PROVE  FALSE
      BY <2>1, <2>2, <3>3 DEF Write, RowOfReview
    <3>4. QED
      BY <3>1, <3>2, <3>3 DEF ApiStep
  <2>4. ASSUME NEW b \in Batches, Begins(b)
        PROVE  FALSE
    BY <2>1, <2>4 DEF Begins, Begun
  <2>5. ASSUME NEW b \in Batches, BatchStep(b)
        PROVE  Fit(v)
    <3>1. CASE PublishRequest(b)
      BY <2>1, <2>2, <3>1 DEF PublishRequest, RowOfReview
    <3>2. CASE PublishReview(b)
      <4>1. v = Current(b)
        BY <2>1, <2>2, <3>2 DEF PublishReview
      <4>2. QED
        BY <2>1, <2>2, <3>2, <4>1, PublishReviewCalm
    <3>3. CASE Failing(b) \/ Finish(b)
      BY <2>1, <3>3 DEF Failing, RefuseRequest, RefuseReview, Finish
    <3>4. QED
      BY <2>5, <3>1, <3>2, <3>3 DEF BatchStep, Failing
  <2>6. QED
    BY <2>1, <2>3, <2>4, <2>5, NextCases DEF BatchInv
<1>4. QED
  BY <1>1, <1>2, <1>3, PTL DEF Spec, PublishedInOrder
=============================================================================
