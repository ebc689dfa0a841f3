-------------------------- MODULE PendingReview_proofs --------------------------
(***************************************************************************)
(* Proofs about PendingReview, for all workers and contents, all finite    *)
(* sets of reviews and comments, and any number of crashes.                *)
(*                                                                         *)
(* The argument: two requests under way that hold one review have been     *)
(* recorded as a collision (Recorded), if they can harm each other.  So    *)
(* what a property says of the histories gives each worker the reviews     *)
(* that it holds for itself, and what it has read of them remains true.    *)
(***************************************************************************)
EXTENDS PendingReview, FiniteSetTheorems, FunctionTheorems, SequenceTheorems,
        TLAPS

(***************************************************************************)
(* What a request is at each of its statements.                            *)
(***************************************************************************)
Elems(s) == {s[i] : i \in DOMAIN s}

FixSteps == {"collect", "move", "unlink", "save master", "render"}

(* A consolidation holds different reviews, which it has found.            *)
Merging(rq) ==
  /\ rq.master # Unborn
  /\ rq.rev # rq.master
  /\ \A i \in DOMAIN rq.rest : rq.rest[i] \notin {rq.rev, rq.master}
  /\ \A i, j \in DOMAIN rq.rest : rq.rest[i] = rq.rest[j] => i = j
  /\ Holds(rq) \subseteq rq.found
  /\ rq.filled \subseteq rq.found
  /\ rq.at = "render" => rq.rest = <<>>

Shape(rq) ==
  /\ rq \in Requests
  /\ rq.at # "rest"
  /\ rq.row.public = FALSE
  /\ rq.at = "insert" => rq.kind \in {"save", "publish"}
  /\ (rq.at = "insert") <=> (rq.rev = Unborn)
  /\ rq.at = "save" => rq.kind \in {"save", "publish"}
  /\ rq.at = "publish" => rq.kind = "publish"
  /\ rq.at = "link" => rq.kind = "comment" /\ rq.com # Unborn
  /\ rq.at \in FixSteps => rq.kind = "fix"
  /\ rq.at \in {"delete comments", "delete review"} => rq.kind \in {"fix", "delete"}
  /\ rq.at = "unlink" => rq.com \in rq.todo
  /\ rq.kind # "fix" => rq.master = Unborn /\ rq.rest = <<>> /\ rq.found = {}
  /\ rq.kind = "fix" => Merging(rq)

RowsOK ==
  /\ reviews \in [Reviews -> Row \cup {Unborn, Deleted}]
  /\ before \in [Reviews -> SUBSET Reviews]
  /\ \A u, v \in Reviews : u \in before[v] => Live(u) /\ Live(v)
  /\ Ordered
  /\ links \in [Reviews -> SUBSET comments]
  /\ comments \subseteq Comments

WorkersOK ==
  /\ worker \in [Workers -> Requests \cup {Rest}]
  /\ \A w \in Workers : Busy(w) => Shape(worker[w])

(* Whoever holds a review, that review has been created.                   *)
Born ==
  \A w \in Workers : Busy(w) =>
    \A v \in Holds(worker[w]) \cup worker[w].found : reviews[v] # Unborn

(* A comment that is about to be created is known to nobody else.          *)
Fresh ==
  \A w \in Workers : At(w, "link") =>
    /\ worker[w].com \notin comments
    /\ \A x \in Workers \ {w} : Busy(x) =>
         worker[x].com # worker[w].com /\ worker[w].com \notin worker[x].todo

Recorded ==
  \A w, x \in Workers :
    w # x /\ Busy(w) /\ Busy(x) /\ Holds(worker[w]) \cap Holds(worker[x]) # {} =>
      ({worker[w].kind, worker[x].kind} \in Harmful =>
         {worker[w].kind, worker[x].kind} \in collisions)

HistoriesOK ==
  /\ owed \subseteq Comments
  /\ collisions \subseteq SUBSET Kinds
  /\ crashes \in 0..MaxCrashes

BaseInv == RowsOK /\ WorkersOK /\ Born /\ Fresh /\ Recorded /\ HistoriesOK

LEMMA BaseTypes ==
  BaseInv => TypeOK
BY DEF BaseInv, RowsOK, WorkersOK, HistoriesOK, TypeOK

(***************************************************************************)
(* Requests.                                                               *)
(***************************************************************************)
LEMMA RowFacts ==
  /\ Blank \in Row /\ Blank.public = FALSE
  /\ \A row \in Row, content \in Contents :
       Filled(row, content) \in Row /\ Filled(row, content).public = row.public
BY PendingAssumption DEF Blank, Row, Filled, Content

LEMMA LiveFacts ==
  ASSUME RowsOK, NEW v, Live(v), v \in Reviews
  PROVE  reviews[v] \in Row /\ reviews[v] # Unborn /\ reviews[v] # Deleted
BY PendingAssumption DEF Live

LEMMA NothingIn ==
  <<>> \in Seq(Reviews) /\ Elems(<<>>) = {}
<1>1. <<>> \in Seq(Reviews) /\ Len(<<>>) = 0 /\ DOMAIN <<>> = 1..Len(<<>>)
  BY EmptySeq, LenProperties
<1> QED
  BY <1>1 DEF Elems

LEMMA PlainShape ==
  ASSUME NEW rq \in Requests, rq.at # "rest", rq.row.public = FALSE,
         rq.kind # "fix", rq.master = Unborn, rq.rest = <<>>, rq.found = {},
         rq.at = "insert" => rq.kind \in {"save", "publish"},
         (rq.at = "insert") <=> (rq.rev = Unborn),
         rq.at = "save" => rq.kind \in {"save", "publish"},
         rq.at = "publish" => rq.kind = "publish",
         rq.at = "link" => rq.kind = "comment" /\ rq.com # Unborn,
         rq.at \notin FixSteps,
         rq.at \in {"delete comments", "delete review"} => rq.kind = "delete"
  PROVE  Shape(rq) /\ Holds(rq) = {rq.rev} \ {Unborn}
<1>1. Holds(rq) = {rq.rev} \ {Unborn}
  BY NothingIn DEF Holds, Elems
<1>2. rq.at # "unlink"
  BY DEF FixSteps
<1> QED
  BY <1>1, <1>2 DEF Shape

Asked(rq, kind, at, v) ==
  /\ Shape(rq) /\ Holds(rq) = {v} \ {Unborn}
  /\ rq.kind = kind /\ rq.at = at
  /\ rq.com = Unborn /\ rq.todo = {} /\ rq.found = {}

Commenting(rq, v, c) ==
  /\ Shape(rq) /\ Holds(rq) = {v}
  /\ rq.kind = "comment" /\ rq.at = "link"
  /\ rq.com = c /\ rq.todo = {} /\ rq.found = {}

LEMMA AskFacts ==
  ASSUME NEW kind \in Kinds, NEW at \in Steps \ {"rest"},
         NEW v \in Reviews \cup {Unborn}, NEW row \in Row, row.public = FALSE,
         kind # "fix",
         at = "insert" => kind \in {"save", "publish"},
         (at = "insert") <=> (v = Unborn),
         at = "save" => kind \in {"save", "publish"},
         at = "publish" => kind = "publish",
         at # "link", at \notin FixSteps,
         at \in {"delete comments", "delete review"} => kind = "delete",
         NEW rq, rq = Ask(kind, at, v, row)
  PROVE  Asked(rq, kind, at, v)
<1>1. rq \in Requests
  BY NothingIn DEF Ask, Requests
<1>2. /\ rq.at = at /\ rq.kind = kind /\ rq.rev = v /\ rq.row = row
      /\ rq.master = Unborn /\ rq.rest = <<>> /\ rq.found = {} /\ rq.com = Unborn
      /\ rq.todo = {}
  BY DEF Ask
<1> QED
  BY <1>1, <1>2, PlainShape DEF Asked

LEMMA CommentFacts ==
  ASSUME NEW v \in Reviews, NEW c \in Comments,
         NEW rq, rq = [Ask("comment", "link", v, Blank) EXCEPT !.com = c]
  PROVE  Commenting(rq, v, c)
<1>1. rq \in Requests
  BY NothingIn, RowFacts DEF Ask, Requests, Steps, Kinds
<1>2. /\ rq.at = "link" /\ rq.kind = "comment" /\ rq.rev = v /\ rq.row = Blank
      /\ rq.master = Unborn /\ rq.rest = <<>> /\ rq.found = {} /\ rq.com = c
      /\ rq.todo = {}
  BY DEF Ask
<1>3. "link" \notin FixSteps
  BY DEF FixSteps
<1> QED
  BY <1>1, <1>2, <1>3, PlainShape, RowFacts, PendingAssumption DEF Commenting

(* What a page finds, in the order of the timestamps: each once.           *)
Listing(S, found, rest) ==
  /\ found[1] \in S /\ found[2] \in S /\ found[1] # found[2]
  /\ rest \in Seq(S)
  /\ \A i \in DOMAIN rest : rest[i] \notin {found[1], found[2]}
  /\ \A i, j \in DOMAIN rest : rest[i] = rest[j] => i = j
  /\ S = {found[1], found[2]} \cup Elems(rest)

LEMMA ListedFacts ==
  ASSUME RowsOK, NEW S \in SUBSET Reviews, \A v \in S : Live(v),
         Cardinality(S) >= 2, NEW found \in Listed(S),
         NEW rest, rest = SubSeq(found, 3, Len(found))
  PROVE  Listing(S, found, rest)
<1> DEFINE n == Cardinality(S)
<1>1. IsFiniteSet(S) /\ n \in Nat /\ n >= 2
  BY PendingAssumption, FS_Subset, FS_CardinalityType
<1>2. found \in [1..n -> S]
  BY DEF Listed
<1>3. \A i, j \in 1..n : i < j => found[i] # found[j]
  <2>1. SUFFICES ASSUME NEW i \in 1..n, NEW j \in 1..n, i < j,
                        found[i] = found[j]
                 PROVE  FALSE
    OBVIOUS
  <2>2. found[i] \in before[found[j]] /\ found[j] \in Reviews
    BY <1>2, <2>1 DEF Listed
  <2> QED
    BY <2>1, <2>2 DEF RowsOK, Ordered
<1>4. \A i, j \in 1..n : found[i] = found[j] => i = j
  BY <1>1, <1>3
<1>5. \A v \in S : \E i \in 1..n : found[i] = v
  <2>1. found \in Injection(1..n, S)
    BY <1>2, <1>4, Fun_IsInj
  <2>2. Cardinality(1..n) = n
    BY <1>1, FS_Interval
  <2>3. found \in Surjection(1..n, S)
    BY <1>1, <2>1, <2>2, FS_Injection
  <2> QED
    BY <2>3 DEF Surjection
<1>6. found \in Seq(S) /\ Len(found) = n
  <2>1. found \in Seq(S)
    BY <1>1, <1>2
  <2> QED
    BY <1>1, <1>2, <2>1, LenProperties
<1> HIDE DEF n
<1>7. \A i \in 3..n : found[i] \in S
  BY <1>1, <1>2
<1>8. /\ rest \in Seq(S)
      /\ Len(rest) = (IF 3 <= n THEN n - 3 + 1 ELSE 0)
      /\ \A i \in 1..(n - 3 + 1) : rest[i] = found[3 + i - 1]
  BY <1>1, <1>6, <1>7, SubSeqProperties
<1>9. DOMAIN rest = 1..(n - 2)
  BY <1>1, <1>8, LenProperties
<1>10. \A i \in DOMAIN rest : rest[i] = found[i + 2] /\ i + 2 \in 3..n
  BY <1>1, <1>8, <1>9
<1>11. \A i \in 3..n : i - 2 \in DOMAIN rest /\ rest[i - 2] = found[i]
  BY <1>1, <1>8, <1>9
<1>12. 1 \in 1..n /\ 2 \in 1..n
  BY <1>1
<1>13. found[1] \in S /\ found[2] \in S /\ found[1] # found[2]
  BY <1>1, <1>2, <1>3, <1>12
<1>14. \A i \in DOMAIN rest : rest[i] \notin {found[1], found[2]}
  BY <1>1, <1>4, <1>9, <1>10, <1>12
<1>15. \A i, j \in DOMAIN rest : rest[i] = rest[j] => i = j
  <2>1. SUFFICES ASSUME NEW i \in DOMAIN rest, NEW j \in DOMAIN rest,
                        rest[i] = rest[j]
                 PROVE  i = j
    OBVIOUS
  <2>2. i + 2 = j + 2
    BY <1>1, <1>4, <1>9, <1>10, <2>1
  <2> QED
    BY <1>9, <2>2
<1>16. S = {found[1], found[2]} \cup Elems(rest)
  <2>1. ASSUME NEW v \in S
        PROVE  v \in {found[1], found[2]} \cup Elems(rest)
    <3>1. PICK i \in 1..n : found[i] = v
      BY <1>5
    <3>2. CASE i \in {1, 2}
      BY <3>1, <3>2
    <3>3. CASE i \notin {1, 2}
      <4>1. i \in 3..n
        BY <1>1, <3>1, <3>3
      <4> QED
        BY <1>11, <3>1, <4>1 DEF Elems
    <3> QED
      BY <3>2, <3>3
  <2>2. \A v \in Elems(rest) : v \in S
    BY <1>10, <1>7 DEF Elems
  <2> QED
    BY <1>13, <2>1, <2>2
<1> QED
  BY <1>8, <1>13, <1>14, <1>15, <1>16 DEF Listing

(* The request that a page begins with.                                    *)
FixRequest(found, S, F, row) ==
  [Ask("fix", "collect", found[2], row) EXCEPT
     !.master = found[1], !.rest = SubSeq(found, 3, Len(found)),
     !.found = S, !.filled = F]

Consolidating(rq, found, S, F, row) ==
  /\ Shape(rq) /\ Holds(rq) = S
  /\ rq.kind = "fix" /\ rq.at = "collect" /\ rq.rev = found[2]
  /\ rq.master = found[1] /\ rq.row = row
  /\ rq.com = Unborn /\ rq.todo = {} /\ rq.found = S /\ rq.filled = F
  /\ S = {rq.rev, rq.master} \cup Elems(rq.rest)

LEMMA FixFacts ==
  ASSUME RowsOK, NEW S \in SUBSET Reviews, \A v \in S : Live(v),
         Cardinality(S) >= 2, NEW found \in Listed(S), NEW F \in SUBSET S,
         NEW row \in Row, row.public = FALSE,
         NEW rq, rq = FixRequest(found, S, F, row)
  PROVE  Consolidating(rq, found, S, F, row)
<1>0. PICK rest : rest = SubSeq(found, 3, Len(found))
  OBVIOUS
<1>1. /\ found[1] \in S /\ found[2] \in S /\ found[1] # found[2]
      /\ rest \in Seq(S)
      /\ \A i \in DOMAIN rest : rest[i] \notin {found[1], found[2]}
      /\ \A i, j \in DOMAIN rest : rest[i] = rest[j] => i = j
      /\ S = {found[1], found[2]} \cup Elems(rest)
  <2>1. Listing(S, found, rest)
    BY <1>0, ListedFacts
  <2> QED
    BY ONLY <2>1 DEF Listing
<1>2. /\ rq.at = "collect" /\ rq.kind = "fix" /\ rq.rev = found[2] /\ rq.row = row
      /\ rq.master = found[1] /\ rq.rest = rest /\ rq.found = S /\ rq.filled = F
      /\ rq.com = Unborn /\ rq.todo = {}
  BY <1>0 DEF Ask, FixRequest
<1>3. rest \in Seq(Reviews)
  BY ONLY <1>1, S \in SUBSET Reviews
<1>4. rq = [at |-> "collect", kind |-> "fix", rev |-> found[2], row |-> row,
            master |-> found[1], rest |-> rest, found |-> S, filled |-> F,
            todo |-> {}, com |-> Unborn]
  BY <1>0 DEF Ask, FixRequest
<1>5. rq \in Requests
  <2>1. found[1] \in Reviews /\ found[2] \in Reviews /\ S \in SUBSET Reviews
        /\ F \in SUBSET Reviews
    BY <1>1
  <2> QED
    BY ONLY <2>1, <1>3, <1>4, row \in Row DEF Requests, Steps, Kinds
<1>6. Holds(rq) = S
  <2>1. Unborn \notin S
    BY PendingAssumption
  <2>2. {rq.rest[i] : i \in DOMAIN rq.rest} = Elems(rest)
    BY <1>2 DEF Elems
  <2>3. Holds(rq) = ({found[2], found[1]} \cup Elems(rest)) \ {Unborn}
    BY <1>2, <2>2 DEF Holds
  <2> QED
    BY ONLY <1>1, <2>1, <2>3
<1>7. found[1] # Unborn /\ found[2] # Unborn
  BY <1>1, PendingAssumption
<1>8. Merging(rq)
  <2>1. F \subseteq S
    OBVIOUS
  <2> QED
    BY ONLY <1>1, <1>2, <1>6, <1>7, <2>1 DEF Merging
<1>9. Shape(rq)
  BY <1>2, <1>5, <1>7, <1>8 DEF Shape
<1>10. S = {rq.rev, rq.master} \cup Elems(rq.rest)
  BY ONLY <1>1, <1>2
<1> QED
  BY ONLY <1>2, <1>6, <1>9, <1>10 DEF Consolidating

(***************************************************************************)
(* A request that begins.                                                  *)
(***************************************************************************)
LEMMA StartFacts ==
  ASSUME WorkersOK, NEW w \in Workers, NEW rq, Start(w, rq), Shape(rq)
  PROVE  /\ ~Busy(w) /\ worker'[w] = rq /\ Busy(w)'
         /\ \A x \in Workers \ {w} : worker'[x] = worker[x]
         /\ collisions \subseteq collisions'
         /\ \A x \in Workers \ {w} :
              Busy(x) /\ Holds(worker[x]) \cap Holds(rq) # {}
                /\ {rq.kind, worker[x].kind} \in Harmful
              => {rq.kind, worker[x].kind} \in collisions'
<1>1. ~Busy(w) /\ worker' = [worker EXCEPT ![w] = rq] /\ rq.at # "rest"
  BY DEF Start, Become, Busy, At, Shape
<1>2. worker'[w] = rq /\ \A x \in Workers \ {w} : worker'[x] = worker[x]
  BY <1>1 DEF WorkersOK
<1>3. Busy(w)'
  BY <1>1, <1>2 DEF Busy, At
<1>4. collisions' = collisions \cup
       (Harmful \cap {{rq.kind, worker[x].kind} : x \in Meeting(w, rq)})
  BY DEF Start
<1>5. ASSUME NEW x \in Workers \ {w},
             Busy(x), Holds(worker[x]) \cap Holds(rq) # {},
             {rq.kind, worker[x].kind} \in Harmful
      PROVE  {rq.kind, worker[x].kind} \in collisions'
  BY <1>4, <1>5 DEF Meeting
<1> QED
  BY <1>1, <1>2, <1>3, <1>4, <1>5

LEMMA StartBase ==
  ASSUME BaseInv, NEW w \in Workers, NEW rq, Start(w, rq), Shape(rq),
         UNCHANGED <<rows, owed, crashes>>,
         \A v \in Holds(rq) \cup rq.found : reviews[v] # Unborn,
         rq.todo = {},
         \A x \in Workers : At(x, "link") => worker[x].com # rq.com,
         rq.at = "link" =>
           /\ rq.com \notin comments
           /\ \A x \in Workers : Busy(x) =>
                worker[x].com # rq.com /\ rq.com \notin worker[x].todo
  PROVE  BaseInv'
<1>1. /\ ~Busy(w) /\ worker'[w] = rq /\ Busy(w)'
      /\ \A x \in Workers \ {w} : worker'[x] = worker[x]
      /\ collisions \subseteq collisions'
      /\ \A x \in Workers \ {w} :
           Busy(x) /\ Holds(worker[x]) \cap Holds(rq) # {}
             /\ {rq.kind, worker[x].kind} \in Harmful
           => {rq.kind, worker[x].kind} \in collisions'
  BY StartFacts DEF BaseInv
<1>2. RowsOK'
  BY DEF BaseInv, RowsOK, rows, Live, Ordered
<1>3. \A x \in Workers \ {w} : Busy(x)' <=> Busy(x)
  BY <1>1 DEF Busy, At
<1>4. WorkersOK'
  <2>1. worker' \in [Workers -> Requests \cup {Rest}]
    BY DEF BaseInv, WorkersOK, Start, Become, Shape
  <2> QED
    BY <1>1, <1>3, <2>1 DEF BaseInv, WorkersOK
<1>5. Born'
  BY <1>1, <1>3 DEF BaseInv, Born, rows
<1>6. Fresh'
  <2>1. ASSUME NEW x \in Workers, At(x, "link")'
        PROVE  /\ worker'[x].com \notin comments'
               /\ \A y \in Workers \ {x} : Busy(y)' =>
                    worker'[y].com # worker'[x].com /\ worker'[x].com \notin worker'[y].todo
    <3>1. CASE x = w
      BY <1>1, <1>3, <2>1, <3>1 DEF At, rows
    <3>2. CASE x # w
      <4>1. At(x, "link") /\ worker'[x] = worker[x] /\ Busy(x)
        BY <1>1, <2>1, <3>2 DEF At, Busy
      <4> QED
        BY <1>1, <1>3, <4>1 DEF BaseInv, Fresh, rows
    <3> QED
      BY <3>1, <3>2
  <2> QED
    BY <2>1 DEF Fresh
<1>7. Recorded'
  <2>1. ASSUME NEW x \in Workers, NEW y \in Workers, x # y, Busy(x)', Busy(y)',
               Holds(worker'[x]) \cap Holds(worker'[y]) # {},
               {worker'[x].kind, worker'[y].kind} \in Harmful
        PROVE  {worker'[x].kind, worker'[y].kind} \in collisions'
    <3>1. CASE x = w
      BY <1>1, <1>3, <2>1, <3>1
    <3>2. CASE y = w
      <4>1. {worker'[x].kind, worker'[y].kind} = {rq.kind, worker[x].kind}
        BY <1>1, <2>1, <3>2
      <4>2. Holds(worker[x]) \cap Holds(rq) # {} /\ Busy(x)
        BY <1>1, <1>3, <2>1, <3>2
      <4> QED
        BY <1>1, <2>1, <3>2, <4>1, <4>2
    <3>3. CASE x # w /\ y # w
      <4>1. Busy(x) /\ Busy(y) /\ worker'[x] = worker[x] /\ worker'[y] = worker[y]
        BY <1>1, <1>3, <2>1, <3>3
      <4>2. {worker[x].kind, worker[y].kind} \in collisions
        BY <2>1, <4>1 DEF BaseInv, Recorded
      <4> QED
        BY <1>1, <4>1, <4>2
    <3> QED
      BY <3>1, <3>2, <3>3
  <2> QED
    BY <2>1 DEF Recorded
<1>8. HistoriesOK'
  <2>1. collisions' \subseteq SUBSET Kinds
    <3>1. Harmful \subseteq SUBSET Kinds
      BY DEF Harmful, Kinds
    <3> QED
      BY <3>1 DEF BaseInv, HistoriesOK, Start
  <2> QED
    BY <2>1 DEF BaseInv, HistoriesOK, rows
<1> QED
  BY <1>2, <1>4, <1>5, <1>6, <1>7, <1>8 DEF BaseInv

(* Whatever a worker begins with, it holds reviews that are pending; a     *)
(* comment that it is to add is new; a consolidation holds what it found.  *)
Arrived(w, rq) ==
  /\ Start(w, rq) /\ Shape(rq) /\ UNCHANGED <<rows, owed, crashes>>
  /\ \A v \in Holds(rq) : v \in Reviews /\ Pending(v)
  /\ rq.todo = {}
  /\ rq.at \in {"insert", "save", "link", "delete comments", "collect"}
  /\ rq.at = "link" =>
       /\ rq.com \in Comments \ comments
       /\ \A x \in Workers : Busy(x) =>
            worker[x].com # rq.com /\ rq.com \notin worker[x].todo
  /\ rq.at # "link" => rq.com = Unborn
  /\ rq.kind # "fix" => rq.found = {}
  /\ rq.at = "delete comments" => rq.kind = "delete"
  /\ rq.kind = "fix" =>
       /\ rq.at = "collect" /\ rq.found = PendingReviews
       /\ rq.found = {rq.rev, rq.master} \cup Elems(rq.rest)
       /\ rq.filled = {v \in PendingReviews : reviews[v].top}
       /\ rq.row = reviews[rq.master]

LEMMA SaveArrives ==
  ASSUME BaseInv, NEW w \in Workers, NEW kind \in {"save", "publish"},
         NEW at \in {"insert", "save"}, NEW v \in Reviews \cup {Unborn},
         (at = "insert") <=> (v = Unborn), v \in Reviews => Pending(v),
         NEW row \in Row, row.public = FALSE,
         NEW rq, rq = Ask(kind, at, v, row),
         Start(w, rq), UNCHANGED <<rows, owed, crashes>>
  PROVE  Arrived(w, rq)
<1>1. /\ kind \in Kinds /\ kind # "fix"
      /\ at \in Steps \ {"rest"} /\ at \notin FixSteps
      /\ at # "link" /\ at # "publish" /\ at \notin {"delete comments", "delete review"}
  BY DEF Kinds, Steps, FixSteps
<1>2. Asked(rq, kind, at, v)
  BY <1>1, AskFacts
<1> QED
  BY <1>1, <1>2 DEF Arrived, Asked

LEMMA PostArrives ==
  ASSUME BaseInv, NEW w \in Workers, NEW content \in Contents,
         NEW kind \in {"save", "publish"}, Post(w, content, kind)
  PROVE  \E rq : Arrived(w, rq)
<1>1. CASE PendingReviews = {}
  <2>1. PICK row \in Row : row = Filled(Blank, content) /\ row.public = FALSE
    BY RowFacts
  <2>2. Start(w, Ask(kind, "insert", Unborn, row)) /\ UNCHANGED <<rows, owed, crashes>>
    BY <1>1, <2>1 DEF Post
  <2>3. Unborn \notin Reviews
    BY PendingAssumption
  <2>4. PICK rq : rq = Ask(kind, "insert", Unborn, row)
    OBVIOUS
  <2> QED
    BY <2>1, <2>2, <2>3, <2>4, SaveArrives
<1>2. CASE PendingReviews # {}
  <2>1. PICK v \in PendingReviews :
          Start(w, Ask(kind, "save", v, Filled(reviews[v], content)))
    BY <1>2 DEF Post
  <2>2. v \in Reviews /\ Pending(v) /\ reviews[v] \in Row /\ ~reviews[v].public
    BY <2>1 DEF PendingReviews, Pending, Live
  <2>3. PICK row \in Row : row = Filled(reviews[v], content) /\ row.public = FALSE
    BY <2>2, RowFacts DEF Row
  <2>4. PICK rq : rq = Ask(kind, "save", v, row)
    OBVIOUS
  <2>5. Start(w, rq) /\ UNCHANGED <<rows, owed, crashes>>
    BY <2>1, <2>3, <2>4 DEF Post
  <2>6. v # Unborn
    BY <2>2, PendingAssumption
  <2> QED
    BY <2>2, <2>3, <2>4, <2>5, <2>6, SaveArrives
<1> QED
  BY <1>1, <1>2

LEMMA PutArrives ==
  ASSUME BaseInv, NEW w \in Workers, NEW content \in Contents,
         NEW kind \in {"save", "publish"}, NEW v \in Reviews, Put(w, v, content, kind)
  PROVE  \E rq : Arrived(w, rq)
<1>1. Pending(v) /\ reviews[v] \in Row /\ ~reviews[v].public
  BY DEF Put, Pending, Live
<1>2. PICK row \in Row : row = Filled(reviews[v], content) /\ row.public = FALSE
  BY <1>1, RowFacts DEF Row
<1>3. PICK rq : rq = Ask(kind, "save", v, row)
  OBVIOUS
<1>4. Start(w, rq) /\ UNCHANGED <<rows, owed, crashes>>
  BY <1>2, <1>3 DEF Put
<1>5. v # Unborn
  BY PendingAssumption
<1> QED
  BY <1>1, <1>2, <1>3, <1>4, <1>5, SaveArrives

LEMMA CommentArrives ==
  ASSUME BaseInv, NEW w \in Workers, NEW v \in Reviews, NEW c \in Comments,
         AddComment(w, v, c)
  PROVE  \E rq : Arrived(w, rq)
<1>1. PICK rq : rq = [Ask("comment", "link", v, Blank) EXCEPT !.com = c]
  OBVIOUS
<1>2. /\ Start(w, rq) /\ UNCHANGED <<rows, owed, crashes>> /\ Pending(v)
      /\ c \notin comments
      /\ \A x \in Workers : Busy(x) => worker[x].com # c /\ c \notin worker[x].todo
  BY <1>1 DEF AddComment
<1>3. Commenting(rq, v, c)
  BY <1>1, CommentFacts
<1>4. Arrived(w, rq)
  BY <1>2, <1>3 DEF Arrived, Commenting
<1> QED
  BY <1>4

LEMMA DeleteArrives ==
  ASSUME BaseInv, NEW w \in Workers, NEW v \in Reviews, Delete(w, v)
  PROVE  \E rq : Arrived(w, rq)
<1>1. PICK rq : rq = Ask("delete", "delete comments", v, Blank)
  OBVIOUS
<1>2. Start(w, rq) /\ UNCHANGED <<rows, owed, crashes>> /\ Pending(v)
  BY <1>1 DEF Delete
<1>3. /\ Blank \in Row /\ Blank.public = FALSE /\ v # Unborn
      /\ "delete" \in Kinds /\ "delete comments" \in Steps \ {"rest"}
      /\ "delete comments" \notin FixSteps
  BY RowFacts, PendingAssumption DEF Kinds, Steps, FixSteps
<1>4. Asked(rq, "delete", "delete comments", v)
  BY <1>1, <1>3, AskFacts
<1>5. Arrived(w, rq)
  BY <1>2, <1>3, <1>4 DEF Arrived, Asked
<1> QED
  BY <1>5

LEMMA FixArrives ==
  ASSUME BaseInv, NEW w \in Workers, Fix(w)
  PROVE  \E rq : Arrived(w, rq)
<1>1. PICK found \in Listed(PendingReviews) :
        Start(w, [Ask("fix", "collect", found[2], reviews[found[1]]) EXCEPT
                    !.master = found[1],
                    !.rest   = SubSeq(found, 3, Len(found)),
                    !.found  = PendingReviews,
                    !.filled = {v \in PendingReviews : reviews[v].top}])
  BY DEF Fix
<1>2. PICK S \in SUBSET Reviews : S = PendingReviews
  BY DEF PendingReviews
<1>3. /\ \A v \in S : Live(v) /\ Pending(v) /\ reviews[v] \in Row /\ ~reviews[v].public
      /\ Cardinality(S) >= 2 /\ found \in Listed(S)
  BY <1>1, <1>2 DEF PendingReviews, Pending, Live, Fix
<1>4. PICK rest : rest = SubSeq(found, 3, Len(found))
  OBVIOUS
<1>5. Listing(S, found, rest)
  BY <1>2, <1>3, <1>4, ListedFacts DEF BaseInv
<1>6. found[1] \in S
  BY <1>5 DEF Listing
<1>7. PICK row \in Row : row = reviews[found[1]] /\ row.public = FALSE
  BY <1>3, <1>6 DEF Row
<1>8. PICK F \in SUBSET S : F = {v \in PendingReviews : reviews[v].top}
  BY <1>2
<1>9. PICK rq : rq = FixRequest(found, S, F, row)
  OBVIOUS
<1>10. Start(w, rq) /\ UNCHANGED <<rows, owed, crashes>>
  BY <1>1, <1>2, <1>7, <1>8, <1>9 DEF Fix, FixRequest
<1>11. Consolidating(rq, found, S, F, row)
  BY <1>2, <1>3, <1>7, <1>8, <1>9, FixFacts DEF BaseInv
<1>12. Arrived(w, rq)
  BY <1>2, <1>3, <1>7, <1>8, <1>10, <1>11 DEF Arrived, Consolidating
<1> QED
  BY <1>12

LEMMA ArriveFacts ==
  ASSUME BaseInv, NEW w \in Workers, Arrive(w)
  PROVE  \E rq : Arrived(w, rq)
BY PostArrives, PutArrives, CommentArrives, DeleteArrives, FixArrives DEF Arrive

LEMMA ArriveBase ==
  ASSUME BaseInv, NEW w \in Workers, Arrive(w)
  PROVE  BaseInv'
<1>1. PICK rq : Arrived(w, rq)
  BY ArriveFacts
<1>2. Start(w, rq) /\ Shape(rq) /\ UNCHANGED <<rows, owed, crashes>> /\ rq.todo = {}
  BY <1>1 DEF Arrived
<1>3. \A v \in Holds(rq) \cup rq.found : reviews[v] # Unborn
  BY <1>1, LiveFacts DEF Arrived, Pending, PendingReviews, BaseInv
<1>4. \A x \in Workers : At(x, "link") => worker[x].com # rq.com
  BY <1>1 DEF Arrived, At, Busy, BaseInv, WorkersOK, Shape
<1>5. rq.at = "link" =>
        /\ rq.com \notin comments
        /\ \A x \in Workers : Busy(x) =>
             worker[x].com # rq.com /\ rq.com \notin worker[x].todo
  BY <1>1 DEF Arrived
<1> QED
  BY <1>2, <1>3, <1>4, <1>5, StartBase

(***************************************************************************)
(* A request that goes on.                                                 *)
(***************************************************************************)
Step(w, rq) == worker' = [worker EXCEPT ![w] = rq] /\ collisions' = collisions

Kept(p, rq) ==
  /\ rq.kind = p.kind /\ rq.rev = p.rev /\ rq.master = p.master
  /\ rq.rest = p.rest /\ rq.found = p.found /\ rq.filled = p.filled
  /\ Holds(rq) = Holds(p)

LEMMA StepWorkers ==
  ASSUME WorkersOK, NEW w \in Workers, NEW rq, Step(w, rq)
  PROVE  /\ worker'[w] = rq
         /\ \A x \in Workers \ {w} : worker'[x] = worker[x] /\ (Busy(x)' <=> Busy(x))
BY DEF Step, WorkersOK, Busy, At

LEMMA SameShape ==
  ASSUME NEW p, Shape(p), p.at # "insert",
         NEW rq \in Requests,
         rq.kind = p.kind, rq.rev = p.rev, rq.master = p.master,
         rq.rest = p.rest, rq.found = p.found, rq.filled = p.filled,
         rq.row.public = FALSE,
         rq.at \notin {"rest", "insert", "link", "save"},
         rq.at = "publish" => p.kind = "publish",
         rq.at \in FixSteps => p.kind = "fix",
         rq.at \in {"delete comments", "delete review"} => p.kind \in {"fix", "delete"},
         rq.at = "unlink" => rq.com \in rq.todo,
         rq.at = "render" => rq.rest = <<>>
  PROVE  Shape(rq) /\ Kept(p, rq)
<1>1. Holds(rq) = Holds(p)
  BY DEF Holds
<1>2. rq.kind = "fix" => Merging(rq)
  BY <1>1 DEF Shape, Merging
<1> QED
  BY <1>1, <1>2 DEF Shape, Kept

(* Whatever else a step does, it leaves the invariant true if it does this.*)
Follows(p, rq) ==
  /\ Shape(rq) /\ rq.kind = p.kind /\ rq.at # "link"
  /\ rq.found = p.found
  /\ rq.com \in {p.com, Unborn} \cup p.todo

LEMMA StepBase ==
  ASSUME BaseInv, NEW w \in Workers, Busy(w), NEW p, p = worker[w],
         NEW rq, Step(w, rq),
         rq = Rest \/ ( /\ Follows(p, rq)
                        /\ rq.todo \subseteq p.todo \cup comments
                        /\ \A v \in Holds(rq) :
                             v \in Holds(p) \/ (reviews[v] = Unborn /\ reviews'[v] # Unborn) ),
         RowsOK', owed' \subseteq Comments, crashes' \in 0..MaxCrashes,
         \A v \in Reviews : reviews[v] # Unborn => reviews'[v] # Unborn,
         \A c \in comments' : c \in comments \/ c = p.com
  PROVE  BaseInv'
<1>1. /\ worker'[w] = rq
      /\ \A x \in Workers \ {w} : worker'[x] = worker[x] /\ (Busy(x)' <=> Busy(x))
  BY StepWorkers DEF BaseInv
<1>2. Busy(w)' => rq # Rest
  BY <1>1 DEF Busy, At, Rest
<1>3. ASSUME rq # Rest
      PROVE  /\ Follows(p, rq) /\ Shape(rq)
             /\ rq.todo \subseteq p.todo \cup comments
             /\ \A v \in Holds(rq) :
                  v \in Holds(p) \/ (reviews[v] = Unborn /\ reviews'[v] # Unborn)
  BY <1>3 DEF Follows
<1>4. ASSUME NEW x \in Workers, Busy(x)
      PROVE  /\ Shape(worker[x])
             /\ \A v \in Holds(worker[x]) \cup worker[x].found :
                  v \in Reviews /\ reviews[v] # Unborn
  <2>1. Shape(worker[x]) /\ worker[x] \in Requests
    BY <1>4 DEF BaseInv, WorkersOK, Shape
  <2>2. Holds(worker[x]) \subseteq Reviews /\ worker[x].found \subseteq Reviews
    <3>1. worker[x].rest \in Seq(Reviews) /\ worker[x].found \subseteq Reviews
          /\ worker[x].rev \in Reviews \cup {Unborn}
          /\ worker[x].master \in Reviews \cup {Unborn}
      BY <2>1 DEF Requests
    <3>2. \A i \in DOMAIN worker[x].rest : worker[x].rest[i] \in Reviews
      BY ONLY <3>1, LenProperties
    <3> QED
      BY <3>1, <3>2 DEF Holds
  <2> QED
    BY <1>4, <2>1, <2>2 DEF BaseInv, Born
<1>5. WorkersOK'
  <2>1. worker' \in [Workers -> Requests \cup {Rest}]
    BY <1>3 DEF BaseInv, WorkersOK, Step, Shape
  <2>2. \A x \in Workers : Busy(x)' => Shape(worker'[x])
    BY <1>1, <1>2, <1>3, <1>4
  <2> QED
    BY <2>1, <2>2 DEF WorkersOK
<1>6. Born'
  <2>1. ASSUME NEW x \in Workers, Busy(x)',
               NEW v \in Holds(worker'[x]) \cup worker'[x].found
        PROVE  reviews'[v] # Unborn
    <3>1. CASE x = w
      <4>1. rq # Rest /\ Follows(p, rq)
        BY <1>2, <1>3, <2>1, <3>1
      <4>2. v \in Holds(p) \cup p.found \/ reviews'[v] # Unborn
        BY <1>1, <1>3, <2>1, <3>1, <4>1 DEF Follows
      <4> QED
        BY <1>4, <4>2
    <3>2. CASE x # w
      BY <1>1, <1>4, <2>1, <3>2
    <3> QED
      BY <3>1, <3>2
  <2> QED
    BY <2>1 DEF Born
<1>7. Fresh'
  <2>1. ASSUME NEW x \in Workers, At(x, "link")'
        PROVE  /\ worker'[x].com \notin comments'
               /\ \A y \in Workers \ {x} : Busy(y)' =>
                    worker'[y].com # worker'[x].com /\ worker'[x].com \notin worker'[y].todo
    <3>1. x # w
      BY <1>1, <1>3, <2>1 DEF At, Rest, Follows
    <3>2. At(x, "link") /\ worker'[x] = worker[x] /\ Busy(x)
      BY <1>1, <2>1, <3>1 DEF At, Busy
    <3>3. PICK c : c = worker[x].com
      OBVIOUS
    <3>4. c # Unborn
      BY <1>4, <3>2, <3>3 DEF Shape, At
    <3>5. /\ c \notin comments
          /\ \A y \in Workers \ {x} : Busy(y) =>
               worker[y].com # c /\ c \notin worker[y].todo
      BY <3>2, <3>3 DEF BaseInv, Fresh
    <3>6. p.com # c /\ c \notin p.todo
      BY <3>1, <3>5
    <3>7. c \notin comments'
      BY <3>5, <3>6
    <3>8. Busy(w)' => rq.com # c /\ c \notin rq.todo
      BY <1>2, <1>3, <3>4, <3>5, <3>6 DEF Follows
    <3> QED
      BY <1>1, <3>2, <3>3, <3>5, <3>7, <3>8
  <2> QED
    BY <2>1 DEF Fresh
<1>8. ASSUME NEW x \in Workers \ {w}, Busy(x), Busy(w)',
             Holds(rq) \cap Holds(worker[x]) # {},
             {rq.kind, worker[x].kind} \in Harmful
      PROVE  {rq.kind, worker[x].kind} \in collisions
  <2>1. rq.kind = p.kind /\ rq # Rest
    BY <1>2, <1>3, <1>8 DEF Follows
  <2>2. Holds(p) \cap Holds(worker[x]) # {}
    BY <1>3, <1>4, <1>8, <2>1
  <2> QED
    BY <1>8, <2>1, <2>2 DEF BaseInv, Recorded
<1>9. Recorded'
  <2>1. ASSUME NEW x \in Workers, NEW y \in Workers, x # y, Busy(x)', Busy(y)',
               Holds(worker'[x]) \cap Holds(worker'[y]) # {},
               {worker'[x].kind, worker'[y].kind} \in Harmful
        PROVE  {worker'[x].kind, worker'[y].kind} \in collisions
    <3>1. CASE x = w
      BY <1>1, <1>8, <2>1, <3>1
    <3>2. CASE y = w
      <4>1. {worker'[x].kind, worker'[y].kind} = {rq.kind, worker[x].kind}
        BY <1>1, <2>1, <3>2
      <4> QED
        BY <1>1, <1>8, <2>1, <3>2, <4>1
    <3>3. CASE x # w /\ y # w
      BY <1>1, <2>1, <3>3 DEF BaseInv, Recorded
    <3> QED
      BY <3>1, <3>2, <3>3
  <2> QED
    BY <2>1 DEF Recorded, Step
<1>10. HistoriesOK'
  BY DEF BaseInv, HistoriesOK, Step
<1> QED
  BY <1>5, <1>6, <1>7, <1>9, <1>10 DEF BaseInv

(***************************************************************************)
(* The rows.                                                               *)
(***************************************************************************)
LEMMA SaveRows ==
  ASSUME RowsOK, NEW v \in Reviews, NEW row \in Row, Save(v, row)
  PROVE  /\ RowsOK' /\ links' = links /\ comments' = comments
         /\ reviews'[v] = row /\ Live(v)'
         /\ \A u \in Reviews \ {v} : reviews'[u] = reviews[u] /\ (Live(u)' <=> Live(u))
         /\ \A u \in Reviews : reviews[u] # Unborn => reviews'[u] # Unborn
<1>1. /\ reviews' = [reviews EXCEPT ![v] = row]
      /\ before' = [u \in Reviews |-> IF u = v THEN {x \in Reviews : Live(x)} \ {v}
                                               ELSE before[u] \ {v}]
      /\ links' = links /\ comments' = comments
  BY DEF Save
<1>2. /\ reviews'[v] = row /\ reviews' \in [Reviews -> Row \cup {Unborn, Deleted}]
      /\ \A u \in Reviews \ {v} : reviews'[u] = reviews[u]
  BY <1>1 DEF RowsOK
<1>3. Live(v)' /\ \A u \in Reviews \ {v} : Live(u)' <=> Live(u)
  BY <1>2 DEF Live
<1>4. \A u \in Reviews : reviews[u] # Unborn => reviews'[u] # Unborn
  BY <1>2, PendingAssumption
<1>5. /\ before' \in [Reviews -> SUBSET Reviews]
      /\ \A u \in Reviews : u \in before'[v] <=> Live(u) /\ u # v
      /\ \A u, x \in Reviews : x # v => (u \in before'[x] <=> u \in before[x] /\ u # v)
  BY <1>1 DEF RowsOK
<1>6. \A u, x \in Reviews : u \in before'[x] => Live(u)' /\ Live(x)'
  BY <1>3, <1>5 DEF RowsOK
<1>7. ASSUME NEW u \in Reviews, NEW x \in Reviews, u # x, Live(u)', Live(x)'
      PROVE  u \in before'[x] <=> x \notin before'[u]
  <2>1. CASE x = v
    BY <1>3, <1>5, <1>7, <2>1
  <2>2. CASE u = v
    BY <1>3, <1>5, <1>7, <2>2
  <2>3. CASE x # v /\ u # v
    BY <1>3, <1>5, <1>7, <2>3 DEF RowsOK, Ordered
  <2> QED
    BY <2>1, <2>2, <2>3
<1>8. ASSUME NEW t \in Reviews, NEW u \in Reviews, NEW x \in Reviews,
             t \in before'[u], u \in before'[x]
      PROVE  t \in before'[x] /\ t # x
  <2>1. u # v
    BY <1>5, <1>8
  <2>2. t \in before[u] /\ t # v
    BY <1>5, <1>8, <2>1
  <2>3. Live(t)
    BY <2>2 DEF RowsOK
  <2>4. CASE x = v
    BY <1>5, <2>2, <2>3, <2>4
  <2>5. CASE x # v
    <3>1. u \in before[x]
      BY <1>5, <1>8, <2>5
    <3>2. t \in before[x] /\ t # x
      BY <2>2, <3>1 DEF RowsOK, Ordered
    <3> QED
      BY <1>5, <2>2, <2>5, <3>2
  <2> QED
    BY <2>4, <2>5
<1>9. Ordered'
  BY <1>7, <1>8 DEF Ordered
<1>10. links' \in [Reviews -> SUBSET comments'] /\ comments' \subseteq Comments
  BY <1>1 DEF RowsOK
<1>11. RowsOK'
  BY <1>2, <1>5, <1>6, <1>9, <1>10 DEF RowsOK
<1> QED
  BY <1>1, <1>2, <1>3, <1>4, <1>11

LEMMA DeletedRows ==
  ASSUME RowsOK, NEW v \in Reviews,
         reviews' = [reviews EXCEPT ![v] = Deleted],
         before' = [u \in Reviews |-> IF u = v THEN {} ELSE before[u] \ {v}],
         links' = [links EXCEPT ![v] = {}], comments' = comments
  PROVE  /\ RowsOK' /\ ~Live(v)' /\ links'[v] = {}
         /\ \A u \in Reviews \ {v} :
              reviews'[u] = reviews[u] /\ (Live(u)' <=> Live(u)) /\ links'[u] = links[u]
         /\ \A u \in Reviews : reviews[u] # Unborn => reviews'[u] # Unborn
<1>1. /\ reviews'[v] = Deleted /\ reviews' \in [Reviews -> Row \cup {Unborn, Deleted}]
      /\ \A u \in Reviews \ {v} : reviews'[u] = reviews[u]
  BY DEF RowsOK
<1>2. ~Live(v)' /\ \A u \in Reviews \ {v} : Live(u)' <=> Live(u)
  BY <1>1, PendingAssumption DEF Live
<1>3. \A u \in Reviews : reviews[u] # Unborn => reviews'[u] # Unborn
  BY <1>1, PendingAssumption
<1>4. /\ before' \in [Reviews -> SUBSET Reviews]
      /\ \A u, x \in Reviews :
           u \in before'[x] <=> u \in before[x] /\ u # v /\ x # v
  BY DEF RowsOK
<1>5. \A u, x \in Reviews : u \in before'[x] => Live(u)' /\ Live(x)'
  BY <1>2, <1>4 DEF RowsOK
<1>6. \A u, x \in Reviews : u # x /\ Live(u)' /\ Live(x)' =>
        (u \in before'[x] <=> x \notin before'[u])
  BY <1>2, <1>4 DEF RowsOK, Ordered
<1>7. \A t, u, x \in Reviews :
        t \in before'[u] /\ u \in before'[x] => t \in before'[x] /\ t # x
  BY <1>4 DEF RowsOK, Ordered
<1>8. Ordered'
  BY <1>6, <1>7 DEF Ordered
<1>9. /\ links' \in [Reviews -> SUBSET comments'] /\ comments' \subseteq Comments
      /\ links'[v] = {} /\ \A u \in Reviews \ {v} : links'[u] = links[u]
  BY DEF RowsOK
<1>10. RowsOK'
  BY <1>1, <1>4, <1>5, <1>8, <1>9 DEF RowsOK
<1> QED
  BY <1>1, <1>2, <1>3, <1>9, <1>10

(* The reviews stay, and of the links only those of existing comments.     *)
LEMMA LinkedRows ==
  ASSUME RowsOK, UNCHANGED <<reviews, before>>,
         links' \in [Reviews -> SUBSET comments'], comments' \subseteq Comments
  PROVE  /\ RowsOK'
         /\ \A v : Live(v)' <=> Live(v)
BY DEF RowsOK, Live, Ordered

(***************************************************************************)
(* What each statement does, to the rows and to its request.               *)
(***************************************************************************)
LEMMA BusyFacts ==
  ASSUME BaseInv, NEW w \in Workers, Busy(w), NEW p, p = worker[w]
  PROVE  /\ Shape(p) /\ p.row \in Row /\ p.row.public = FALSE
         /\ p.at # "insert" => p.rev \in Reviews /\ p.rev \in Holds(p)
         /\ p.kind = "fix" =>
              p.master \in Reviews /\ p.master \in Holds(p) /\ p.master # p.rev
         /\ \A v \in Holds(p) \cup p.found : v \in Reviews /\ reviews[v] # Unborn
         /\ p.todo \subseteq Comments
         /\ p.rest \in Seq(Reviews)
<1>1. Shape(p) /\ p \in Requests
  BY DEF BaseInv, WorkersOK, Shape
<1>2. /\ p.rest \in Seq(Reviews) /\ p.found \subseteq Reviews
      /\ p.rev \in Reviews \cup {Unborn} /\ p.master \in Reviews \cup {Unborn}
      /\ p.todo \subseteq Comments /\ p.row \in Row
  BY <1>1 DEF Requests
<1>3. \A i \in DOMAIN p.rest : p.rest[i] \in Reviews
  BY ONLY <1>2, LenProperties
<1>4. Holds(p) \subseteq Reviews
  BY <1>2, <1>3 DEF Holds
<1>5. \A v \in Holds(p) \cup p.found : reviews[v] # Unborn
  BY DEF BaseInv, Born
<1>6. p.at # "insert" => p.rev \in Reviews /\ p.rev \in Holds(p)
  BY <1>1, <1>2 DEF Shape, Holds
<1>7. p.kind = "fix" => p.master \in Reviews /\ p.master \in Holds(p) /\ p.master # p.rev
  BY <1>1, <1>2 DEF Shape, Merging, Holds
<1> QED
  BY <1>1, <1>2, <1>4, <1>5, <1>6, <1>7 DEF Shape

InsertDone(w, p, rq, v) ==
  /\ p.at = "insert" /\ v \in Reviews /\ reviews[v] = Unborn /\ Save(v, Blank)
  /\ Step(w, rq) /\ Shape(rq) /\ rq.at = "save"
  /\ rq.kind = p.kind /\ p.kind # "fix" /\ rq.found = p.found /\ rq.rev = v
  /\ Holds(rq) = {v}
  /\ rq.com = p.com /\ rq.todo = p.todo /\ rq.row = p.row
  /\ UNCHANGED <<owed, crashes>>

LEMMA InsertFacts ==
  ASSUME BaseInv, NEW w \in Workers, Insert(w), NEW p, p = worker[w]
  PROVE  \E rq, v : InsertDone(w, p, rq, v)
<1>1. Busy(w) /\ p.at = "insert"
  BY DEF Insert, Busy, At
<1>2. PICK v \in Reviews :
        /\ reviews[v] = Unborn /\ Save(v, Blank)
        /\ Become(w, [worker[w] EXCEPT !.at = "save", !.rev = v])
  BY DEF Insert
<1>3. PICK rq : rq = [p EXCEPT !.at = "save", !.rev = v]
  OBVIOUS
<1>4. Shape(p) /\ p \in Requests
  BY <1>1, BusyFacts DEF Shape
<1>5. /\ rq.at = "save" /\ rq.rev = v /\ rq.kind = p.kind /\ rq.row = p.row
      /\ rq.master = p.master /\ rq.rest = p.rest /\ rq.found = p.found
      /\ rq.todo = p.todo /\ rq.com = p.com
  BY <1>3, <1>4 DEF Requests
<1>6. rq \in Requests
  BY <1>3, <1>4 DEF Requests, Steps
<1>7. p.kind \in {"save", "publish"} /\ p.row.public = FALSE
  BY <1>1, <1>4 DEF Shape
<1>8. rq.master = Unborn /\ rq.rest = <<>> /\ rq.found = {}
  BY <1>4, <1>5, <1>7 DEF Shape
<1>9. v # Unborn /\ "save" \notin FixSteps
  BY PendingAssumption DEF FixSteps
<1>10. Shape(rq) /\ Holds(rq) = {v}
  BY <1>5, <1>6, <1>7, <1>8, <1>9, PlainShape
<1>11. Step(w, rq) /\ UNCHANGED <<owed, crashes>>
  BY <1>2, <1>3 DEF Insert, Step, Become
<1>12. InsertDone(w, p, rq, v)
  BY <1>1, <1>2, <1>5, <1>7, <1>10, <1>11 DEF InsertDone
<1> QED
  BY <1>12

SaveDone(w, p, rq) ==
  /\ p.at = "save" /\ p.kind \in {"save", "publish"} /\ Save(p.rev, p.row)
  /\ Step(w, rq) /\ UNCHANGED <<owed, crashes>>
  /\ \/ rq = Rest
     \/ /\ Shape(rq) /\ Kept(p, rq) /\ rq.at = "publish"
        /\ rq.com = p.com /\ rq.todo = p.todo

LEMMA SaveFacts ==
  ASSUME BaseInv, NEW w \in Workers, SaveUpdate(w), NEW p, p = worker[w]
  PROVE  \E rq : SaveDone(w, p, rq)
<1>1. Busy(w) /\ p.at = "save" /\ Shape(p) /\ p \in Requests /\ p.row.public = FALSE
  BY BusyFacts DEF SaveUpdate, Busy, At, Shape
<1>2. p.kind \in {"save", "publish"}
  BY <1>1 DEF Shape
<1>3. CASE p.kind = "publish"
  <2>1. PICK rq : rq = [p EXCEPT !.at = "publish"]
    OBVIOUS
  <2>2. /\ rq.at = "publish" /\ rq.kind = p.kind /\ rq.rev = p.rev /\ rq.row = p.row
        /\ rq.master = p.master /\ rq.rest = p.rest /\ rq.found = p.found
        /\ rq.filled = p.filled /\ rq.todo = p.todo /\ rq.com = p.com
    BY <1>1, <2>1 DEF Requests
  <2>3. rq \in Requests /\ "publish" \notin FixSteps
    BY <1>1, <2>1 DEF Requests, Steps, FixSteps
  <2>4. Shape(rq) /\ Kept(p, rq)
    BY <1>1, <1>3, <2>2, <2>3, SameShape
  <2>5. Step(w, rq) /\ UNCHANGED <<owed, crashes>> /\ Save(p.rev, p.row)
    BY <1>3, <2>1 DEF SaveUpdate, Step, Continue, Become
  <2> QED
    BY <1>1, <1>2, <2>2, <2>4, <2>5 DEF SaveDone
<1>4. CASE p.kind # "publish"
  <2>1. Step(w, Rest) /\ UNCHANGED <<owed, crashes>> /\ Save(p.rev, p.row)
    BY <1>4 DEF SaveUpdate, Step, Finish, Become
  <2> QED
    BY <1>1, <1>2, <2>1 DEF SaveDone
<1> QED
  BY <1>3, <1>4

PublishDone(w, p) ==
  /\ p.at = "publish" /\ p.kind = "publish"
  /\ Step(w, Rest) /\ UNCHANGED <<owed, crashes>>
  /\ UNCHANGED rows \/ \E row \in Row : Save(p.rev, row)

LEMMA PublishFacts ==
  ASSUME BaseInv, NEW w \in Workers, Publish(w), NEW p, p = worker[w]
  PROVE  PublishDone(w, p)
<1>1. Busy(w) /\ p.at = "publish" /\ Shape(p) /\ p.row \in Row
  BY BusyFacts DEF Publish, Busy, At
<1>2. [p.row EXCEPT !.public = TRUE] \in Row
  BY <1>1 DEF Row
<1>3. p.kind = "publish"
  BY <1>1 DEF Shape
<1>4. Step(w, Rest) /\ UNCHANGED <<owed, crashes>>
  BY DEF Publish, Step, Finish, Become
<1>5. UNCHANGED rows \/ Save(p.rev, [p.row EXCEPT !.public = TRUE])
  BY DEF Publish
<1> QED
  BY <1>1, <1>2, <1>3, <1>4, <1>5 DEF PublishDone

LinkDone(w, p) ==
  /\ p.at = "link" /\ p.kind = "comment" /\ p.com \in Comments \ comments
  /\ Step(w, Rest) /\ UNCHANGED <<reviews, before, crashes>>
  /\ \/ /\ Live(p.rev) /\ comments' = comments \cup {p.com}
        /\ links' = [links EXCEPT ![p.rev] = @ \cup {p.com}]
        /\ owed' = owed \cup {p.com}
     \/ UNCHANGED <<comments, links, owed>>

LEMMA LinkFacts ==
  ASSUME BaseInv, NEW w \in Workers, LinkComment(w), NEW p, p = worker[w]
  PROVE  LinkDone(w, p)
<1>1. Busy(w) /\ p.at = "link" /\ Shape(p) /\ At(w, "link")
  BY BusyFacts DEF LinkComment, Busy, At
<1>2. p.kind = "comment" /\ p.com \in Comments
  BY <1>1 DEF Shape, Requests
<1>3. p.com \notin comments
  BY <1>1 DEF BaseInv, Fresh
<1>4. Step(w, Rest) /\ UNCHANGED <<reviews, before, crashes>>
  BY DEF LinkComment, Step, Finish, Become
<1> QED
  BY <1>1, <1>2, <1>3, <1>4 DEF LinkDone, LinkComment

CollectDone(w, p, rq) ==
  /\ p.at = "collect" /\ p.kind = "fix"
  /\ Step(w, rq) /\ UNCHANGED <<rows, owed, crashes>>
  /\ Shape(rq) /\ Kept(p, rq) /\ rq.at = "move"
  /\ rq.com = p.com /\ rq.todo = links[p.rev]
  /\ p.row.top \/ p.rev \in p.filled => rq.row.top

LEMMA CollectFacts ==
  ASSUME BaseInv, NEW w \in Workers, Collect(w), NEW p, p = worker[w]
  PROVE  \E rq : CollectDone(w, p, rq)
<1>1. /\ Busy(w) /\ p.at = "collect" /\ Shape(p) /\ p \in Requests
      /\ p.row \in Row /\ p.row.public = FALSE /\ p.rev \in Reviews
  BY BusyFacts DEF Collect, Busy, At, Shape
<1>2. p.kind = "fix"
  BY <1>1 DEF Shape, FixSteps
<1>3. links[p.rev] \in SUBSET Comments
  BY <1>1 DEF BaseInv, RowsOK
<1>4. PICK rq : rq = [p EXCEPT !.at = "move", !.row.top = @ \/ p.rev \in p.filled,
                               !.todo = links[p.rev]]
  OBVIOUS
<1>5. PICK row : row = [p.row EXCEPT !.top = @ \/ p.rev \in p.filled]
  OBVIOUS
<1>6. row \in Row /\ row.public = FALSE /\ (p.row.top \/ p.rev \in p.filled => row.top)
  BY <1>1, <1>5 DEF Row
<1>7. rq = [p EXCEPT !.at = "move", !.row = row, !.todo = links[p.rev]]
  BY <1>1, <1>4, <1>5 DEF Requests
<1>8. /\ rq.at = "move" /\ rq.kind = p.kind /\ rq.rev = p.rev /\ rq.row = row
      /\ rq.master = p.master /\ rq.rest = p.rest /\ rq.found = p.found
      /\ rq.filled = p.filled /\ rq.todo = links[p.rev] /\ rq.com = p.com
  BY <1>1, <1>7 DEF Requests
<1>9. rq \in Requests
  BY <1>1, <1>3, <1>6, <1>7 DEF Requests, Steps
<1>10. Shape(rq) /\ Kept(p, rq)
  BY <1>1, <1>2, <1>6, <1>8, <1>9, SameShape
<1>11. Step(w, rq) /\ UNCHANGED <<rows, owed, crashes>>
  BY <1>4 DEF Collect, Step, Become
<1>12. CollectDone(w, p, rq)
  BY <1>1, <1>2, <1>6, <1>8, <1>10, <1>11 DEF CollectDone
<1> QED
  BY <1>12

MoveDone(w, p, rq) ==
  /\ p.at = "move" /\ p.kind = "fix"
  /\ Step(w, rq) /\ UNCHANGED <<reviews, before, comments, owed, crashes>>
  /\ \/ rq = Rest /\ UNCHANGED links
     \/ /\ Shape(rq) /\ Kept(p, rq) /\ rq.at = "unlink" /\ rq.row = p.row
        /\ rq.com \in p.todo \cap comments /\ rq.todo = p.todo
        /\ Live(p.master)
        /\ links' = [links EXCEPT ![p.master] = @ \cup {rq.com}]

LEMMA MoveFacts ==
  ASSUME BaseInv, NEW w \in Workers, Move(w), NEW p, p = worker[w]
  PROVE  \E rq : MoveDone(w, p, rq)
<1>1. /\ Busy(w) /\ p.at = "move" /\ Shape(p) /\ p \in Requests
      /\ p.row.public = FALSE /\ p.todo \subseteq Comments
  BY BusyFacts DEF Move, Busy, At, Shape
<1>2. p.kind = "fix"
  BY <1>1 DEF Shape, FixSteps
<1>3. UNCHANGED <<reviews, before, comments, owed, collisions, crashes>>
  BY DEF Move
<1>4. PICK c \in p.todo :
        IF Live(p.master) /\ c \in comments
        THEN /\ links' = [links EXCEPT ![p.master] = @ \cup {c}]
             /\ Become(w, [p EXCEPT !.at = "unlink", !.com = c])
        ELSE Finish(w) /\ UNCHANGED links
  BY DEF Move
<1>5. CASE Live(p.master) /\ c \in comments
  <2>1. PICK rq : rq = [p EXCEPT !.at = "unlink", !.com = c]
    OBVIOUS
  <2>2. /\ rq.at = "unlink" /\ rq.kind = p.kind /\ rq.rev = p.rev /\ rq.row = p.row
        /\ rq.master = p.master /\ rq.rest = p.rest /\ rq.found = p.found
        /\ rq.filled = p.filled /\ rq.todo = p.todo /\ rq.com = c
    BY <1>1, <2>1 DEF Requests
  <2>3. rq \in Requests
    BY <1>1, <2>1 DEF Requests, Steps
  <2>4. Shape(rq) /\ Kept(p, rq)
    BY <1>1, <1>2, <2>2, <2>3, SameShape
  <2>5. Step(w, rq)
    BY <1>3, <1>4, <1>5, <2>1 DEF Step, Become
  <2> QED
    BY <1>1, <1>2, <1>3, <1>4, <1>5, <2>2, <2>4, <2>5 DEF MoveDone
<1>6. CASE ~(Live(p.master) /\ c \in comments)
  <2>1. Step(w, Rest) /\ UNCHANGED links
    BY <1>3, <1>4, <1>6 DEF Step, Finish, Become
  <2> QED
    BY <1>1, <1>2, <1>3, <2>1 DEF MoveDone
<1> QED
  BY <1>5, <1>6

UnlinkDone(w, p, rq) ==
  /\ p.at = "unlink" /\ p.kind = "fix" /\ p.com \in p.todo
  /\ Step(w, rq) /\ UNCHANGED <<reviews, before, comments, owed, crashes>>
  /\ Shape(rq) /\ Kept(p, rq) /\ rq.at = "move" /\ rq.row = p.row
  /\ rq.com = Unborn /\ rq.todo = p.todo \ {p.com}
  /\ links' = [links EXCEPT ![p.rev] = @ \ {p.com}]

LEMMA UnlinkFacts ==
  ASSUME BaseInv, NEW w \in Workers, Unlink(w), NEW p, p = worker[w]
  PROVE  \E rq : UnlinkDone(w, p, rq)
<1>1. /\ Busy(w) /\ p.at = "unlink" /\ Shape(p) /\ p \in Requests
      /\ p.row.public = FALSE /\ p.todo \subseteq Comments
  BY BusyFacts DEF Unlink, Busy, At, Shape
<1>2. p.kind = "fix" /\ p.com \in p.todo
  BY <1>1 DEF Shape, FixSteps
<1>3. PICK rq : rq = [p EXCEPT !.at = "move", !.todo = @ \ {p.com}, !.com = Unborn]
  OBVIOUS
<1>4. /\ rq.at = "move" /\ rq.kind = p.kind /\ rq.rev = p.rev /\ rq.row = p.row
      /\ rq.master = p.master /\ rq.rest = p.rest /\ rq.found = p.found
      /\ rq.filled = p.filled /\ rq.todo = p.todo \ {p.com} /\ rq.com = Unborn
  BY <1>1, <1>3 DEF Requests
<1>5. rq \in Requests
  BY <1>1, <1>3 DEF Requests, Steps
<1>6. Shape(rq) /\ Kept(p, rq)
  BY <1>1, <1>2, <1>4, <1>5, SameShape
<1>7. /\ Step(w, rq) /\ UNCHANGED <<reviews, before, comments, owed, crashes>>
      /\ links' = [links EXCEPT ![p.rev] = @ \ {p.com}]
  BY <1>3 DEF Unlink, Step, Become
<1>8. UnlinkDone(w, p, rq)
  BY <1>1, <1>2, <1>4, <1>6, <1>7 DEF UnlinkDone
<1> QED
  BY <1>8

MasterDone(w, p, rq) ==
  /\ p.at = "move" /\ p.kind = "fix" /\ p.todo = {} /\ Save(p.master, p.row)
  /\ Step(w, rq) /\ UNCHANGED <<owed, crashes>>
  /\ Shape(rq) /\ Kept(p, rq) /\ rq.at = "delete comments" /\ rq.row = p.row
  /\ rq.com = p.com /\ rq.todo = p.todo

LEMMA MasterFacts ==
  ASSUME BaseInv, NEW w \in Workers, SaveMaster(w), NEW p, p = worker[w]
  PROVE  \E rq : MasterDone(w, p, rq)
<1>1. /\ Busy(w) /\ p.at = "move" /\ Shape(p) /\ p \in Requests
      /\ p.row.public = FALSE /\ p.todo = {}
  BY BusyFacts DEF SaveMaster, Busy, At, Shape
<1>2. p.kind = "fix"
  BY <1>1 DEF Shape, FixSteps
<1>3. PICK rq : rq = [p EXCEPT !.at = "delete comments"]
  OBVIOUS
<1>4. /\ rq.at = "delete comments" /\ rq.kind = p.kind /\ rq.rev = p.rev
      /\ rq.row = p.row /\ rq.master = p.master /\ rq.rest = p.rest
      /\ rq.found = p.found /\ rq.filled = p.filled /\ rq.todo = p.todo
      /\ rq.com = p.com
  BY <1>1, <1>3 DEF Requests
<1>5. rq \in Requests /\ "delete comments" \notin FixSteps
  BY <1>1, <1>3 DEF Requests, Steps, FixSteps
<1>6. Shape(rq) /\ Kept(p, rq)
  BY <1>1, <1>2, <1>4, <1>5, SameShape
<1>7. Step(w, rq) /\ UNCHANGED <<owed, crashes>> /\ Save(p.master, p.row)
  BY <1>3 DEF SaveMaster, Step, Continue, Become
<1>8. MasterDone(w, p, rq)
  BY <1>1, <1>2, <1>4, <1>6, <1>7 DEF MasterDone
<1> QED
  BY <1>8

DropDone(w, p, rq) ==
  /\ p.at = "delete comments" /\ p.kind \in {"fix", "delete"}
  /\ Step(w, rq) /\ UNCHANGED <<reviews, before, crashes>>
  /\ Shape(rq) /\ Kept(p, rq) /\ rq.at = "delete review" /\ rq.row = p.row
  /\ rq.com = p.com /\ rq.todo = p.todo
  /\ comments' = comments \ links[p.rev]
  /\ links' = [v \in Reviews |-> links[v] \ links[p.rev]]
  /\ owed' = IF p.kind = "delete" THEN owed \ links[p.rev] ELSE owed

LEMMA DropFacts ==
  ASSUME BaseInv, NEW w \in Workers, DeleteComments(w), NEW p, p = worker[w]
  PROVE  \E rq : DropDone(w, p, rq)
<1>1. /\ Busy(w) /\ p.at = "delete comments" /\ Shape(p) /\ p \in Requests
      /\ p.row.public = FALSE
  BY BusyFacts DEF DeleteComments, Busy, At, Shape
<1>2. p.kind \in {"fix", "delete"}
  BY <1>1 DEF Shape
<1>3. PICK rq : rq = [p EXCEPT !.at = "delete review"]
  OBVIOUS
<1>4. /\ rq.at = "delete review" /\ rq.kind = p.kind /\ rq.rev = p.rev
      /\ rq.row = p.row /\ rq.master = p.master /\ rq.rest = p.rest
      /\ rq.found = p.found /\ rq.filled = p.filled /\ rq.todo = p.todo
      /\ rq.com = p.com
  BY <1>1, <1>3 DEF Requests
<1>5. rq \in Requests /\ "delete review" \notin FixSteps
  BY <1>1, <1>3 DEF Requests, Steps, FixSteps
<1>6. Shape(rq) /\ Kept(p, rq)
  BY <1>1, <1>2, <1>4, <1>5, SameShape
<1>7. /\ Step(w, rq) /\ UNCHANGED <<reviews, before, crashes>>
      /\ comments' = comments \ links[p.rev]
      /\ links' = [v \in Reviews |-> links[v] \ links[p.rev]]
      /\ owed' = IF p.kind = "delete" THEN owed \ links[p.rev] ELSE owed
  BY <1>3 DEF DeleteComments, Step, Continue, Become
<1>8. DropDone(w, p, rq)
  BY <1>1, <1>2, <1>4, <1>6, <1>7 DEF DropDone
<1> QED
  BY <1>8

(* The duplicates that are left, when the next one is taken.               *)
Rests(rest, h, t) ==
  /\ h \in Reviews /\ t \in Seq(Reviews)
  /\ Elems(rest) = {h} \cup Elems(t) /\ h \notin Elems(t)
  /\ \A i, j \in DOMAIN t : t[i] = t[j] => i = j

LEMMA RestFacts ==
  ASSUME NEW rest \in Seq(Reviews), rest # <<>>,
         \A i, j \in DOMAIN rest : rest[i] = rest[j] => i = j
  PROVE  Rests(rest, Head(rest), Tail(rest))
<1>1. /\ Len(rest) \in Nat /\ DOMAIN rest = 1..Len(rest) /\ Len(rest) # 0
      /\ rest \in [1..Len(rest) -> Reviews]
  BY LenProperties, EmptySeq
<1>2. Head(rest) = rest[1]
  <2>1. SubSeq(rest, 1, Len(rest)) = rest
    BY SubSeqFull
  <2>2. 1 \in 1..Len(rest) /\ Len(rest) \in 1..Len(rest)
    BY <1>1
  <2> QED
    BY <2>1, <2>2, HeadTailOfSubSeq
<1>3. PICK t : t = Tail(rest)
  OBVIOUS
<1>4. /\ t \in Seq(Reviews) /\ Len(t) = Len(rest) - 1
      /\ \A i \in 1..Len(t) : t[i] = rest[i + 1]
  BY <1>3, HeadTailProperties
<1>5. DOMAIN t = 1..(Len(rest) - 1)
  BY <1>4, LenProperties
<1>6. \A i \in DOMAIN t : t[i] = rest[i + 1] /\ i + 1 \in DOMAIN rest /\ i + 1 # 1
  BY <1>1, <1>4, <1>5
<1>7. 1 \in DOMAIN rest /\ rest[1] \in Reviews
  BY <1>1
<1>8. rest[1] \notin Elems(t)
  BY <1>6, <1>7 DEF Elems
<1>9. \A i, j \in DOMAIN t : t[i] = t[j] => i = j
  <2>1. SUFFICES ASSUME NEW i \in DOMAIN t, NEW j \in DOMAIN t, t[i] = t[j]
                 PROVE  i = j
    OBVIOUS
  <2>2. i + 1 = j + 1
    BY <1>6, <2>1
  <2> QED
    BY <1>5, <2>2
<1>10. Elems(rest) = {rest[1]} \cup Elems(t)
  <2>1. ASSUME NEW i \in DOMAIN rest, i # 1
        PROVE  rest[i] \in Elems(t)
    <3>1. i - 1 \in DOMAIN t /\ t[i - 1] = rest[i]
      BY <1>1, <1>4, <1>5, <2>1
    <3> QED
      BY <3>1 DEF Elems
  <2>2. \A i \in DOMAIN t : t[i] \in Elems(rest)
    BY <1>6 DEF Elems
  <2> QED
    BY <1>7, <2>1, <2>2 DEF Elems
<1> QED
  BY <1>2, <1>3, <1>4, <1>7, <1>8, <1>9, <1>10 DEF Rests

(* The request that takes the next duplicate.                              *)
Taken(p, rq) ==
  /\ p.rest # <<>> /\ rq.at = "collect" /\ Shape(rq)
  /\ rq.kind = p.kind /\ rq.master = p.master
  /\ rq.found = p.found /\ rq.filled = p.filled /\ rq.row = p.row
  /\ rq.com = p.com /\ rq.todo = p.todo
  /\ Elems(p.rest) = {rq.rev} \cup Elems(rq.rest)
  /\ Holds(rq) = Holds(p) \ {p.rev}

LEMMA TakenFacts ==
  ASSUME NEW p, Shape(p), p.kind = "fix", p.at = "delete review", p.rest # <<>>,
         NEW rq, rq = [p EXCEPT !.at = "collect", !.rev = Head(p.rest),
                                !.rest = Tail(p.rest)]
  PROVE  Taken(p, rq)
<1>1. p \in Requests /\ Merging(p) /\ p.row.public = FALSE
  BY DEF Shape
<1>2. p.rest \in Seq(Reviews)
  BY <1>1 DEF Requests
<1>3. PICK h, t : h = Head(p.rest) /\ t = Tail(p.rest)
  OBVIOUS
<1>4. Rests(p.rest, h, t)
  BY <1>1, <1>2, <1>3, RestFacts DEF Merging
<1>5. rq = [p EXCEPT !.at = "collect", !.rev = h, !.rest = t]
  BY <1>3
<1>6. /\ rq.at = "collect" /\ rq.kind = p.kind /\ rq.rev = h
      /\ rq.row = p.row /\ rq.master = p.master /\ rq.rest = t
      /\ rq.found = p.found /\ rq.filled = p.filled /\ rq.todo = p.todo
      /\ rq.com = p.com
  BY <1>1, <1>5 DEF Requests
<1>7. rq \in Requests
  <2>1. h \in Reviews /\ t \in Seq(Reviews)
    BY <1>4 DEF Rests
  <2> QED
    BY <1>1, <1>5, <2>1 DEF Requests, Steps
<1>8. Elems(p.rest) = {h} \cup Elems(t) /\ h \notin Elems(t)
  BY <1>4 DEF Rests
<1>9. /\ Holds(p) = ({p.rev, p.master} \cup Elems(p.rest)) \ {Unborn}
      /\ Holds(rq) = ({h, p.master} \cup Elems(t)) \ {Unborn}
  BY <1>6 DEF Holds, Elems
<1>10. p.rev \notin Elems(p.rest) /\ p.master \notin Elems(p.rest) /\ p.rev # p.master
  BY <1>1 DEF Merging, Elems
<1>11. Holds(rq) = Holds(p) \ {p.rev}
  BY <1>8, <1>9, <1>10
<1>12. Merging(rq)
  <2>1. rq.master # Unborn /\ rq.rev # rq.master
    BY <1>1, <1>6, <1>8, <1>10 DEF Merging
  <2>2. \A i \in DOMAIN rq.rest : rq.rest[i] \notin {rq.rev, rq.master}
    BY <1>6, <1>8, <1>10 DEF Elems
  <2>3. \A i, j \in DOMAIN rq.rest : rq.rest[i] = rq.rest[j] => i = j
    <3>1. \A i, j \in DOMAIN t : t[i] = t[j] => i = j
      BY <1>4 DEF Rests
    <3>2. rq.rest = t
      BY <1>6
    <3> QED
      BY ONLY <3>1, <3>2
  <2>4. Holds(rq) \subseteq rq.found /\ rq.filled \subseteq rq.found
    BY <1>1, <1>6, <1>11 DEF Merging
  <2> QED
    BY <1>6, <2>1, <2>2, <2>3, <2>4 DEF Merging
<1>13. h # Unborn
  BY <1>4, PendingAssumption DEF Rests
<1>14. Shape(rq)
  BY <1>1, <1>6, <1>7, <1>12, <1>13 DEF Shape
<1> QED
  BY <1>6, <1>8, <1>11, <1>14 DEF Taken

GoneDone(w, p, rq) ==
  /\ p.at = "delete review"
  /\ Step(w, rq) /\ UNCHANGED <<comments, owed, crashes>>
  /\ reviews' = [reviews EXCEPT ![p.rev] = Deleted]
  /\ before' = [u \in Reviews |-> IF u = p.rev THEN {} ELSE before[u] \ {p.rev}]
  /\ links' = [links EXCEPT ![p.rev] = {}]
  /\ \/ p.kind = "delete" /\ rq = Rest
     \/ /\ p.kind = "fix" /\ p.rest = <<>> /\ rq.at = "render"
        /\ Shape(rq) /\ Kept(p, rq) /\ rq.row = p.row
        /\ rq.com = p.com /\ rq.todo = p.todo
     \/ p.kind = "fix" /\ Taken(p, rq)

LEMMA GoneFacts ==
  ASSUME BaseInv, NEW w \in Workers, DeleteReview(w), NEW p, p = worker[w]
  PROVE  \E rq : GoneDone(w, p, rq)
<1>1. /\ Busy(w) /\ p.at = "delete review" /\ Shape(p) /\ p \in Requests
      /\ p.row.public = FALSE
  BY BusyFacts DEF DeleteReview, Busy, At, Shape
<1>2. p.kind \in {"fix", "delete"}
  BY <1>1 DEF Shape
<1>3. /\ UNCHANGED <<comments, owed, collisions, crashes>>
      /\ reviews' = [reviews EXCEPT ![p.rev] = Deleted]
      /\ before' = [u \in Reviews |-> IF u = p.rev THEN {} ELSE before[u] \ {p.rev}]
      /\ links' = [links EXCEPT ![p.rev] = {}]
  BY DEF DeleteReview
<1>4. CASE p.kind = "delete"
  <2>1. Step(w, Rest)
    BY <1>3, <1>4 DEF DeleteReview, Step, Finish, Become
  <2> QED
    BY <1>1, <1>3, <1>4, <2>1 DEF GoneDone
<1>5. CASE p.kind = "fix" /\ p.rest = <<>>
  <2>1. PICK rq : rq = [p EXCEPT !.at = "render"]
    OBVIOUS
  <2>2. /\ rq.at = "render" /\ rq.kind = p.kind /\ rq.rev = p.rev
        /\ rq.row = p.row /\ rq.master = p.master /\ rq.rest = p.rest
        /\ rq.found = p.found /\ rq.filled = p.filled /\ rq.todo = p.todo
        /\ rq.com = p.com
    BY <1>1, <2>1 DEF Requests
  <2>3. rq \in Requests
    BY <1>1, <2>1 DEF Requests, Steps
  <2>4. Shape(rq) /\ Kept(p, rq)
    BY <1>1, <1>5, <2>2, <2>3, SameShape
  <2>5. Step(w, rq)
    BY <1>3, <1>5, <2>1 DEF DeleteReview, Step, Continue, Become
  <2> QED
    BY <1>1, <1>3, <1>5, <2>2, <2>4, <2>5 DEF GoneDone
<1>6. CASE p.kind = "fix" /\ p.rest # <<>>
  <2>1. PICK rq : rq = [p EXCEPT !.at = "collect", !.rev = Head(p.rest),
                                 !.rest = Tail(p.rest)]
    OBVIOUS
  <2>2. Taken(p, rq)
    BY <1>1, <1>6, <2>1, TakenFacts
  <2>3. Step(w, rq)
    BY <1>3, <1>6, <2>1 DEF DeleteReview, Step, Become
  <2> QED
    BY <1>1, <1>3, <1>6, <2>2, <2>3 DEF GoneDone
<1> QED
  BY <1>2, <1>4, <1>5, <1>6

LEMMA RenderFacts ==
  ASSUME BaseInv, NEW w \in Workers, Render(w)
  PROVE  Busy(w) /\ Step(w, Rest) /\ UNCHANGED <<rows, owed, crashes>>
BY DEF Render, Step, Finish, Become, Busy, At

LEMMA CrashFacts ==
  ASSUME BaseInv, NEW w \in Workers, Crash(w)
  PROVE  /\ Busy(w) /\ Step(w, Rest) /\ UNCHANGED <<rows, owed>>
         /\ crashes' = crashes + 1 /\ crashes' \in 0..MaxCrashes
<1>1. crashes \in 0..MaxCrashes /\ MaxCrashes \in Nat
  BY PendingAssumption DEF BaseInv, HistoriesOK
<1> QED
  BY <1>1 DEF Crash, Step, Finish, Become

(***************************************************************************)
(* Every step keeps the base.                                              *)
(***************************************************************************)
LEMMA RestBase ==
  ASSUME BaseInv, NEW w \in Workers, Busy(w), Step(w, Rest),
         RowsOK', owed' \subseteq Comments, crashes' \in 0..MaxCrashes,
         \A v \in Reviews : reviews[v] # Unborn => reviews'[v] # Unborn,
         \A c \in comments' : c \in comments \/ c = worker[w].com
  PROVE  BaseInv'
BY StepBase

LEMMA KeptBase ==
  ASSUME BaseInv, NEW w \in Workers, Busy(w), NEW p, p = worker[w],
         NEW rq, Step(w, rq), Shape(rq), rq.at # "link", rq.kind = p.kind,
         rq.found = p.found, rq.com \in {p.com, Unborn} \cup p.todo,
         rq.todo \subseteq p.todo \cup comments,
         Holds(rq) \subseteq Holds(p),
         RowsOK', owed' \subseteq Comments, crashes' \in 0..MaxCrashes,
         \A v \in Reviews : reviews[v] # Unborn => reviews'[v] # Unborn,
         comments' \subseteq comments
  PROVE  BaseInv'
<1>1. Follows(p, rq)
  BY DEF Follows
<1> QED
  BY <1>1, StepBase

LEMMA InsertBase ==
  ASSUME BaseInv, NEW w \in Workers, Insert(w)
  PROVE  BaseInv'
<1>1. PICK p : p = worker[w]
  OBVIOUS
<1>2. PICK rq, v : InsertDone(w, p, rq, v)
  BY <1>1, InsertFacts
<1>3. /\ Busy(w) /\ Step(w, rq) /\ v \in Reviews /\ Save(v, Blank) /\ Follows(p, rq)
      /\ rq.todo = p.todo /\ Holds(rq) = {v} /\ reviews[v] = Unborn
      /\ UNCHANGED <<owed, crashes>>
  BY <1>1, <1>2 DEF InsertDone, Follows, Busy, At
<1>4. /\ RowsOK' /\ comments' = comments /\ reviews'[v] = Blank
      /\ \A u \in Reviews : reviews[u] # Unborn => reviews'[u] # Unborn
  BY <1>3, SaveRows, RowFacts DEF BaseInv
<1>5. Blank # Unborn
  BY RowFacts, PendingAssumption
<1>6. owed' \subseteq Comments /\ crashes' \in 0..MaxCrashes
  BY <1>3, <1>4 DEF BaseInv, HistoriesOK
<1> QED
  BY <1>1, <1>3, <1>4, <1>5, <1>6, StepBase

LEMMA SaveUpdateBase ==
  ASSUME BaseInv, NEW w \in Workers, SaveUpdate(w)
  PROVE  BaseInv'
<1>1. PICK p : p = worker[w]
  OBVIOUS
<1>2. PICK rq : SaveDone(w, p, rq)
  BY <1>1, SaveFacts
<1>3. Busy(w) /\ Step(w, rq) /\ Save(p.rev, p.row) /\ UNCHANGED <<owed, crashes>>
  BY <1>1, <1>2 DEF SaveDone, Busy, At
<1>4. p.rev \in Reviews /\ p.row \in Row
  BY <1>1, <1>2, <1>3, BusyFacts DEF SaveDone
<1>5. /\ RowsOK' /\ comments' = comments
      /\ \A u \in Reviews : reviews[u] # Unborn => reviews'[u] # Unborn
  BY <1>3, <1>4, SaveRows DEF BaseInv
<1>6. owed' \subseteq Comments /\ crashes' \in 0..MaxCrashes
  BY <1>3, <1>5 DEF BaseInv, HistoriesOK
<1>7. CASE rq = Rest
  BY <1>3, <1>5, <1>6, <1>7, RestBase
<1>8. CASE rq # Rest
  <2>1. /\ Shape(rq) /\ Kept(p, rq) /\ rq.at # "link"
        /\ rq.com = p.com /\ rq.todo = p.todo
    BY <1>2, <1>8 DEF SaveDone
  <2> QED
    BY <1>1, <1>3, <1>5, <1>6, <2>1, KeptBase DEF Kept
<1> QED
  BY <1>7, <1>8

LEMMA PublishBase ==
  ASSUME BaseInv, NEW w \in Workers, Publish(w)
  PROVE  BaseInv'
<1>1. PICK p : p = worker[w]
  OBVIOUS
<1>2. PublishDone(w, p) /\ Busy(w)
  BY <1>1, PublishFacts DEF Publish, Busy, At
<1>3. Step(w, Rest) /\ UNCHANGED <<owed, crashes>>
  BY <1>2 DEF PublishDone
<1>4. p.rev \in Reviews
  BY <1>1, <1>2, BusyFacts DEF PublishDone
<1>5. /\ RowsOK' /\ comments' = comments
      /\ \A u \in Reviews : reviews[u] # Unborn => reviews'[u] # Unborn
  <2>1. CASE UNCHANGED rows
    BY <2>1 DEF BaseInv, RowsOK, rows, Live, Ordered
  <2>2. CASE \E row \in Row : Save(p.rev, row)
    BY <1>4, <2>2, SaveRows DEF BaseInv
  <2> QED
    BY <1>2, <2>1, <2>2 DEF PublishDone
<1>6. owed' \subseteq Comments /\ crashes' \in 0..MaxCrashes
  BY <1>3, <1>5 DEF BaseInv, HistoriesOK
<1> QED
  BY <1>2, <1>3, <1>5, <1>6, RestBase

LEMMA LinkBase ==
  ASSUME BaseInv, NEW w \in Workers, LinkComment(w)
  PROVE  BaseInv'
<1>1. PICK p : p = worker[w]
  OBVIOUS
<1>2. LinkDone(w, p) /\ Busy(w)
  BY <1>1, LinkFacts DEF LinkComment, Busy, At
<1>3. Step(w, Rest) /\ UNCHANGED <<reviews, before, crashes>>
  BY <1>2 DEF LinkDone
<1>4. /\ links' \in [Reviews -> SUBSET comments'] /\ comments' \subseteq Comments
      /\ \A c \in comments' : c \in comments \/ c = p.com
      /\ owed' \subseteq Comments
  BY <1>2 DEF BaseInv, RowsOK, HistoriesOK, LinkDone
<1>5. RowsOK'
  BY <1>3, <1>4, LinkedRows DEF BaseInv
<1>6. crashes' \in 0..MaxCrashes
  BY <1>3 DEF BaseInv, HistoriesOK
<1> QED
  BY <1>1, <1>2, <1>3, <1>4, <1>5, <1>6, RestBase

LEMMA CollectBase ==
  ASSUME BaseInv, NEW w \in Workers, Collect(w)
  PROVE  BaseInv'
<1>1. PICK p : p = worker[w]
  OBVIOUS
<1>2. PICK rq : CollectDone(w, p, rq)
  BY <1>1, CollectFacts
<1>3. /\ Busy(w) /\ Step(w, rq) /\ UNCHANGED <<rows, owed, crashes>>
      /\ Shape(rq) /\ Kept(p, rq) /\ rq.at # "link"
      /\ rq.com = p.com /\ rq.todo = links[p.rev]
  BY <1>1, <1>2 DEF CollectDone, Busy, At
<1>4. p.rev \in Reviews
  BY <1>1, <1>2, <1>3, BusyFacts DEF CollectDone
<1>5. RowsOK' /\ comments' = comments /\ reviews' = reviews
  BY <1>3 DEF BaseInv, RowsOK, rows, Live, Ordered
<1>6. owed' \subseteq Comments /\ crashes' \in 0..MaxCrashes
  BY <1>3, <1>5 DEF BaseInv, HistoriesOK
<1>7. rq.todo \subseteq comments
  BY <1>3, <1>4 DEF BaseInv, RowsOK
<1> QED
  BY <1>1, <1>3, <1>5, <1>6, <1>7, KeptBase DEF Kept

LEMMA MoveBase ==
  ASSUME BaseInv, NEW w \in Workers, Move(w)
  PROVE  BaseInv'
<1>1. PICK p : p = worker[w]
  OBVIOUS
<1>2. PICK rq : MoveDone(w, p, rq)
  BY <1>1, MoveFacts
<1>3. /\ Busy(w) /\ Step(w, rq)
      /\ UNCHANGED <<reviews, before, comments, owed, crashes>>
  BY <1>1, <1>2 DEF MoveDone, Busy, At
<1>4. links' \in [Reviews -> SUBSET comments']
  BY <1>2, <1>3 DEF BaseInv, RowsOK, MoveDone
<1>5. RowsOK'
  BY <1>3, <1>4, LinkedRows DEF BaseInv, RowsOK
<1>6. owed' \subseteq Comments /\ crashes' \in 0..MaxCrashes
  BY <1>3 DEF BaseInv, HistoriesOK
<1>7. CASE rq = Rest
  BY <1>3, <1>5, <1>6, <1>7, RestBase
<1>8. CASE rq # Rest
  <2>1. /\ Shape(rq) /\ Kept(p, rq) /\ rq.at # "link"
        /\ rq.com \in p.todo /\ rq.todo = p.todo
    BY <1>2, <1>8 DEF MoveDone
  <2> QED
    BY <1>1, <1>3, <1>5, <1>6, <2>1, KeptBase DEF Kept
<1> QED
  BY <1>7, <1>8

LEMMA UnlinkBase ==
  ASSUME BaseInv, NEW w \in Workers, Unlink(w)
  PROVE  BaseInv'
<1>1. PICK p : p = worker[w]
  OBVIOUS
<1>2. PICK rq : UnlinkDone(w, p, rq)
  BY <1>1, UnlinkFacts
<1>3. /\ Busy(w) /\ Step(w, rq)
      /\ UNCHANGED <<reviews, before, comments, owed, crashes>>
      /\ Shape(rq) /\ Kept(p, rq) /\ rq.at # "link"
      /\ rq.com = Unborn /\ rq.todo \subseteq p.todo
  BY <1>1, <1>2 DEF UnlinkDone, Busy, At
<1>4. links' \in [Reviews -> SUBSET comments']
  BY <1>2, <1>3 DEF BaseInv, RowsOK, UnlinkDone
<1>5. RowsOK'
  BY <1>3, <1>4, LinkedRows DEF BaseInv, RowsOK
<1>6. owed' \subseteq Comments /\ crashes' \in 0..MaxCrashes
  BY <1>3 DEF BaseInv, HistoriesOK
<1> QED
  BY <1>1, <1>3, <1>5, <1>6, KeptBase DEF Kept

LEMMA SaveMasterBase ==
  ASSUME BaseInv, NEW w \in Workers, SaveMaster(w)
  PROVE  BaseInv'
<1>1. PICK p : p = worker[w]
  OBVIOUS
<1>2. PICK rq : MasterDone(w, p, rq)
  BY <1>1, MasterFacts
<1>3. /\ Busy(w) /\ Step(w, rq) /\ Save(p.master, p.row) /\ UNCHANGED <<owed, crashes>>
      /\ Shape(rq) /\ Kept(p, rq) /\ rq.at # "link"
      /\ rq.com = p.com /\ rq.todo = p.todo
  BY <1>1, <1>2 DEF MasterDone, Busy, At
<1>4. p.master \in Reviews /\ p.row \in Row
  BY <1>1, <1>2, <1>3, BusyFacts DEF MasterDone
<1>5. /\ RowsOK' /\ comments' = comments
      /\ \A u \in Reviews : reviews[u] # Unborn => reviews'[u] # Unborn
  BY <1>3, <1>4, SaveRows DEF BaseInv
<1>6. owed' \subseteq Comments /\ crashes' \in 0..MaxCrashes
  BY <1>3, <1>5 DEF BaseInv, HistoriesOK
<1> QED
  BY <1>1, <1>3, <1>5, <1>6, KeptBase DEF Kept

LEMMA DeleteCommentsBase ==
  ASSUME BaseInv, NEW w \in Workers, DeleteComments(w)
  PROVE  BaseInv'
<1>1. PICK p : p = worker[w]
  OBVIOUS
<1>2. PICK rq : DropDone(w, p, rq)
  BY <1>1, DropFacts
<1>3. /\ Busy(w) /\ Step(w, rq) /\ UNCHANGED <<reviews, before, crashes>>
      /\ Shape(rq) /\ Kept(p, rq) /\ rq.at # "link"
      /\ rq.com = p.com /\ rq.todo = p.todo
      /\ comments' = comments \ links[p.rev]
      /\ links' = [v \in Reviews |-> links[v] \ links[p.rev]]
      /\ owed' = IF p.kind = "delete" THEN owed \ links[p.rev] ELSE owed
  BY <1>1, <1>2 DEF DropDone, Busy, At
<1>4. links' \in [Reviews -> SUBSET comments'] /\ comments' \subseteq Comments
  BY <1>3 DEF BaseInv, RowsOK
<1>5. RowsOK'
  BY <1>3, <1>4, LinkedRows DEF BaseInv
<1>6. owed' \subseteq Comments /\ crashes' \in 0..MaxCrashes
  BY <1>3 DEF BaseInv, HistoriesOK
<1> QED
  BY <1>1, <1>3, <1>5, <1>6, KeptBase DEF Kept

LEMMA DeleteReviewBase ==
  ASSUME BaseInv, NEW w \in Workers, DeleteReview(w)
  PROVE  BaseInv'
<1>1. PICK p : p = worker[w]
  OBVIOUS
<1>2. PICK rq : GoneDone(w, p, rq)
  BY <1>1, GoneFacts
<1>3. /\ Busy(w) /\ Step(w, rq) /\ UNCHANGED <<comments, owed, crashes>>
      /\ reviews' = [reviews EXCEPT ![p.rev] = Deleted]
      /\ before' = [u \in Reviews |-> IF u = p.rev THEN {} ELSE before[u] \ {p.rev}]
      /\ links' = [links EXCEPT ![p.rev] = {}]
  BY <1>1, <1>2 DEF GoneDone, Busy, At
<1>4. p.rev \in Reviews
  BY <1>1, <1>2, <1>3, BusyFacts DEF GoneDone
<1>5. /\ RowsOK'
      /\ \A u \in Reviews : reviews[u] # Unborn => reviews'[u] # Unborn
  BY <1>3, <1>4, DeletedRows DEF BaseInv
<1>6. owed' \subseteq Comments /\ crashes' \in 0..MaxCrashes
  BY <1>3 DEF BaseInv, HistoriesOK
<1>7. CASE rq = Rest
  BY <1>3, <1>5, <1>6, <1>7, RestBase
<1>8. CASE rq # Rest
  <2>1. /\ Shape(rq) /\ Holds(rq) \subseteq Holds(p) /\ rq.at # "link"
        /\ rq.kind = p.kind /\ rq.found = p.found
        /\ rq.com = p.com /\ rq.todo = p.todo
    BY <1>2, <1>8 DEF GoneDone, Kept, Taken
  <2> QED
    BY <1>1, <1>3, <1>5, <1>6, <2>1, KeptBase
<1> QED
  BY <1>7, <1>8

LEMMA RenderBase ==
  ASSUME BaseInv, NEW w \in Workers, Render(w)
  PROVE  BaseInv'
<1>1. Busy(w) /\ Step(w, Rest) /\ UNCHANGED <<rows, owed, crashes>>
  BY RenderFacts
<1>2. RowsOK'
  BY <1>1 DEF BaseInv, RowsOK, rows, Live, Ordered
<1>3. owed' \subseteq Comments /\ crashes' \in 0..MaxCrashes
  BY <1>1 DEF BaseInv, HistoriesOK
<1> QED
  BY <1>1, <1>2, <1>3, RestBase DEF rows

LEMMA CrashBase ==
  ASSUME BaseInv, NEW w \in Workers, Crash(w)
  PROVE  BaseInv'
<1>1. /\ Busy(w) /\ Step(w, Rest) /\ UNCHANGED <<rows, owed>>
      /\ crashes' \in 0..MaxCrashes
  BY CrashFacts
<1>2. RowsOK'
  BY <1>1 DEF BaseInv, RowsOK, rows, Live, Ordered
<1>3. owed' \subseteq Comments
  BY <1>1 DEF BaseInv, HistoriesOK
<1> QED
  BY <1>1, <1>2, <1>3, RestBase DEF rows

LEMMA NextBase ==
  ASSUME BaseInv, [Next]_vars
  PROVE  BaseInv'
<1>1. CASE UNCHANGED vars
  BY <1>1 DEF BaseInv, RowsOK, WorkersOK, Born, Fresh, Recorded, HistoriesOK,
              vars, rows, Live, Ordered, Busy, At
<1>2. ASSUME NEW w \in Workers, Arrive(w)
      PROVE  BaseInv'
  BY <1>2, ArriveBase
<1>3. ASSUME NEW w \in Workers, Serve(w)
      PROVE  BaseInv'
  BY <1>3, InsertBase, SaveUpdateBase, PublishBase, LinkBase, CollectBase, MoveBase,
     UnlinkBase, SaveMasterBase, DeleteCommentsBase, DeleteReviewBase, RenderBase
     DEF Serve
<1>4. ASSUME NEW w \in Workers, Crash(w)
      PROVE  BaseInv'
  BY <1>4, CrashBase
<1> QED
  BY <1>1, <1>2, <1>3, <1>4 DEF Next

LEMMA InitBase ==
  Init => BaseInv
<1> SUFFICES ASSUME Init PROVE BaseInv
  OBVIOUS
<1>1. PICK s \in Leftovers :
        /\ \A v \in Reviews : reviews[v] # Unborn <=> \E i \in DOMAIN s : s[i] = v
        /\ before = [v \in Reviews |->
             {u \in Reviews : \E i, j \in DOMAIN s : i < j /\ s[i] = u /\ s[j] = v}]
  BY DEF Init
<1>2. /\ s \in Seq(Reviews)
      /\ \A i, j \in DOMAIN s : s[i] = s[j] => i = j
  BY PendingAssumption
<1>3. DOMAIN s = 1..Len(s) /\ Len(s) \in Nat
  BY <1>2, LenProperties
<1>4. reviews \in [Reviews -> Row \cup {Unborn, Deleted}]
  <2>1. \A content \in Contents : Filled(Blank, content) \in Row
    BY RowFacts
  <2> QED
    BY <2>1, RowFacts DEF Init
<1>5. \A v \in Reviews : Live(v) <=> \E i \in DOMAIN s : s[i] = v
  <2>1. \A content \in Contents : Filled(Blank, content) \in Row
    BY RowFacts
  <2>2. \A v \in Reviews : reviews[v] \in Row \/ reviews[v] = Unborn
    BY <2>1, RowFacts DEF Init
  <2> QED
    BY <1>1, <2>2, PendingAssumption DEF Live
<1>6. before \in [Reviews -> SUBSET Reviews]
  BY <1>1
<1>7. \A u, v \in Reviews :
        u \in before[v] <=> \E i, j \in DOMAIN s : i < j /\ s[i] = u /\ s[j] = v
  BY <1>1
<1>8. \A u, v \in Reviews : u \in before[v] => Live(u) /\ Live(v)
  BY <1>5, <1>7
<1>9. ASSUME NEW u \in Reviews, NEW v \in Reviews, u # v, Live(u), Live(v)
      PROVE  u \in before[v] <=> v \notin before[u]
  <2>1. PICK i \in DOMAIN s, j \in DOMAIN s : s[i] = u /\ s[j] = v
    BY <1>5, <1>9
  <2>2. \A k \in DOMAIN s : (s[k] = u => k = i) /\ (s[k] = v => k = j)
    BY <1>2, <2>1
  <2>3. i # j /\ i \in Nat /\ j \in Nat
    BY <1>3, <1>9, <2>1
  <2>4. u \in before[v] <=> i < j
    BY <1>7, <2>1, <2>2
  <2>5. v \in before[u] <=> j < i
    BY <1>7, <2>1, <2>2
  <2> QED
    BY <2>3, <2>4, <2>5
<1>10. ASSUME NEW t \in Reviews, NEW u \in Reviews, NEW v \in Reviews,
              t \in before[u], u \in before[v]
       PROVE  t \in before[v] /\ t # v
  <2>1. PICK i \in DOMAIN s, j \in DOMAIN s : i < j /\ s[i] = t /\ s[j] = u
    BY <1>7, <1>10
  <2>2. PICK k \in DOMAIN s, l \in DOMAIN s : k < l /\ s[k] = u /\ s[l] = v
    BY <1>7, <1>10
  <2>3. j = k
    BY <1>2, <2>1, <2>2
  <2>4. i < l /\ i # l
    BY <1>3, <2>1, <2>2, <2>3
  <2>5. s[i] # s[l]
    BY <1>2, <2>4
  <2> QED
    BY <1>7, <2>1, <2>2, <2>4, <2>5
<1>11. RowsOK
  <2>1. Ordered
    BY <1>9, <1>10 DEF Ordered
  <2> QED
    BY <1>4, <1>6, <1>8, <2>1 DEF Init, RowsOK
<1>12. \A w \in Workers : worker[w] = Rest /\ ~Busy(w) /\ ~At(w, "link")
  BY DEF Init, Busy, At, Rest
<1>13. WorkersOK
  BY <1>12 DEF WorkersOK, Init
<1>14. Born /\ Fresh /\ Recorded
  BY <1>12 DEF Born, Fresh, Recorded
<1>15. HistoriesOK
  BY PendingAssumption DEF Init, HistoriesOK
<1> QED
  BY <1>11, <1>13, <1>14, <1>15 DEF BaseInv

(* The types, the order of the timestamps, and what a request holds at     *)
(* each of its statements, are as the code in managers.py and              *)
(* base_review.py expects them.                                            *)
THEOREM TypeCorrect ==
  Spec => []TypeOK
<1>1. Init => BaseInv
  BY InitBase
<1>2. BaseInv /\ [Next]_vars => BaseInv'
  BY NextBase
<1>3. BaseInv => TypeOK
  BY BaseTypes
<1> QED
  BY <1>1, <1>2, <1>3, PTL DEF Spec

(* What has met is remembered.                                             *)
LEMMA CollisionsGrow ==
  ASSUME BaseInv, [Next]_vars
  PROVE  collisions \subseteq collisions'
<1>1. CASE UNCHANGED vars
  BY <1>1 DEF vars
<1>2. ASSUME NEW w \in Workers, Arrive(w)
      PROVE  collisions \subseteq collisions'
  BY <1>2, ArriveFacts, StartFacts DEF Arrived, BaseInv
<1>3. ASSUME NEW w \in Workers, Serve(w) \/ Crash(w)
      PROVE  collisions \subseteq collisions'
  BY <1>3 DEF Serve, Insert, SaveUpdate, Publish, LinkComment, Collect, Move,
              Unlink, SaveMaster, DeleteComments, DeleteReview, Render, Crash, rows
<1> QED
  BY <1>1, <1>2, <1>3 DEF Next

(***************************************************************************)
(* No comment is lost.                                                     *)
(***************************************************************************)

(* What a consolidation still has to move includes all that the duplicate  *)
(* has.                                                                    *)
MovesAll ==
  \A w \in Workers : worker[w].at \in {"move", "unlink"} =>
    links[worker[w].rev] \subseteq worker[w].todo

(* A comment leaves the duplicate when the master has it.                  *)
InMaster ==
  \A w \in Workers : At(w, "unlink") /\ worker[w].com \in owed =>
    Live(worker[w].master) /\ worker[w].com \in links[worker[w].master]

(* What is deleted has no comments: they were moved, or deleted before it. *)
Emptied(rq) ==
  rq.at = "delete review" \/ (rq.at = "delete comments" /\ rq.kind = "fix")

NothingToLose ==
  \A w \in Workers : Emptied(worker[w]) => links[worker[w].rev] = {}

InReview ==
  \A c \in owed : \E v \in Reviews : Live(v) /\ c \in links[v]

KeepInv == MovesAll /\ InMaster /\ NothingToLose /\ InReview

LEMMA EmptiedRest ==
  ~Emptied(Rest) /\ Rest.at \notin {"move", "unlink"}
BY DEF Emptied, Rest

LEMMA LosingFacts ==
  ASSUME BaseInv, ~Met(Losing), NEW w \in Workers, NEW x \in Workers, w # x,
         Busy(w), Busy(x), NEW v, v \in Holds(worker[w]), v \in Holds(worker[x])
  PROVE  /\ worker[w].kind = "fix" => worker[x].kind \notin {"fix", "comment", "delete"}
         /\ worker[w].kind = "comment" => worker[x].kind \notin {"fix", "delete"}
         /\ worker[w].kind = "delete" => worker[x].kind \notin {"fix", "comment"}
<1>1. PICK k, l : k = worker[w].kind /\ l = worker[x].kind
  OBVIOUS
<1>2. k \in Kinds /\ l \in Kinds
  <2>1. Shape(worker[w]) /\ Shape(worker[x])
    BY DEF BaseInv, WorkersOK
  <2> QED
    BY <1>1, <2>1 DEF Shape, Requests
<1>3. {k, l} \in Harmful => {k, l} \in collisions
  BY <1>1 DEF BaseInv, Recorded
<1>4. {k, l} = {l, k}
  OBVIOUS
<1>5. k \in {"fix", "publish", "delete"} \/ l \in {"fix", "publish", "delete"} =>
        {k, l} \in Harmful
  BY <1>2, <1>4 DEF Harmful
<1>6. {k, l} \in Harmful => {k, l} \notin Losing
  BY <1>3 DEF Met
<1>7. ~(k = "fix" /\ l = "fix") /\ ~(k = "fix" /\ l = "comment")
      /\ ~(k = "fix" /\ l = "delete") /\ ~(k = "comment" /\ l = "delete")
      /\ ~(k = "comment" /\ l = "fix") /\ ~(k = "delete" /\ l = "fix")
      /\ ~(k = "delete" /\ l = "comment")
  BY <1>4, <1>5, <1>6 DEF Losing
<1> QED
  BY <1>1, <1>7

(* Enough for any step: the worker that takes it, and all the others.      *)
LEMMA KeepStep ==
  ASSUME BaseInv, KeepInv, NEW w \in Workers, NEW rq, worker'[w] = rq,
         \A x \in Workers \ {w} : worker'[x] = worker[x],
         rq.at \in {"move", "unlink"} => links'[rq.rev] \subseteq rq.todo,
         rq.at = "unlink" /\ rq.com \in owed' =>
           Live(rq.master)' /\ rq.com \in links'[rq.master],
         Emptied(rq) => links'[rq.rev] = {},
         \A x \in Workers \ {w} :
           /\ worker[x].at \in {"move", "unlink"} =>
                links'[worker[x].rev] \subseteq links[worker[x].rev]
           /\ At(x, "unlink") /\ worker[x].com \in owed' =>
                /\ worker[x].com \in owed
                /\ Live(worker[x].master) => Live(worker[x].master)'
                /\ worker[x].com \in links[worker[x].master] =>
                     worker[x].com \in links'[worker[x].master]
           /\ Emptied(worker[x]) => links'[worker[x].rev] \subseteq links[worker[x].rev],
         InReview'
  PROVE  KeepInv'
<1>1. MovesAll'
  <2>1. ASSUME NEW x \in Workers, worker'[x].at \in {"move", "unlink"}
        PROVE  links'[worker'[x].rev] \subseteq worker'[x].todo
    BY <2>1 DEF KeepInv, MovesAll
  <2> QED
    BY <2>1 DEF MovesAll
<1>2. InMaster'
  <2>1. ASSUME NEW x \in Workers, At(x, "unlink")', worker'[x].com \in owed'
        PROVE  Live(worker[x].master)' /\ worker'[x].com \in links'[worker'[x].master]
    <3>1. CASE x = w
      BY <2>1, <3>1 DEF At, Live
    <3>2. CASE x # w
      <4>1. At(x, "unlink") /\ worker'[x] = worker[x]
        BY <2>1, <3>2 DEF At
      <4> QED
        BY <2>1, <3>2, <4>1 DEF KeepInv, InMaster, Live
    <3> QED
      BY <3>1, <3>2
  <2> QED
    BY <2>1 DEF InMaster
<1>3. NothingToLose'
  <2>1. ASSUME NEW x \in Workers, Emptied(worker'[x])
        PROVE  links'[worker'[x].rev] = {}
    <3>1. CASE x = w
      BY <2>1, <3>1
    <3>2. CASE x # w
      BY <2>1, <3>2 DEF KeepInv, NothingToLose
    <3> QED
      BY <3>1, <3>2
  <2> QED
    BY <2>1 DEF NothingToLose
<1> QED
  BY <1>1, <1>2, <1>3 DEF KeepInv

LEMMA KeepQuiet ==
  ASSUME BaseInv, KeepInv, NEW w \in Workers, NEW rq, worker'[w] = rq,
         \A x \in Workers \ {w} : worker'[x] = worker[x],
         UNCHANGED <<links, owed>>, \A v \in Reviews : Live(v) => Live(v)',
         rq.at \in {"move", "unlink"} => links[rq.rev] \subseteq rq.todo,
         rq.at # "unlink",
         Emptied(rq) => links[rq.rev] = {}
  PROVE  KeepInv'
<1>1. InReview'
  BY DEF KeepInv, InReview
<1>2. \A x \in Workers : At(x, "unlink") => worker[x].master \in Reviews
  <2>1. ASSUME NEW x \in Workers, At(x, "unlink")
        PROVE  worker[x].master \in Reviews
    <3>1. Busy(x) /\ worker[x].at = "unlink"
      BY <2>1 DEF Busy, At
    <3>2. worker[x].kind = "fix"
      BY <3>1 DEF BaseInv, WorkersOK, Shape, FixSteps
    <3> QED
      BY <3>1, <3>2, BusyFacts
  <2> QED
    BY <2>1
<1> QED
  BY <1>1, <1>2, KeepStep

LEMMA ArriveKeeps ==
  ASSUME BaseInv, KeepInv, NEW w \in Workers, Arrive(w)
  PROVE  KeepInv'
<1>1. PICK rq : Arrived(w, rq)
  BY ArriveFacts
<1>2. /\ worker'[w] = rq /\ \A x \in Workers \ {w} : worker'[x] = worker[x]
  BY <1>1, StartFacts DEF Arrived, BaseInv
<1>3. UNCHANGED <<rows, owed>>
  BY <1>1 DEF Arrived
<1>4. rq.at \notin {"move", "unlink"} /\ ~Emptied(rq)
  BY <1>1 DEF Arrived, Emptied
<1> QED
  BY <1>2, <1>3, <1>4, KeepQuiet DEF rows, Live

LEMMA QuietKeeps ==
  ASSUME BaseInv, KeepInv, NEW w \in Workers, NEW rq, Step(w, rq),
         UNCHANGED <<links, owed>>, \A v \in Reviews : Live(v) => Live(v)',
         rq.at \notin {"move", "unlink"}, ~Emptied(rq)
  PROVE  KeepInv'
<1>1. /\ worker'[w] = rq /\ \A x \in Workers \ {w} : worker'[x] = worker[x]
  BY StepWorkers DEF BaseInv
<1> QED
  BY <1>1, KeepQuiet

LEMMA SavesKeep ==
  ASSUME BaseInv, KeepInv, NEW w \in Workers,
         Insert(w) \/ SaveUpdate(w) \/ Publish(w)
  PROVE  KeepInv'
<1>1. PICK p : p = worker[w]
  OBVIOUS
<1>2. CASE Insert(w)
  <2>1. PICK rq, v : InsertDone(w, p, rq, v)
    BY <1>1, <1>2, InsertFacts
  <2>2. Step(w, rq) /\ rq.at = "save" /\ UNCHANGED owed /\ v \in Reviews /\ Save(v, Blank)
    BY <2>1 DEF InsertDone
  <2>3. UNCHANGED links /\ \A u \in Reviews : Live(u) => Live(u)'
    BY <2>2, SaveRows, RowFacts DEF BaseInv
  <2>4. rq.at \notin {"move", "unlink"} /\ ~Emptied(rq)
    BY <2>2 DEF Emptied
  <2> QED
    BY <2>2, <2>3, <2>4, QuietKeeps
<1>3. CASE SaveUpdate(w)
  <2>1. PICK rq : SaveDone(w, p, rq)
    BY <1>1, <1>3, SaveFacts
  <2>2. /\ Step(w, rq) /\ UNCHANGED owed /\ Save(p.rev, p.row)
        /\ rq = Rest \/ rq.at = "publish"
    BY <2>1 DEF SaveDone
  <2>3. p.rev \in Reviews /\ p.row \in Row
    BY <1>1, <2>1, BusyFacts DEF SaveDone, Busy, At
  <2>4. UNCHANGED links /\ \A u \in Reviews : Live(u) => Live(u)'
    BY <2>2, <2>3, SaveRows DEF BaseInv
  <2>5. rq.at \notin {"move", "unlink"} /\ ~Emptied(rq)
    BY <2>2, EmptiedRest DEF Emptied
  <2> QED
    BY <2>2, <2>4, <2>5, QuietKeeps
<1>4. CASE Publish(w)
  <2>1. PublishDone(w, p)
    BY <1>1, <1>4, PublishFacts
  <2>2. /\ Step(w, Rest) /\ UNCHANGED owed
        /\ UNCHANGED rows \/ \E row \in Row : Save(p.rev, row)
    BY <2>1 DEF PublishDone
  <2>3. p.rev \in Reviews
    BY <1>1, <2>1, BusyFacts DEF PublishDone, Busy, At
  <2>4. UNCHANGED links /\ \A u \in Reviews : Live(u) => Live(u)'
    <3>1. CASE UNCHANGED rows
      BY <3>1 DEF rows, Live
    <3>2. CASE \E row \in Row : Save(p.rev, row)
      BY <2>3, <3>2, SaveRows DEF BaseInv
    <3> QED
      BY <2>2, <3>1, <3>2
  <2> QED
    BY <2>2, <2>4, EmptiedRest, QuietKeeps
<1> QED
  BY <1>2, <1>3, <1>4

LEMMA EndsKeep ==
  ASSUME BaseInv, KeepInv, NEW w \in Workers, Render(w) \/ Crash(w)
  PROVE  KeepInv'
<1>1. Step(w, Rest) /\ UNCHANGED <<rows, owed>>
  BY RenderFacts, CrashFacts
<1> QED
  BY <1>1, EmptiedRest, QuietKeeps DEF rows, Live

LEMMA CollectKeeps ==
  ASSUME BaseInv, KeepInv, NEW w \in Workers, Collect(w)
  PROVE  KeepInv'
<1>1. PICK p : p = worker[w]
  OBVIOUS
<1>2. PICK rq : CollectDone(w, p, rq)
  BY <1>1, CollectFacts
<1>3. /\ Step(w, rq) /\ UNCHANGED <<rows, owed>>
      /\ rq.rev = p.rev /\ rq.at = "move" /\ rq.todo = links[p.rev]
  BY <1>2 DEF CollectDone, Kept
<1>4. /\ worker'[w] = rq /\ \A x \in Workers \ {w} : worker'[x] = worker[x]
  BY <1>3, StepWorkers DEF BaseInv
<1>5. ~Emptied(rq) /\ rq.at # "unlink" /\ links[rq.rev] \subseteq rq.todo
  BY <1>3 DEF Emptied
<1> QED
  BY <1>3, <1>4, <1>5, KeepQuiet DEF rows, Live

LEMMA SaveMasterKeeps ==
  ASSUME BaseInv, KeepInv, NEW w \in Workers, SaveMaster(w)
  PROVE  KeepInv'
<1>1. PICK p : p = worker[w]
  OBVIOUS
<1>2. PICK rq : MasterDone(w, p, rq)
  BY <1>1, MasterFacts
<1>3. /\ p.at = "move" /\ p.kind = "fix" /\ p.todo = {} /\ Save(p.master, p.row)
      /\ Step(w, rq) /\ UNCHANGED owed /\ rq.rev = p.rev /\ rq.at = "delete comments"
  BY <1>2 DEF MasterDone, Kept
<1>4. /\ worker'[w] = rq /\ \A x \in Workers \ {w} : worker'[x] = worker[x]
  BY <1>3, StepWorkers DEF BaseInv
<1>5. p.master \in Reviews /\ p.row \in Row
  BY <1>1, <1>3, BusyFacts DEF Busy, At
<1>6. UNCHANGED links /\ \A u \in Reviews : Live(u) => Live(u)'
  BY <1>3, <1>5, SaveRows DEF BaseInv
<1>7. links[rq.rev] = {}
  BY <1>1, <1>3 DEF KeepInv, MovesAll
<1> QED
  BY <1>3, <1>4, <1>6, <1>7, KeepQuiet

(* Other requests that hold a review with a request that adds to it, takes *)
(* from it or deletes it.                                                  *)
LEMMA OthersAt ==
  ASSUME BaseInv, NEW x \in Workers
  PROVE  /\ worker[x].at \in {"move", "unlink"} =>
              /\ Busy(x) /\ worker[x].kind = "fix"
              /\ worker[x].rev \in Reviews /\ worker[x].rev \in Holds(worker[x])
              /\ worker[x].master \in Reviews /\ worker[x].master \in Holds(worker[x])
              /\ worker[x].master # worker[x].rev
         /\ Emptied(worker[x]) =>
              /\ Busy(x) /\ worker[x].kind \in {"fix", "delete"}
              /\ worker[x].rev \in Reviews /\ worker[x].rev \in Holds(worker[x])
<1>1. PICK p : p = worker[x]
  OBVIOUS
<1>2. CASE p.at \in {"move", "unlink"}
  <2>1. Busy(x) /\ p.at # "insert"
    BY <1>1, <1>2 DEF Busy, At
  <2>2. p.kind = "fix" /\ ~Emptied(p)
    BY <1>1, <1>2, <2>1, BusyFacts DEF Shape, FixSteps, Emptied
  <2> QED
    BY <1>1, <2>1, <2>2, BusyFacts
<1>3. CASE Emptied(p)
  <2>1. Busy(x) /\ p.at # "insert" /\ p.at \notin {"move", "unlink"}
    BY <1>1, <1>3 DEF Busy, At, Emptied
  <2>2. p.kind \in {"fix", "delete"}
    BY <1>1, <1>3, <2>1, BusyFacts DEF Shape, Emptied
  <2> QED
    BY <1>1, <2>1, <2>2, BusyFacts
<1> QED
  BY <1>1, <1>2, <1>3

LEMMA LinkKeeps ==
  ASSUME BaseInv, KeepInv, ~Met(Losing), NEW w \in Workers, LinkComment(w)
  PROVE  KeepInv'
<1>1. PICK p : p = worker[w]
  OBVIOUS
<1>2. LinkDone(w, p) /\ Busy(w) /\ At(w, "link")
  BY <1>1, LinkFacts DEF LinkComment, Busy, At
<1>3. /\ p.kind = "comment" /\ p.at = "link" /\ Step(w, Rest) /\ UNCHANGED reviews
      /\ \/ /\ Live(p.rev)
            /\ links' = [links EXCEPT ![p.rev] = @ \cup {p.com}]
            /\ owed' = owed \cup {p.com}
         \/ UNCHANGED <<links, owed>>
  BY <1>2 DEF LinkDone
<1>4. CASE UNCHANGED <<links, owed>>
  BY <1>3, <1>4, EmptiedRest, QuietKeeps DEF Live
<1>5. CASE /\ Live(p.rev)
           /\ links' = [links EXCEPT ![p.rev] = @ \cup {p.com}]
           /\ owed' = owed \cup {p.com}
  <2>1. /\ worker'[w] = Rest /\ \A x \in Workers \ {w} : worker'[x] = worker[x]
    BY <1>3, StepWorkers DEF BaseInv
  <2>2. p.rev \in Reviews /\ p.rev \in Holds(p)
    BY <1>1, <1>2, <1>3, BusyFacts
  <2>3. /\ links'[p.rev] = links[p.rev] \cup {p.com}
        /\ \A v \in Reviews \ {p.rev} : links'[v] = links[v]
    BY <1>5, <2>2 DEF BaseInv, RowsOK
  <2>4. ASSUME NEW x \in Workers \ {w}
        PROVE  /\ worker[x].at \in {"move", "unlink"} =>
                    links'[worker[x].rev] \subseteq links[worker[x].rev]
               /\ At(x, "unlink") /\ worker[x].com \in owed' =>
                    /\ worker[x].com \in owed
                    /\ Live(worker[x].master) => Live(worker[x].master)'
                    /\ worker[x].com \in links[worker[x].master] =>
                         worker[x].com \in links'[worker[x].master]
               /\ Emptied(worker[x]) =>
                    links'[worker[x].rev] \subseteq links[worker[x].rev]
    <3>1. ASSUME worker[x].at \in {"move", "unlink"} \/ Emptied(worker[x])
          PROVE  links'[worker[x].rev] = links[worker[x].rev]
      <4>1. /\ Busy(x) /\ worker[x].kind \in {"fix", "delete"}
            /\ worker[x].rev \in Reviews /\ worker[x].rev \in Holds(worker[x])
        BY <3>1, OthersAt
      <4>2. worker[x].rev # p.rev
        BY <1>1, <1>2, <1>3, <2>2, <4>1, LosingFacts
      <4> QED
        BY <2>3, <4>1, <4>2
    <3>2. ASSUME At(x, "unlink"), worker[x].com \in owed'
          PROVE  /\ worker[x].com \in owed
                 /\ Live(worker[x].master) => Live(worker[x].master)'
                 /\ worker[x].com \in links[worker[x].master] =>
                      worker[x].com \in links'[worker[x].master]
      <4>1. Busy(x) /\ worker[x].at = "unlink"
        BY <3>2 DEF At, Busy
      <4>2. worker[x].com # p.com
        BY <1>1, <1>2, <4>1 DEF BaseInv, Fresh
      <4>3. worker[x].master \in Reviews
        BY <4>1, OthersAt
      <4>4. links[worker[x].master] \subseteq links'[worker[x].master]
        BY <2>3, <4>3
      <4> QED
        BY <1>3, <1>5, <2>1, <3>2, <4>2, <4>4 DEF Live
    <3> QED
      BY <3>1, <3>2
  <2>5. InReview'
    BY <1>3, <1>5, <2>2, <2>3 DEF KeepInv, InReview, Live
  <2> QED
    BY <2>1, <2>4, <2>5, EmptiedRest, KeepStep
<1> QED
  BY <1>3, <1>4, <1>5

LEMMA MoveKeeps ==
  ASSUME BaseInv, KeepInv, ~Met(Losing), NEW w \in Workers, Move(w)
  PROVE  KeepInv'
<1>1. PICK p : p = worker[w]
  OBVIOUS
<1>2. PICK rq : MoveDone(w, p, rq)
  BY <1>1, MoveFacts
<1>3. p.at = "move" /\ p.kind = "fix" /\ Step(w, rq) /\ UNCHANGED <<reviews, owed>>
  BY <1>2 DEF MoveDone
<1>4. CASE rq = Rest /\ UNCHANGED links
  BY <1>3, <1>4, EmptiedRest, QuietKeeps DEF Live
<1>5. CASE ~(rq = Rest /\ UNCHANGED links)
  <2>1. /\ rq.at = "unlink" /\ rq.rev = p.rev /\ rq.master = p.master
        /\ rq.todo = p.todo /\ Live(p.master)
        /\ links' = [links EXCEPT ![p.master] = @ \cup {rq.com}]
    BY <1>2, <1>5 DEF MoveDone, Kept
  <2>2. /\ worker'[w] = rq /\ \A x \in Workers \ {w} : worker'[x] = worker[x]
    BY <1>3, StepWorkers DEF BaseInv
  <2>3. /\ Busy(w) /\ p.rev \in Reviews /\ p.master \in Reviews /\ p.rev # p.master
        /\ p.master \in Holds(p)
    BY <1>1, <1>3, OthersAt
  <2>4. /\ links'[p.master] = links[p.master] \cup {rq.com}
        /\ \A v \in Reviews \ {p.master} : links'[v] = links[v]
    BY <2>1, <2>3 DEF BaseInv, RowsOK
  <2>5. ASSUME NEW x \in Workers \ {w}
        PROVE  /\ worker[x].at \in {"move", "unlink"} =>
                    links'[worker[x].rev] \subseteq links[worker[x].rev]
               /\ At(x, "unlink") /\ worker[x].com \in owed' =>
                    /\ worker[x].com \in owed
                    /\ Live(worker[x].master) => Live(worker[x].master)'
                    /\ worker[x].com \in links[worker[x].master] =>
                         worker[x].com \in links'[worker[x].master]
               /\ Emptied(worker[x]) =>
                    links'[worker[x].rev] \subseteq links[worker[x].rev]
    <3>1. ASSUME worker[x].at \in {"move", "unlink"} \/ Emptied(worker[x])
          PROVE  links'[worker[x].rev] = links[worker[x].rev]
      <4>1. /\ Busy(x) /\ worker[x].kind \in {"fix", "delete"}
            /\ worker[x].rev \in Reviews /\ worker[x].rev \in Holds(worker[x])
        BY <3>1, OthersAt
      <4>2. worker[x].rev # p.master
        BY <1>1, <1>3, <2>3, <4>1, LosingFacts
      <4> QED
        BY <2>4, <4>1, <4>2
    <3>2. ASSUME At(x, "unlink"), worker[x].com \in owed'
          PROVE  /\ worker[x].com \in owed
                 /\ Live(worker[x].master) => Live(worker[x].master)'
                 /\ worker[x].com \in links[worker[x].master] =>
                      worker[x].com \in links'[worker[x].master]
      <4>1. worker[x].master \in Reviews
        BY <3>2, OthersAt DEF At
      <4>2. links[worker[x].master] \subseteq links'[worker[x].master]
        BY <2>4, <4>1
      <4> QED
        BY <1>3, <2>2, <3>2, <4>2 DEF Live
    <3> QED
      BY <3>1, <3>2
  <2>6. InReview'
    <3>1. \A v \in Reviews : links[v] \subseteq links'[v] /\ (Live(v) => Live(v)')
      BY <1>3, <2>4 DEF Live
    <3> QED
      BY <1>3, <3>1 DEF KeepInv, InReview
  <2>7. links'[rq.rev] \subseteq rq.todo
    BY <1>1, <1>3, <2>1, <2>3, <2>4 DEF KeepInv, MovesAll
  <2>8. Live(rq.master)' /\ rq.com \in links'[rq.master] /\ ~Emptied(rq)
    BY <1>3, <2>1, <2>4 DEF Live, Emptied
  <2> QED
    BY <2>2, <2>5, <2>6, <2>7, <2>8, KeepStep
<1> QED
  BY <1>4, <1>5

LEMMA UnlinkKeeps ==
  ASSUME BaseInv, KeepInv, ~Met(Losing), NEW w \in Workers, Unlink(w)
  PROVE  KeepInv'
<1>1. PICK p : p = worker[w]
  OBVIOUS
<1>2. PICK rq : UnlinkDone(w, p, rq)
  BY <1>1, UnlinkFacts
<1>3. /\ p.at = "unlink" /\ p.kind = "fix" /\ Step(w, rq) /\ UNCHANGED <<reviews, owed>>
      /\ rq.at = "move" /\ rq.rev = p.rev /\ rq.todo = p.todo \ {p.com}
      /\ links' = [links EXCEPT ![p.rev] = @ \ {p.com}]
  BY <1>2 DEF UnlinkDone, Kept
<1>4. /\ worker'[w] = rq /\ \A x \in Workers \ {w} : worker'[x] = worker[x]
  BY <1>3, StepWorkers DEF BaseInv
<1>5. /\ Busy(w) /\ p.rev \in Reviews /\ p.master \in Reviews /\ p.rev # p.master
      /\ p.rev \in Holds(p)
  BY <1>1, <1>3, OthersAt
<1>6. /\ links'[p.rev] = links[p.rev] \ {p.com}
      /\ \A v \in Reviews \ {p.rev} : links'[v] = links[v]
  BY <1>3, <1>5 DEF BaseInv, RowsOK
<1>7. ASSUME NEW x \in Workers \ {w}
      PROVE  /\ worker[x].at \in {"move", "unlink"} =>
                  links'[worker[x].rev] \subseteq links[worker[x].rev]
             /\ At(x, "unlink") /\ worker[x].com \in owed' =>
                  /\ worker[x].com \in owed
                  /\ Live(worker[x].master) => Live(worker[x].master)'
                  /\ worker[x].com \in links[worker[x].master] =>
                       worker[x].com \in links'[worker[x].master]
             /\ Emptied(worker[x]) =>
                  links'[worker[x].rev] \subseteq links[worker[x].rev]
  <2>1. worker[x].rev \in Reviews => links'[worker[x].rev] \subseteq links[worker[x].rev]
    BY <1>6
  <2>2. ASSUME At(x, "unlink")
        PROVE  links'[worker[x].master] = links[worker[x].master]
    <3>1. /\ Busy(x) /\ worker[x].kind = "fix"
          /\ worker[x].master \in Reviews /\ worker[x].master \in Holds(worker[x])
      BY <2>2, OthersAt DEF At
    <3>2. worker[x].master # p.rev
      BY <1>1, <1>3, <1>5, <3>1, LosingFacts
    <3> QED
      BY <1>6, <3>1, <3>2
  <2> QED
    BY <1>3, <1>4, <2>1, <2>2, OthersAt DEF Live
<1>8. InReview'
  <2>1. ASSUME NEW c \in owed'
        PROVE  \E v \in Reviews : Live(v)' /\ c \in links'[v]
    <3>1. PICK v \in Reviews : Live(v) /\ c \in links[v]
      BY <1>3, <2>1 DEF KeepInv, InReview
    <3>2. CASE c = p.com
      <4>1. Live(p.master) /\ c \in links[p.master]
        BY <1>1, <1>3, <2>1, <3>2 DEF KeepInv, InMaster, At
      <4> QED
        BY <1>3, <1>5, <1>6, <4>1 DEF Live
    <3>3. CASE c # p.com
      BY <1>3, <1>6, <3>1, <3>3 DEF Live
    <3> QED
      BY <3>2, <3>3
  <2> QED
    BY <2>1 DEF InReview
<1>9. links'[rq.rev] \subseteq rq.todo /\ ~Emptied(rq) /\ rq.at # "unlink"
  BY <1>1, <1>3, <1>6 DEF KeepInv, MovesAll, Emptied
<1> QED
  BY <1>4, <1>7, <1>8, <1>9, KeepStep

LEMMA DeleteCommentsKeeps ==
  ASSUME BaseInv, KeepInv, NEW w \in Workers, DeleteComments(w)
  PROVE  KeepInv'
<1>1. PICK p : p = worker[w]
  OBVIOUS
<1>2. PICK rq : DropDone(w, p, rq)
  BY <1>1, DropFacts
<1>3. /\ p.at = "delete comments" /\ p.kind \in {"fix", "delete"}
      /\ Step(w, rq) /\ UNCHANGED reviews
      /\ rq.at = "delete review" /\ rq.rev = p.rev
      /\ links' = [v \in Reviews |-> links[v] \ links[p.rev]]
      /\ owed' = IF p.kind = "delete" THEN owed \ links[p.rev] ELSE owed
  BY <1>2 DEF DropDone, Kept
<1>4. /\ worker'[w] = rq /\ \A x \in Workers \ {w} : worker'[x] = worker[x]
  BY <1>3, StepWorkers DEF BaseInv
<1>5. p.rev \in Reviews
  BY <1>1, <1>3, BusyFacts DEF Busy, At
<1>6. p.kind = "fix" => links[p.rev] = {}
  BY <1>1, <1>3 DEF KeepInv, NothingToLose, Emptied
<1>7. /\ \A v \in Reviews : links'[v] = links[v] \ links[p.rev]
      /\ owed' = owed \ links[p.rev]
  BY <1>3, <1>6
<1>8. ASSUME NEW x \in Workers \ {w}
      PROVE  /\ worker[x].at \in {"move", "unlink"} =>
                  links'[worker[x].rev] \subseteq links[worker[x].rev]
             /\ At(x, "unlink") /\ worker[x].com \in owed' =>
                  /\ worker[x].com \in owed
                  /\ Live(worker[x].master) => Live(worker[x].master)'
                  /\ worker[x].com \in links[worker[x].master] =>
                       worker[x].com \in links'[worker[x].master]
             /\ Emptied(worker[x]) =>
                  links'[worker[x].rev] \subseteq links[worker[x].rev]
  BY <1>3, <1>4, <1>7, OthersAt DEF At, Live
<1>9. InReview'
  BY <1>3, <1>7 DEF KeepInv, InReview, Live
<1>10. links'[rq.rev] = {} /\ rq.at \notin {"move", "unlink"}
  BY <1>3, <1>5, <1>7
<1> QED
  BY <1>4, <1>8, <1>9, <1>10, KeepStep

LEMMA DeleteReviewKeeps ==
  ASSUME BaseInv, KeepInv, ~Met(Losing), NEW w \in Workers, DeleteReview(w)
  PROVE  KeepInv'
<1>1. PICK p : p = worker[w]
  OBVIOUS
<1>2. PICK rq : GoneDone(w, p, rq)
  BY <1>1, GoneFacts
<1>3. /\ p.at = "delete review" /\ Step(w, rq) /\ UNCHANGED <<comments, owed>>
      /\ reviews' = [reviews EXCEPT ![p.rev] = Deleted]
      /\ before' = [u \in Reviews |-> IF u = p.rev THEN {} ELSE before[u] \ {p.rev}]
      /\ links' = [links EXCEPT ![p.rev] = {}]
      /\ rq = Rest \/ rq.at \in {"render", "collect"}
  BY <1>2 DEF GoneDone, Taken
<1>4. /\ worker'[w] = rq /\ \A x \in Workers \ {w} : worker'[x] = worker[x]
  BY <1>3, StepWorkers DEF BaseInv
<1>5. /\ Busy(w) /\ p.kind \in {"fix", "delete"} /\ p.rev \in Reviews
      /\ p.rev \in Holds(p) /\ Emptied(p)
  BY <1>1, <1>3, OthersAt DEF Emptied
<1>6. links[p.rev] = {}
  BY <1>1, <1>5 DEF KeepInv, NothingToLose
<1>7. /\ ~Live(p.rev)'
      /\ \A v \in Reviews : links'[v] = links[v]
      /\ \A v \in Reviews \ {p.rev} : Live(v)' <=> Live(v)
  BY <1>3, <1>5, <1>6, DeletedRows DEF BaseInv
<1>8. ASSUME NEW x \in Workers \ {w}
      PROVE  /\ worker[x].at \in {"move", "unlink"} =>
                  links'[worker[x].rev] \subseteq links[worker[x].rev]
             /\ At(x, "unlink") /\ worker[x].com \in owed' =>
                  /\ worker[x].com \in owed
                  /\ Live(worker[x].master) => Live(worker[x].master)'
                  /\ worker[x].com \in links[worker[x].master] =>
                       worker[x].com \in links'[worker[x].master]
             /\ Emptied(worker[x]) =>
                  links'[worker[x].rev] \subseteq links[worker[x].rev]
  <2>1. ASSUME At(x, "unlink")
        PROVE  /\ worker[x].master \in Reviews
               /\ Live(worker[x].master) => Live(worker[x].master)'
    <3>1. /\ Busy(x) /\ worker[x].kind = "fix"
          /\ worker[x].master \in Reviews /\ worker[x].master \in Holds(worker[x])
      BY <2>1, OthersAt DEF At
    <3>2. worker[x].master # p.rev
      BY <1>1, <1>5, <3>1, LosingFacts
    <3>3. PICK m : m = worker[x].master
      OBVIOUS
    <3>4. Live(m) => Live(m)'
      BY <1>7, <3>1, <3>2, <3>3
    <3> QED
      BY <1>4, <3>1, <3>3, <3>4 DEF Live
  <2> QED
    BY <1>3, <1>7, <2>1, OthersAt
<1>9. InReview'
  BY <1>3, <1>6, <1>7 DEF KeepInv, InReview
<1>10. rq.at \notin {"move", "unlink"} /\ ~Emptied(rq)
  BY <1>3, EmptiedRest DEF Emptied
<1> QED
  BY <1>4, <1>8, <1>9, <1>10, KeepStep

LEMMA NextKeeps ==
  ASSUME BaseInv, ~Met(Losing) => KeepInv, [Next]_vars, ~Met(Losing)'
  PROVE  KeepInv'
<1>1. CASE UNCHANGED vars
  BY <1>1 DEF KeepInv, MovesAll, InMaster, NothingToLose, InReview, vars, rows,
              Live, At, Met
<1>2. CASE Next
  <2>1. PICK w \in Workers : Arrive(w) \/ Serve(w) \/ Crash(w)
    BY <1>2 DEF Next
  <2>2. collisions \subseteq collisions'
    BY CollisionsGrow
  <2>3. ~Met(Losing) /\ KeepInv
    BY <2>2 DEF Met
  <2>4. CASE Arrive(w)
    BY <2>3, <2>4, ArriveKeeps
  <2>5. CASE Serve(w)
    BY <2>3, <2>5, SavesKeep, EndsKeep, LinkKeeps, CollectKeeps, MoveKeeps,
       UnlinkKeeps, SaveMasterKeeps, DeleteCommentsKeeps, DeleteReviewKeeps DEF Serve
  <2>6. CASE Crash(w)
    BY <2>3, <2>6, EndsKeep
  <2> QED
    BY <2>1, <2>4, <2>5, <2>6
<1> QED
  BY <1>1, <1>2

(* A comment that was added to the pending review is in a review until its *)
(* author deletes that one, whatever fix_duplicate_reviews, interrupted or *)
(* not, does with the reviews; unless two consolidations, or one and a new *)
(* comment or a deletion, have met.                                        *)
THEOREM CommentsAreKept ==
  Spec => []CommentsKept
<1> DEFINE IInv == BaseInv /\ (~Met(Losing) => KeepInv)
<1>1. Init => IInv
  <2> SUFFICES ASSUME Init PROVE KeepInv
    BY InitBase
  <2>1. \A w \in Workers : worker[w].at = "rest"
    BY DEF Init, Rest
  <2>2. owed = {}
    BY DEF Init
  <2> QED
    BY <2>1, <2>2 DEF KeepInv, MovesAll, InMaster, NothingToLose, InReview, At, Emptied
<1>2. IInv /\ [Next]_vars => IInv'
  BY NextBase, NextKeeps
<1>3. IInv => CommentsKept
  BY DEF KeepInv, InReview, CommentsKept
<1> HIDE DEF IInv
<1> QED
  BY <1>1, <1>2, <1>3, PTL DEF Spec

(***************************************************************************)
(* A step changes the reviews that its worker holds, and no others.        *)
(***************************************************************************)
Confined(w, p, rq) ==
  /\ Step(w, rq)
  /\ \A v \in Reviews \ Holds(p) : reviews[v] # Unborn => reviews'[v] = reviews[v]
  /\ p.at # "delete comments" => \A v \in Reviews \ Holds(p) : links'[v] = links[v]
  /\ \A v \in Reviews \ Holds(p) : links'[v] \subseteq links[v]
  /\ \A v \in Reviews : IsPublic(v)' =>
       IsPublic(v) \/ (v \in Holds(p) /\ p.kind = "publish" /\ rq = Rest)
  /\ rq # Rest =>
       /\ rq.kind = p.kind /\ rq.found = p.found
       /\ \A v \in Holds(rq) : v \in Holds(p) \/ (v \in Reviews /\ reviews[v] = Unborn)

LEMMA SameConfined ==
  ASSUME BaseInv, NEW w \in Workers, NEW p, p = worker[w], NEW rq, Step(w, rq),
         UNCHANGED <<reviews, links>>,
         rq # Rest => rq.kind = p.kind /\ rq.found = p.found /\ Holds(rq) = Holds(p)
  PROVE  Confined(w, p, rq)
BY DEF Confined, IsPublic, Live

LEMMA SavedConfined ==
  ASSUME BaseInv, NEW w \in Workers, NEW p, p = worker[w], NEW rq, Step(w, rq),
         NEW v \in Reviews, NEW row \in Row, Save(v, row),
         v \in Holds(p) \/ reviews[v] = Unborn,
         row.public => v \in Holds(p) /\ p.kind = "publish" /\ rq = Rest,
         rq # Rest => /\ rq.kind = p.kind /\ rq.found = p.found
                      /\ Holds(rq) \subseteq Holds(p) \cup {v}
  PROVE  Confined(w, p, rq)
<1>1. /\ links' = links /\ reviews'[v] = row
      /\ \A u \in Reviews \ {v} : reviews'[u] = reviews[u]
  BY SaveRows DEF BaseInv
<1>2. \A u \in Reviews : IsPublic(u)' =>
        IsPublic(u) \/ (u \in Holds(p) /\ p.kind = "publish" /\ rq = Rest)
  BY <1>1 DEF IsPublic, Live
<1> QED
  BY <1>1, <1>2 DEF Confined

LEMMA ServeConfined ==
  ASSUME BaseInv, NEW w \in Workers, Serve(w) \/ Crash(w), NEW p, p = worker[w]
  PROVE  Busy(w) /\ \E rq : Confined(w, p, rq)
<1>1. CASE Insert(w)
  <2>1. PICK rq, v : InsertDone(w, p, rq, v)
    BY <1>1, InsertFacts
  <2>2. /\ Step(w, rq) /\ v \in Reviews /\ reviews[v] = Unborn /\ Save(v, Blank)
        /\ rq.kind = p.kind /\ rq.found = p.found /\ Holds(rq) = {v}
    BY <2>1 DEF InsertDone
  <2>3. Confined(w, p, rq)
    BY <2>2, SavedConfined, RowFacts
  <2> QED
    BY <1>1, <2>3 DEF Insert, Busy, At
<1>2. CASE SaveUpdate(w)
  <2>1. PICK rq : SaveDone(w, p, rq)
    BY <1>2, SaveFacts
  <2>2. Busy(w)
    BY <1>2 DEF SaveUpdate, Busy, At
  <2>3. /\ Step(w, rq) /\ Save(p.rev, p.row) /\ p.at = "save"
        /\ rq # Rest => Kept(p, rq)
    BY <2>1 DEF SaveDone
  <2>4. /\ p.rev \in Reviews /\ p.rev \in Holds(p) /\ p.row \in Row
        /\ p.row.public = FALSE
    BY <2>2, <2>3, BusyFacts
  <2>5. Confined(w, p, rq)
    BY <2>3, <2>4, SavedConfined DEF Kept
  <2> QED
    BY <2>2, <2>5
<1>3. CASE Publish(w)
  <2>1. PublishDone(w, p)
    BY <1>3, PublishFacts
  <2>2. Busy(w)
    BY <1>3 DEF Publish, Busy, At
  <2>3. /\ Step(w, Rest) /\ p.at = "publish" /\ p.kind = "publish"
        /\ UNCHANGED rows \/ \E row \in Row : Save(p.rev, row)
    BY <2>1 DEF PublishDone
  <2>4. p.rev \in Reviews /\ p.rev \in Holds(p)
    BY <2>2, <2>3, BusyFacts
  <2>5. Confined(w, p, Rest)
    <3>1. CASE UNCHANGED rows
      BY <2>3, <3>1, SameConfined DEF rows
    <3>2. CASE \E row \in Row : Save(p.rev, row)
      BY <2>3, <2>4, <3>2, SavedConfined
    <3> QED
      BY <2>3, <3>1, <3>2
  <2> QED
    BY <2>2, <2>5
<1>4. CASE LinkComment(w)
  <2>1. LinkDone(w, p)
    BY <1>4, LinkFacts
  <2>2. Busy(w)
    BY <1>4 DEF LinkComment, Busy, At
  <2>3. /\ Step(w, Rest) /\ p.at = "link" /\ UNCHANGED reviews
        /\ links' = links \/ links' = [links EXCEPT ![p.rev] = @ \cup {p.com}]
    BY <2>1 DEF LinkDone
  <2>4. p.rev \in Reviews /\ p.rev \in Holds(p)
    BY <2>2, <2>3, BusyFacts
  <2>5. \A v \in Reviews \ Holds(p) : links'[v] = links[v]
    BY <2>3, <2>4 DEF BaseInv, RowsOK
  <2>6. Confined(w, p, Rest)
    BY <2>3, <2>5 DEF Confined, IsPublic, Live
  <2> QED
    BY <2>2, <2>6
<1>5. CASE Collect(w)
  <2>1. PICK rq : CollectDone(w, p, rq)
    BY <1>5, CollectFacts
  <2>2. Step(w, rq) /\ UNCHANGED rows /\ Kept(p, rq)
    BY <2>1 DEF CollectDone
  <2>3. Confined(w, p, rq)
    BY <2>2, SameConfined DEF rows, Kept
  <2> QED
    BY <1>5, <2>3 DEF Collect, Busy, At
<1>6. CASE Move(w)
  <2>1. PICK rq : MoveDone(w, p, rq)
    BY <1>6, MoveFacts
  <2>2. /\ Step(w, rq) /\ UNCHANGED reviews /\ p.at = "move"
        /\ rq # Rest => Kept(p, rq)
        /\ links' = links \/ links' = [links EXCEPT ![p.master] = @ \cup {rq.com}]
    BY <2>1 DEF MoveDone
  <2>3. Busy(w) /\ p.master \in Reviews /\ p.master \in Holds(p)
    BY <2>2, OthersAt
  <2>4. \A v \in Reviews \ Holds(p) : links'[v] = links[v]
    BY <2>2, <2>3 DEF BaseInv, RowsOK
  <2>5. Confined(w, p, rq)
    BY <2>2, <2>4 DEF Confined, IsPublic, Live, Kept
  <2> QED
    BY <2>3, <2>5
<1>7. CASE Unlink(w)
  <2>1. PICK rq : UnlinkDone(w, p, rq)
    BY <1>7, UnlinkFacts
  <2>2. /\ Step(w, rq) /\ UNCHANGED reviews /\ p.at = "unlink" /\ Kept(p, rq)
        /\ links' = [links EXCEPT ![p.rev] = @ \ {p.com}]
    BY <2>1 DEF UnlinkDone
  <2>3. Busy(w) /\ p.rev \in Reviews /\ p.rev \in Holds(p)
    BY <2>2, OthersAt
  <2>4. \A v \in Reviews \ Holds(p) : links'[v] = links[v]
    BY <2>2, <2>3 DEF BaseInv, RowsOK
  <2>5. Confined(w, p, rq)
    BY <2>2, <2>4 DEF Confined, IsPublic, Live, Kept
  <2> QED
    BY <2>3, <2>5
<1>8. CASE SaveMaster(w)
  <2>1. PICK rq : MasterDone(w, p, rq)
    BY <1>8, MasterFacts
  <2>2. /\ Step(w, rq) /\ Save(p.master, p.row) /\ p.at = "move" /\ Kept(p, rq)
    BY <2>1 DEF MasterDone
  <2>3. Busy(w) /\ p.master \in Reviews /\ p.master \in Holds(p)
    BY <2>2, OthersAt
  <2>4. p.row \in Row /\ p.row.public = FALSE
    BY <2>3, BusyFacts
  <2>5. Confined(w, p, rq)
    BY <2>2, <2>3, <2>4, SavedConfined DEF Kept
  <2> QED
    BY <2>3, <2>5
<1>9. CASE DeleteComments(w)
  <2>1. PICK rq : DropDone(w, p, rq)
    BY <1>9, DropFacts
  <2>2. Step(w, rq) /\ UNCHANGED reviews /\ p.at = "delete comments" /\ Kept(p, rq)
    BY <2>1 DEF DropDone
  <2>3. \A v \in Reviews : links'[v] \subseteq links[v]
    BY <2>1 DEF DropDone
  <2>4. Confined(w, p, rq)
    BY <2>2, <2>3 DEF Confined, IsPublic, Live, Kept
  <2> QED
    BY <1>9, <2>4 DEF DeleteComments, Busy, At
<1>10. CASE DeleteReview(w)
  <2>1. PICK rq : GoneDone(w, p, rq)
    BY <1>10, GoneFacts
  <2>2. /\ Step(w, rq) /\ UNCHANGED comments /\ p.at = "delete review"
        /\ reviews' = [reviews EXCEPT ![p.rev] = Deleted]
        /\ before' = [u \in Reviews |-> IF u = p.rev THEN {} ELSE before[u] \ {p.rev}]
        /\ links' = [links EXCEPT ![p.rev] = {}]
        /\ rq # Rest => /\ rq.kind = p.kind /\ rq.found = p.found
                        /\ Holds(rq) \subseteq Holds(p)
    BY <2>1 DEF GoneDone, Kept, Taken
  <2>3. Busy(w) /\ p.rev \in Reviews /\ p.rev \in Holds(p)
    BY <2>2, OthersAt DEF Emptied
  <2>4. /\ ~Live(p.rev)'
        /\ \A u \in Reviews \ {p.rev} : reviews'[u] = reviews[u] /\ links'[u] = links[u]
    BY <2>2, <2>3, DeletedRows DEF BaseInv
  <2>5. \A v \in Reviews : IsPublic(v)' => IsPublic(v)
    BY <2>4 DEF IsPublic, Live
  <2>6. Confined(w, p, rq)
    BY <2>2, <2>3, <2>4, <2>5 DEF Confined
  <2> QED
    BY <2>3, <2>6
<1>11. CASE Render(w) \/ Crash(w)
  <2>1. Busy(w) /\ Step(w, Rest) /\ UNCHANGED rows
    BY <1>11, RenderFacts, CrashFacts
  <2> QED
    BY <2>1, SameConfined DEF rows
<1> QED
  BY <1>1, <1>2, <1>3, <1>4, <1>5, <1>6, <1>7, <1>8, <1>9, <1>10, <1>11 DEF Serve

(***************************************************************************)
(* A published review is left alone.                                       *)
(***************************************************************************)
PublishMet == \E pair \in collisions : "publish" \in pair

NonePublic ==
  \A w \in Workers : Busy(w) => \A v \in Holds(worker[w]) : ~IsPublic(v)

LEMMA PublishFree ==
  ASSUME BaseInv, ~PublishMet, NEW w \in Workers, NEW x \in Workers, w # x,
         Busy(w), Busy(x), NEW v, v \in Holds(worker[w]), v \in Holds(worker[x])
  PROVE  worker[w].kind # "publish"
<1>1. PICK k, l : k = worker[w].kind /\ l = worker[x].kind
  OBVIOUS
<1>2. l \in Kinds
  BY <1>1, BusyFacts DEF Shape, Requests
<1>3. {k, l} \in Harmful => {k, l} \in collisions
  BY <1>1 DEF BaseInv, Recorded
<1>4. k = "publish" => {k, l} \in Harmful
  BY <1>2 DEF Harmful
<1>5. k = "publish" => "publish" \in {k, l}
  OBVIOUS
<1> QED
  BY <1>1, <1>3, <1>4, <1>5 DEF PublishMet

LEMMA NonePublicStep ==
  ASSUME BaseInv, ~PublishMet => NonePublic, [Next]_vars, ~PublishMet'
  PROVE  NonePublic'
<1>1. ~PublishMet /\ NonePublic
  BY CollisionsGrow DEF PublishMet
<1>2. CASE UNCHANGED vars
  BY <1>1, <1>2 DEF NonePublic, Busy, At, IsPublic, Live, vars, rows
<1>3. ASSUME NEW w \in Workers, Arrive(w)
      PROVE  NonePublic'
  <2>1. PICK rq : Arrived(w, rq)
    BY <1>3, ArriveFacts
  <2>2. /\ worker'[w] = rq /\ \A x \in Workers \ {w} : worker'[x] = worker[x]
        /\ reviews' = reviews
    BY <2>1, StartFacts DEF Arrived, BaseInv, rows
  <2>3. \A v \in Holds(rq) : ~IsPublic(v)
    BY <2>1 DEF Arrived, Pending, IsPublic
  <2> QED
    BY <1>1, <2>2, <2>3 DEF NonePublic, Busy, At, IsPublic, Live
<1>4. ASSUME NEW w \in Workers, Serve(w) \/ Crash(w)
      PROVE  NonePublic'
  <2>1. PICK p : p = worker[w]
    OBVIOUS
  <2>2. Busy(w) /\ \E rq : Confined(w, p, rq)
    BY <1>4, <2>1, ServeConfined
  <2>3. PICK rq : Confined(w, p, rq)
    BY <2>2
  <2>4. /\ worker'[w] = rq
        /\ \A x \in Workers \ {w} : worker'[x] = worker[x] /\ (Busy(x)' <=> Busy(x))
    BY <2>3, StepWorkers DEF Confined, BaseInv
  <2>5. SUFFICES ASSUME NEW x \in Workers, Busy(x)', NEW v \in Holds(worker'[x]),
                        IsPublic(v)'
                 PROVE  FALSE
    BY DEF NonePublic
  <2>6. \A u \in Holds(p) : u \in Reviews /\ ~IsPublic(u)
    BY <1>1, <2>1, <2>2, BusyFacts DEF NonePublic
  <2>7. CASE x = w
    <3>1. rq # Rest
      BY <2>4, <2>5, <2>7 DEF Busy, At, Rest
    <3>2. v \in Holds(p) \/ (v \in Reviews /\ reviews[v] = Unborn)
      BY <2>3, <2>4, <2>5, <2>7, <3>1 DEF Confined
    <3>3. v \in Reviews /\ ~IsPublic(v)
      BY <2>6, <3>2, PendingAssumption DEF IsPublic, Live
    <3> QED
      BY <2>3, <2>5, <3>1, <3>3 DEF Confined
  <2>8. CASE x # w
    <3>1. Busy(x) /\ v \in Holds(worker[x])
      BY <2>4, <2>5, <2>8
    <3>2. v \in Reviews /\ ~IsPublic(v)
      BY <1>1, <3>1, BusyFacts DEF NonePublic
    <3>3. v \in Holds(p) /\ p.kind = "publish"
      BY <2>3, <2>5, <3>2 DEF Confined
    <3> QED
      BY <1>1, <2>1, <2>2, <2>8, <3>1, <3>3, PublishFree
  <2> QED
    BY <2>7, <2>8
<1> QED
  BY <1>2, <1>3, <1>4 DEF Next

(* A comment is in two reviews only between the two statements that move   *)
(* it, and two consolidations do not move the same one.                    *)
Movers == {w \in Workers : worker[w].at \in {"move", "unlink"}}

OnceOrMoved ==
  \A u, v \in Reviews : u # v =>
    \A c \in links[u] \cap links[v] : \E w \in Workers :
      At(w, "unlink") /\ worker[w].com = c /\ {u, v} = {worker[w].rev, worker[w].master}

Between ==
  \A w \in Movers : \A v \in Reviews :
    links[v] \cap worker[w].todo # {} => v \in {worker[w].rev, worker[w].master}

Apart ==
  \A w, x \in Movers : w # x => worker[w].todo \cap worker[x].todo = {}

OnceInv == OnceOrMoved /\ Between /\ Apart

Single == crashes = 0 /\ {"fix"} \notin collisions

LEMMA OnceStep ==
  ASSUME BaseInv, OnceInv, NEW w \in Workers, ~At(w, "unlink"),
         NEW rq, worker'[w] = rq,
         \A x \in Workers \ {w} : worker'[x] = worker[x],
         rq.at \notin {"move", "unlink"},
         \A v \in Reviews : links'[v] \subseteq links[v]
  PROVE  OnceInv'
<1>1. OnceOrMoved'
  <2> SUFFICES ASSUME NEW u \in Reviews, NEW v \in Reviews, u # v,
                      NEW c \in links'[u] \cap links'[v]
               PROVE  \E x \in Workers :
                        /\ At(x, "unlink")' /\ worker'[x].com = c
                        /\ {u, v} = {worker'[x].rev, worker'[x].master}
    BY DEF OnceOrMoved
  <2>1. c \in links[u] \cap links[v]
    OBVIOUS
  <2>2. PICK x \in Workers : /\ At(x, "unlink") /\ worker[x].com = c
                             /\ {u, v} = {worker[x].rev, worker[x].master}
    BY <2>1 DEF OnceInv, OnceOrMoved
  <2> QED
    BY <2>2 DEF At
<1>2. Movers' \subseteq Movers \ {w}
  BY DEF Movers
<1>3. Between'
  <2> SUFFICES ASSUME NEW x \in Movers', NEW v \in Reviews,
                      links'[v] \cap worker'[x].todo # {}
               PROVE  v \in {worker'[x].rev, worker'[x].master}
    BY DEF Between
  <2>1. x \in Movers /\ worker'[x] = worker[x]
    BY <1>2 DEF Movers
  <2> QED
    BY <2>1 DEF OnceInv, Between
<1>4. Apart'
  BY <1>2 DEF OnceInv, Apart, Movers
<1> QED
  BY <1>1, <1>3, <1>4 DEF OnceInv

LEMMA MoverFacts ==
  ASSUME BaseInv, {"fix"} \notin collisions, NEW w \in Workers, NEW x \in Workers,
         w # x, Busy(w), worker[w].kind = "fix", x \in Movers
  PROVE  {worker[x].rev, worker[x].master} \cap Holds(worker[w]) = {}
<1>1. /\ Busy(x) /\ worker[x].kind = "fix"
      /\ worker[x].rev \in Holds(worker[x]) /\ worker[x].master \in Holds(worker[x])
  BY OthersAt DEF Movers
<1>2. {"fix", "fix"} = {"fix"}
  OBVIOUS
<1>3. {"fix"} \in Harmful
  BY <1>2 DEF Harmful, Kinds
<1>4. Holds(worker[w]) \cap Holds(worker[x]) = {}
  BY <1>1, <1>2, <1>3 DEF BaseInv, Recorded
<1> QED
  BY <1>1, <1>4

LEMMA LinkOnce ==
  ASSUME BaseInv, OnceInv, NEW w \in Workers, LinkComment(w)
  PROVE  OnceInv'
<1>1. PICK p : p = worker[w]
  OBVIOUS
<1>2. LinkDone(w, p) /\ Busy(w) /\ At(w, "link")
  BY <1>1, LinkFacts DEF LinkComment, Busy, At
<1>3. /\ Step(w, Rest) /\ p.com \notin comments
      /\ links' = links \/ links' = [links EXCEPT ![p.rev] = @ \cup {p.com}]
  BY <1>2 DEF LinkDone
<1>4. /\ worker'[w] = Rest /\ \A x \in Workers \ {w} : worker'[x] = worker[x]
  BY <1>3, StepWorkers DEF BaseInv
<1>5. p.rev \in Reviews
  BY <1>1, <1>2, BusyFacts DEF At
<1>6. \A v \in Reviews : links[v] \subseteq comments
  BY DEF BaseInv, RowsOK
<1>7. \A v \in Reviews : \A c \in links'[v] : c \in links[v] \/ (c = p.com /\ v = p.rev)
  BY <1>3, <1>5 DEF BaseInv, RowsOK
<1>8. w \notin Movers /\ w \notin Movers' /\ Movers' \subseteq Movers
  BY <1>2, <1>4, EmptiedRest DEF Movers, At
<1>9. OnceOrMoved'
  <2> SUFFICES ASSUME NEW u \in Reviews, NEW v \in Reviews, u # v,
                      NEW c \in links'[u] \cap links'[v]
               PROVE  \E x \in Workers :
                        /\ At(x, "unlink")' /\ worker'[x].com = c
                        /\ {u, v} = {worker'[x].rev, worker'[x].master}
    BY DEF OnceOrMoved
  <2>1. c \in links[u] \cap links[v]
    BY <1>3, <1>6, <1>7
  <2>2. PICK x \in Workers : /\ At(x, "unlink") /\ worker[x].com = c
                             /\ {u, v} = {worker[x].rev, worker[x].master}
    BY <2>1 DEF OnceInv, OnceOrMoved
  <2>3. x # w
    BY <1>2, <2>2 DEF At
  <2> QED
    BY <1>4, <2>2, <2>3 DEF At
<1>10. Between'
  <2> SUFFICES ASSUME NEW x \in Movers', NEW v \in Reviews, NEW c \in links'[v],
                      c \in worker'[x].todo
               PROVE  v \in {worker'[x].rev, worker'[x].master}
    BY DEF Between
  <2>1. x \in Movers /\ x # w /\ worker'[x] = worker[x] /\ Busy(x)
    BY <1>4, <1>8, OthersAt DEF Movers
  <2>2. p.com \notin worker[x].todo
    BY <1>1, <1>2, <2>1 DEF BaseInv, Fresh, Movers
  <2>3. c \in links[v]
    BY <1>7, <2>1, <2>2
  <2> QED
    BY <2>1, <2>3 DEF OnceInv, Between
<1>11. Apart'
  BY <1>4, <1>8 DEF OnceInv, Apart, Movers
<1> QED
  BY <1>9, <1>10, <1>11 DEF OnceInv

LEMMA CollectOnce ==
  ASSUME BaseInv, OnceInv, {"fix"} \notin collisions, NEW w \in Workers, Collect(w)
  PROVE  OnceInv'
<1>1. PICK p : p = worker[w]
  OBVIOUS
<1>2. PICK rq : CollectDone(w, p, rq)
  BY <1>1, CollectFacts
<1>3. /\ Step(w, rq) /\ p.at = "collect" /\ p.kind = "fix" /\ rq.at = "move"
      /\ UNCHANGED links
      /\ rq.rev = p.rev /\ rq.master = p.master /\ rq.todo = links[p.rev]
  BY <1>2 DEF CollectDone, Kept, rows
<1>4. /\ worker'[w] = rq /\ \A x \in Workers \ {w} : worker'[x] = worker[x]
  BY <1>3, StepWorkers DEF BaseInv
<1>5. Busy(w) /\ w \notin Movers /\ ~At(w, "unlink")
  BY <1>1, <1>3 DEF Busy, At, Movers
<1>6. p.rev \in Reviews /\ p.rev \in Holds(p)
  BY <1>1, <1>3, <1>5, BusyFacts
<1>7. Movers' = Movers \cup {w}
  BY <1>3, <1>4, <1>5 DEF Movers
<1>8. \A x \in Movers : x \in Workers \ {w} /\ p.rev \notin {worker[x].rev, worker[x].master}
  BY <1>1, <1>3, <1>5, <1>6, MoverFacts DEF Movers
<1>9. OnceOrMoved'
  <2> SUFFICES ASSUME NEW u \in Reviews, NEW v \in Reviews, u # v,
                      NEW c \in links'[u] \cap links'[v]
               PROVE  \E x \in Workers :
                        /\ At(x, "unlink")' /\ worker'[x].com = c
                        /\ {u, v} = {worker'[x].rev, worker'[x].master}
    BY DEF OnceOrMoved
  <2>2. PICK x \in Workers : /\ At(x, "unlink") /\ worker[x].com = c
                             /\ {u, v} = {worker[x].rev, worker[x].master}
    BY <1>3 DEF OnceInv, OnceOrMoved
  <2>3. x # w
    BY <1>5, <2>2
  <2> QED
    BY <1>4, <2>2, <2>3 DEF At
<1>10. Between'
  <2> SUFFICES ASSUME NEW x \in Movers', NEW v \in Reviews, NEW c \in links'[v],
                      c \in worker'[x].todo
               PROVE  v \in {worker'[x].rev, worker'[x].master}
    BY DEF Between
  <2>1. CASE x = w
    <3>1. c \in links[p.rev] \cap links[v]
      BY <1>3, <1>4, <2>1
    <3>2. SUFFICES ASSUME v # p.rev PROVE FALSE
      BY <1>3, <1>4, <2>1
    <3>3. PICK y \in Workers : /\ At(y, "unlink")
                               /\ {p.rev, v} = {worker[y].rev, worker[y].master}
      BY <1>6, <3>1, <3>2 DEF OnceInv, OnceOrMoved
    <3> QED
      BY <1>8, <3>3 DEF Movers, At
  <2>2. CASE x # w
    BY <1>3, <1>4, <1>7, <1>8, <2>2 DEF OnceInv, Between
  <2> QED
    BY <2>1, <2>2
<1>11. Apart'
  <2>1. \A x \in Movers : worker[x].todo \cap links[p.rev] = {}
    BY <1>6, <1>8 DEF OnceInv, Between
  <2>2. \A x \in Movers : worker'[x] = worker[x]
    BY <1>4, <1>8
  <2>3. worker'[w].todo = links[p.rev]
    BY <1>3, <1>4
  <2> QED
    BY <1>7, <2>1, <2>2, <2>3 DEF OnceInv, Apart
<1> QED
  BY <1>9, <1>10, <1>11 DEF OnceInv

LEMMA MoveOnce ==
  ASSUME BaseInv, OnceInv, NEW w \in Workers, Move(w)
  PROVE  OnceInv'
<1>1. PICK p : p = worker[w]
  OBVIOUS
<1>2. PICK rq : MoveDone(w, p, rq)
  BY <1>1, MoveFacts
<1>3. p.at = "move" /\ Step(w, rq)
  BY <1>2 DEF MoveDone
<1>4. /\ worker'[w] = rq /\ \A x \in Workers \ {w} : worker'[x] = worker[x]
  BY <1>3, StepWorkers DEF BaseInv
<1>5. ~At(w, "unlink") /\ w \in Movers
  BY <1>1, <1>3 DEF At, Movers
<1>6. CASE rq = Rest /\ UNCHANGED links
  BY <1>4, <1>5, <1>6, EmptiedRest, OnceStep
<1>7. CASE ~(rq = Rest /\ UNCHANGED links)
  <2>1. /\ rq.at = "unlink" /\ rq.rev = p.rev /\ rq.master = p.master
        /\ rq.todo = p.todo /\ rq.com \in p.todo
        /\ links' = [links EXCEPT ![p.master] = @ \cup {rq.com}]
    BY <1>2, <1>7 DEF MoveDone, Kept
  <2>2. p.rev \in Reviews /\ p.master \in Reviews
    BY <1>1, <1>3, OthersAt
  <2>3. \A v \in Reviews : \A c \in links'[v] :
          c \in links[v] \/ (c = rq.com /\ v = p.master)
    BY <2>1, <2>2 DEF BaseInv, RowsOK
  <2>4. Movers' = Movers
    BY <1>4, <1>5, <2>1 DEF Movers
  <2>5. \A v \in Reviews : rq.com \in links[v] => v \in {p.rev, p.master}
    BY <1>1, <1>5, <2>1 DEF OnceInv, Between
  <2>6. OnceOrMoved'
    <3> SUFFICES ASSUME NEW u \in Reviews, NEW v \in Reviews, u # v,
                        NEW c \in links'[u] \cap links'[v]
                 PROVE  \E x \in Workers :
                          /\ At(x, "unlink")' /\ worker'[x].com = c
                          /\ {u, v} = {worker'[x].rev, worker'[x].master}
      BY DEF OnceOrMoved
    <3>1. CASE c \in links[u] /\ c \in links[v]
      <4>1. PICK x \in Workers : /\ At(x, "unlink") /\ worker[x].com = c
                                 /\ {u, v} = {worker[x].rev, worker[x].master}
        BY <3>1 DEF OnceInv, OnceOrMoved
      <4>2. x # w
        BY <1>5, <4>1
      <4> QED
        BY <1>4, <4>1, <4>2 DEF At
    <3>2. CASE ~(c \in links[u] /\ c \in links[v])
      <4>1. c = rq.com /\ {u, v} = {p.rev, p.master}
        BY <2>3, <2>5, <3>2
      <4> QED
        BY <1>4, <2>1, <4>1 DEF At
    <3> QED
      BY <3>1, <3>2
  <2>7. Between'
    <3> SUFFICES ASSUME NEW x \in Movers', NEW v \in Reviews, NEW c \in links'[v],
                        c \in worker'[x].todo
                 PROVE  v \in {worker'[x].rev, worker'[x].master}
      BY DEF Between
    <3>1. CASE x = w
      BY <1>1, <1>4, <1>5, <2>1, <2>3, <3>1 DEF OnceInv, Between
    <3>2. CASE x # w
      <4>1. x \in Movers /\ worker'[x] = worker[x]
        BY <1>4, <2>4, <3>2 DEF Movers
      <4>2. c # rq.com
        BY <1>1, <1>5, <2>1, <3>2, <4>1 DEF OnceInv, Apart
      <4> QED
        BY <2>3, <4>1, <4>2 DEF OnceInv, Between
    <3> QED
      BY <3>1, <3>2
  <2>8. Apart'
    <3>1. \A x \in Movers : worker'[x].todo = worker[x].todo
      BY <1>1, <1>4, <2>1 DEF Movers
    <3> QED
      BY <2>4, <3>1 DEF OnceInv, Apart
  <2> QED
    BY <2>6, <2>7, <2>8 DEF OnceInv
<1> QED
  BY <1>6, <1>7

LEMMA UnlinkOnce ==
  ASSUME BaseInv, OnceInv, NEW w \in Workers, Unlink(w)
  PROVE  OnceInv'
<1>1. PICK p : p = worker[w]
  OBVIOUS
<1>2. PICK rq : UnlinkDone(w, p, rq)
  BY <1>1, UnlinkFacts
<1>3. /\ p.at = "unlink" /\ Step(w, rq) /\ rq.at = "move"
      /\ rq.rev = p.rev /\ rq.master = p.master /\ rq.todo = p.todo \ {p.com}
      /\ links' = [links EXCEPT ![p.rev] = @ \ {p.com}]
  BY <1>2 DEF UnlinkDone, Kept
<1>4. /\ worker'[w] = rq /\ \A x \in Workers \ {w} : worker'[x] = worker[x]
  BY <1>3, StepWorkers DEF BaseInv
<1>5. p.rev \in Reviews /\ w \in Movers
  BY <1>1, <1>3, OthersAt DEF Movers
<1>6. /\ \A v \in Reviews : links'[v] \subseteq links[v]
      /\ p.com \notin links'[p.rev]
  BY <1>3, <1>5 DEF BaseInv, RowsOK
<1>7. Movers' = Movers
  BY <1>3, <1>4, <1>5 DEF Movers
<1>8. OnceOrMoved'
  <2> SUFFICES ASSUME NEW u \in Reviews, NEW v \in Reviews, u # v,
                      NEW c \in links'[u] \cap links'[v]
               PROVE  \E x \in Workers :
                        /\ At(x, "unlink")' /\ worker'[x].com = c
                        /\ {u, v} = {worker'[x].rev, worker'[x].master}
    BY DEF OnceOrMoved
  <2>1. c \in links[u] \cap links[v]
    BY <1>6
  <2>2. PICK x \in Workers : /\ At(x, "unlink") /\ worker[x].com = c
                             /\ {u, v} = {worker[x].rev, worker[x].master}
    BY <2>1 DEF OnceInv, OnceOrMoved
  <2>3. x # w
    BY <1>1, <1>6, <2>2
  <2> QED
    BY <1>4, <2>2, <2>3 DEF At
<1>9. \A x \in Movers : /\ worker'[x].todo \subseteq worker[x].todo
                        /\ worker'[x].rev = worker[x].rev
                        /\ worker'[x].master = worker[x].master
  BY <1>1, <1>3, <1>4 DEF Movers
<1>10. Between'
  BY <1>6, <1>7, <1>9 DEF OnceInv, Between
<1>11. Apart'
  BY <1>7, <1>9 DEF OnceInv, Apart
<1> QED
  BY <1>8, <1>10, <1>11 DEF OnceInv

LEMMA OnceKeptBy ==
  ASSUME BaseInv, OnceInv, NEW w \in Workers, NEW rq, Step(w, rq),
         ~At(w, "unlink"), rq.at \notin {"move", "unlink"},
         \A v \in Reviews : links'[v] \subseteq links[v]
  PROVE  OnceInv'
BY StepWorkers, OnceStep DEF BaseInv

LEMMA SavesOnce ==
  ASSUME BaseInv, OnceInv, NEW w \in Workers,
         Insert(w) \/ SaveUpdate(w) \/ Publish(w) \/ SaveMaster(w) \/ Render(w)
  PROVE  OnceInv'
<1>1. PICK p : p = worker[w]
  OBVIOUS
<1>2. ~At(w, "unlink")
  BY DEF Insert, SaveUpdate, Publish, SaveMaster, Render, At
<1>3. \A v \in Reviews : links'[v] \subseteq links[v]
  BY DEF Insert, SaveUpdate, Publish, SaveMaster, Render, Save, rows
<1>4. \E rq : Step(w, rq) /\ rq.at \notin {"move", "unlink"}
  <2>1. CASE Insert(w)
    BY <1>1, <2>1, InsertFacts DEF InsertDone
  <2>2. CASE SaveUpdate(w)
    BY <1>1, <2>2, SaveFacts, EmptiedRest DEF SaveDone
  <2>3. CASE Publish(w)
    BY <1>1, <2>3, PublishFacts, EmptiedRest DEF PublishDone
  <2>4. CASE SaveMaster(w)
    BY <1>1, <2>4, MasterFacts DEF MasterDone
  <2>5. CASE Render(w)
    BY <2>5, RenderFacts, EmptiedRest
  <2> QED
    BY <2>1, <2>2, <2>3, <2>4, <2>5
<1> QED
  BY <1>2, <1>3, <1>4, OnceKeptBy

LEMMA DeletesOnce ==
  ASSUME BaseInv, OnceInv, NEW w \in Workers, DeleteComments(w) \/ DeleteReview(w)
  PROVE  OnceInv'
<1>1. PICK p : p = worker[w]
  OBVIOUS
<1>2. Busy(w) /\ ~At(w, "unlink") /\ p.at # "insert"
  BY <1>1 DEF DeleteComments, DeleteReview, Busy, At
<1>3. p.rev \in Reviews
  BY <1>1, <1>2, BusyFacts
<1>4. \A v \in Reviews : links'[v] \subseteq links[v]
  BY <1>1, <1>3 DEF DeleteComments, DeleteReview, BaseInv, RowsOK
<1>5. \E rq : Step(w, rq) /\ rq.at \notin {"move", "unlink"}
  <2>1. CASE DeleteComments(w)
    BY <1>1, <2>1, DropFacts DEF DropDone
  <2>2. CASE DeleteReview(w)
    BY <1>1, <2>2, GoneFacts, EmptiedRest DEF GoneDone, Taken
  <2> QED
    BY <2>1, <2>2
<1> QED
  BY <1>2, <1>4, <1>5, OnceKeptBy

LEMMA NextOnce ==
  ASSUME BaseInv, Single => OnceInv, [Next]_vars, Single'
  PROVE  OnceInv'
<1>1. /\ collisions \subseteq collisions'
      /\ crashes' = 0 /\ {"fix"} \notin collisions
  BY CollisionsGrow DEF Single
<1>2. CASE UNCHANGED vars
  BY <1>2 DEF OnceInv, OnceOrMoved, Between, Apart, Movers, At, vars, rows, Single
<1>3. CASE Next
  <2>1. PICK w \in Workers : Arrive(w) \/ Serve(w) \/ Crash(w)
    BY <1>3 DEF Next
  <2>2. CASE Arrive(w)
    <3>1. PICK rq : Arrived(w, rq)
      BY <2>2, ArriveFacts
    <3>2. /\ worker'[w] = rq /\ \A x \in Workers \ {w} : worker'[x] = worker[x]
      BY <3>1, StartFacts DEF Arrived, BaseInv
    <3>3. UNCHANGED <<rows, crashes>> /\ ~At(w, "unlink")
      BY <3>1 DEF Arrived, Start, At
    <3>4. rq.at \notin {"move", "unlink"}
      BY <3>1 DEF Arrived
    <3> QED
      BY <1>1, <3>2, <3>3, <3>4, OnceStep DEF rows, Single
  <2>3. CASE Serve(w)
    <3>1. crashes' = crashes
      BY <2>3 DEF Serve, Insert, SaveUpdate, Publish, LinkComment, Collect, Move,
                  Unlink, SaveMaster, DeleteComments, DeleteReview, Render
    <3>2. OnceInv
      BY <1>1, <3>1 DEF Single
    <3> QED
      BY <1>1, <2>3, <3>2, SavesOnce, LinkOnce, CollectOnce, MoveOnce, UnlinkOnce,
         DeletesOnce DEF Serve
  <2>4. CASE Crash(w)
    BY <1>1, <2>4, CrashFacts DEF BaseInv, HistoriesOK
  <2> QED
    BY <2>1, <2>2, <2>3, <2>4
<1> QED
  BY <1>2, <1>3

LEMMA PublicStays ==
  ASSUME BaseInv, NonePublic, [Next]_vars, NEW v \in Reviews, IsPublic(v)
  PROVE  /\ reviews'[v] = reviews[v]
         /\ OnceInv => links'[v] = links[v]
<1>1. CASE UNCHANGED vars
  BY <1>1 DEF vars, rows
<1>2. ASSUME NEW w \in Workers, Arrive(w)
      PROVE  reviews'[v] = reviews[v] /\ links'[v] = links[v]
  BY <1>2, ArriveFacts DEF Arrived, rows
<1>3. ASSUME NEW w \in Workers, Serve(w) \/ Crash(w)
      PROVE  reviews'[v] = reviews[v] /\ (OnceInv => links'[v] = links[v])
  <2>1. PICK p : p = worker[w]
    OBVIOUS
  <2>2. Busy(w) /\ \E rq : Confined(w, p, rq)
    BY <1>3, <2>1, ServeConfined
  <2>3. PICK rq : Confined(w, p, rq)
    BY <2>2
  <2>4. v \notin Holds(p) /\ reviews[v] # Unborn
    BY <2>1, <2>2, LiveFacts DEF NonePublic, IsPublic, BaseInv
  <2>5. /\ reviews'[v] = reviews[v]
        /\ p.at # "delete comments" => links'[v] = links[v]
    BY <2>3, <2>4 DEF Confined
  <2>6. ASSUME p.at = "delete comments", OnceInv
        PROVE  links'[v] = links[v]
    <3>1. p.rev \in Reviews /\ p.rev \in Holds(p)
      BY <2>1, <2>2, <2>6, BusyFacts
    <3>2. links' = [u \in Reviews |-> links[u] \ links[p.rev]] \/ links' = links
      BY <1>3, <2>1, <2>6 DEF Serve, Insert, SaveUpdate, Publish, LinkComment, Collect,
           Move, Unlink, SaveMaster, DeleteComments, DeleteReview, Render, Crash, At, rows
    <3>3. links[v] \cap links[p.rev] = {}
      <4> SUFFICES ASSUME NEW c \in links[v] \cap links[p.rev] PROVE FALSE
        OBVIOUS
      <4>1. PICK x \in Workers : /\ At(x, "unlink")
                                 /\ {v, p.rev} = {worker[x].rev, worker[x].master}
        <5>1. PICK u \in Reviews : u = p.rev /\ v # u /\ c \in links[v] \cap links[u]
          BY <2>4, <3>1
        <5>2. OnceOrMoved
          BY <2>6 DEF OnceInv
        <5>3. \E x \in Workers : /\ At(x, "unlink")
                                 /\ {v, u} = {worker[x].rev, worker[x].master}
          BY <5>1, <5>2 DEF OnceOrMoved
        <5> QED
          BY <5>1, <5>3
      <4>2. /\ Busy(x) /\ worker[x].rev \in Holds(worker[x])
            /\ worker[x].master \in Holds(worker[x])
        BY <4>1, OthersAt DEF At
      <4> QED
        BY <4>1, <4>2 DEF NonePublic
    <3> QED
      BY <3>2, <3>3
  <2> QED
    BY <2>5, <2>6
<1> QED
  BY <1>1, <1>2, <1>3 DEF Next

(* While no request that publishes a review meets another one that holds   *)
(* it, no step of fix_duplicate_reviews, Review.delete or Review.save      *)
(* touches a published review; nor does one take a comment from it, when   *)
(* no worker has died and no two consolidations have met.                  *)
THEOREM PublishedAreKept ==
  Spec => PublishedKept
<1> DEFINE IInv == /\ BaseInv
                   /\ ~PublishMet => NonePublic
                   /\ Single => OnceInv
           Stay == ~(\E pair \in collisions' : "publish" \in pair) =>
                     \A v \in Reviews : IsPublic(v) =>
                       /\ reviews'[v] = reviews[v]
                       /\ crashes = 0 /\ {"fix"} \notin collisions =>
                            links'[v] = links[v]
<1>1. Init => IInv
  <2> SUFFICES ASSUME Init PROVE NonePublic /\ OnceInv
    BY InitBase
  <2>1. \A w \in Workers : worker[w].at = "rest"
    BY DEF Init, Rest
  <2>2. \A v \in Reviews : links[v] = {}
    BY DEF Init
  <2> QED
    BY <2>1, <2>2 DEF NonePublic, OnceInv, OnceOrMoved, Between, Apart, Movers, Busy, At
<1>2. IInv /\ [Next]_vars => IInv'
  BY NextBase, NonePublicStep, NextOnce
<1>3. IInv /\ [Next]_vars => Stay
  <2> SUFFICES ASSUME IInv, [Next]_vars, ~PublishMet'
               PROVE  Stay
    BY DEF PublishMet
  <2>1. ~PublishMet
    BY CollisionsGrow DEF PublishMet
  <2> QED
    BY <2>1, PublicStays DEF Single
<1> HIDE DEF IInv
<1> QED
  BY <1>1, <1>2, <1>3, PTL DEF Spec, PublishedKept

(***************************************************************************)
(* A consolidation that nobody meets.                                      *)
(***************************************************************************)
FixMet == \E pair \in collisions : "fix" \in pair

(* The reviews that it has not deleted, and those whose text it has not    *)
(* looked at.                                                              *)
Left(rq) == {rq.master} \cup Elems(rq.rest)
            \cup (IF rq.at = "render" THEN {} ELSE {rq.rev})

ToCollect(rq) == Elems(rq.rest) \cup (IF rq.at = "collect" THEN {rq.rev} ELSE {})

Alone(w) ==
  \A x \in Workers \ {w} : Busy(x) => Holds(worker[x]) \cap worker[w].found = {}

Rid(rq) == \A v \in rq.found \ Left(rq) : ~Live(v) /\ links[v] = {}

TextTaken(rq) == rq.filled \ ToCollect(rq) # {} => rq.row.top

MasterSaved(rq) ==
  /\ Pending(rq.master)
  /\ rq.at \in {"delete comments", "delete review", "render"} =>
       reviews[rq.master] = rq.row

Merged(w) ==
  Alone(w) /\ Rid(worker[w]) /\ TextTaken(worker[w]) /\ MasterSaved(worker[w])

Fixing(w) == Busy(w) /\ worker[w].kind = "fix"

MergeInv == \A w \in Workers : Fixing(w) => Merged(w)

LEMMA LeftFacts ==
  ASSUME NEW p \in Requests, Merging(p), NEW rq, Kept(p, rq)
  PROVE  /\ p.at # "render" /\ rq.at # "render" => Left(rq) = Left(p)
         /\ p.at # "collect" /\ rq.at # "collect" => ToCollect(rq) = ToCollect(p)
         /\ Left(p) \ {Unborn} \subseteq Holds(p)
         /\ Elems(p.rest) \cup {p.master, p.rev} \subseteq Left(p) \cup {p.rev}
BY DEF Kept, Left, ToCollect, Holds, Elems

(* What another worker does, whose request holds none of what was found.   *)
LEMMA OtherMerged ==
  ASSUME BaseInv, NEW w \in Workers, Busy(w), NEW p, p = worker[w],
         NEW rq, Confined(w, p, rq),
         NEW x \in Workers \ {w}, Fixing(x), Merged(x)
  PROVE  Merged(x)'
<1>1. PICK q : q = worker[x]
  OBVIOUS
<1>2. /\ worker'[w] = rq
      /\ \A y \in Workers \ {w} : worker'[y] = worker[y] /\ (Busy(y)' <=> Busy(y))
  BY StepWorkers DEF Confined, BaseInv
<1>3. /\ Shape(q) /\ \A v \in Holds(q) \cup q.found : v \in Reviews /\ reviews[v] # Unborn
      /\ q.master \in Holds(q)
  BY <1>1, BusyFacts DEF Fixing
<1>4. Holds(q) \subseteq q.found
  BY <1>1, <1>3 DEF Fixing, Shape, Merging
<1>5. \A v \in q.found : v \notin Holds(p)
  BY <1>1 DEF Merged, Alone
<1>6. \A v \in q.found : reviews'[v] = reviews[v] /\ links'[v] \subseteq links[v]
  BY <1>3, <1>5 DEF Confined
<1>7. Alone(x)'
  <2> SUFFICES ASSUME NEW y \in Workers \ {x}, Busy(y)'
               PROVE  Holds(worker'[y]) \cap q.found = {}
    BY <1>1, <1>2 DEF Alone
  <2>1. CASE y = w
    <3>1. rq # Rest
      BY <1>2, <2>1 DEF Busy, At, Rest
    <3>2. \A v \in Holds(rq) : v \in Holds(p) \/ reviews[v] = Unborn
      BY <3>1 DEF Confined
    <3> QED
      BY <1>2, <1>3, <1>5, <2>1, <3>2
  <2>2. CASE y # w
    BY <1>1, <1>2, <2>2 DEF Merged, Alone
  <2> QED
    BY <2>1, <2>2
<1>8. Rid(q)'
  BY <1>1, <1>6 DEF Merged, Rid, Live
<1>9. TextTaken(q)
  BY <1>1 DEF Merged
<1>10. MasterSaved(q)'
  BY <1>1, <1>3, <1>4, <1>6 DEF Merged, MasterSaved, Pending, Live
<1> QED
  BY <1>1, <1>2, <1>7, <1>8, <1>9, <1>10 DEF Merged, TextTaken, Rid, MasterSaved, Live, Pending

(* What it does itself, apart from deleting a duplicate.                   *)
LEMMA AloneStays ==
  ASSUME BaseInv, NEW w \in Workers, NEW p, p = worker[w], Alone(w),
         NEW rq, Step(w, rq), rq.found = p.found
  PROVE  Alone(w)'
<1>1. /\ worker'[w] = rq
      /\ \A x \in Workers \ {w} : worker'[x] = worker[x] /\ (Busy(x)' <=> Busy(x))
  BY StepWorkers DEF BaseInv
<1> QED
  BY <1>1 DEF Alone

LEMMA OwnMerged ==
  ASSUME BaseInv, NEW w \in Workers, Fixing(w), Merged(w),
         NEW p, p = worker[w], NEW rq, Step(w, rq), Kept(p, rq),
         p.at # "render", rq.at # "render",
         \A v \in Reviews \ {p.master} :
           reviews'[v] = reviews[v] /\ links'[v] \subseteq links[v],
         TextTaken(rq), MasterSaved(rq)'
  PROVE  Merged(w)'
<1>1. worker'[w] = rq
  BY StepWorkers DEF BaseInv
<1>2. Alone(w)'
  BY AloneStays DEF Merged, Kept
<1>3. p \in Requests /\ Merging(p) /\ \A v \in p.found : v \in Reviews
  BY BusyFacts DEF Fixing, Shape
<1>4. Left(rq) = Left(p) /\ rq.found = p.found
  BY <1>3, LeftFacts DEF Kept
<1>5. Rid(rq)'
  <2> SUFFICES ASSUME NEW v \in p.found \ Left(p)
               PROVE  ~Live(v)' /\ links'[v] = {}
    BY <1>4 DEF Rid, Left, Elems
  <2>1. v \in Reviews \ {p.master} /\ ~Live(v) /\ links[v] = {}
    BY <1>3 DEF Merged, Rid, Left
  <2> QED
    BY <2>1 DEF Live
<1> QED
  BY <1>1, <1>2, <1>5 DEF Merged, TextTaken, MasterSaved, Rid, Live, Pending

LEMMA CollectMerged ==
  ASSUME BaseInv, NEW w \in Workers, Fixing(w), Merged(w), Collect(w)
  PROVE  Merged(w)'
<1>1. PICK p : p = worker[w]
  OBVIOUS
<1>2. PICK rq : CollectDone(w, p, rq)
  BY <1>1, CollectFacts
<1>3. /\ p.at = "collect" /\ rq.at = "move" /\ Step(w, rq) /\ Kept(p, rq)
      /\ UNCHANGED rows /\ (p.row.top \/ p.rev \in p.filled => rq.row.top)
  BY <1>2 DEF CollectDone
<1>4. TextTaken(rq)
  <2>1. ToCollect(p) = ToCollect(rq) \cup {p.rev} /\ rq.filled = p.filled
    BY <1>3 DEF ToCollect, Kept
  <2> QED
    BY <1>1, <1>3, <2>1 DEF Merged, TextTaken
<1>5. MasterSaved(rq)'
  BY <1>1, <1>3 DEF Merged, MasterSaved, Pending, Live, Kept, rows
<1> QED
  BY <1>1, <1>3, <1>4, <1>5, OwnMerged DEF rows

LEMMA MoveMerged ==
  ASSUME BaseInv, NEW w \in Workers, Fixing(w), Merged(w), Move(w), Fixing(w)'
  PROVE  Merged(w)'
<1>1. PICK p : p = worker[w]
  OBVIOUS
<1>2. PICK rq : MoveDone(w, p, rq)
  BY <1>1, MoveFacts
<1>3. p.at = "move" /\ Step(w, rq) /\ UNCHANGED reviews
  BY <1>2 DEF MoveDone
<1>4. rq # Rest
  BY <1>3, StepWorkers DEF BaseInv, Fixing, Busy, At, Rest
<1>5. /\ Kept(p, rq) /\ rq.at = "unlink" /\ rq.row = p.row
      /\ links' = [links EXCEPT ![p.master] = @ \cup {rq.com}]
  BY <1>2, <1>4 DEF MoveDone
<1>6. \A v \in Reviews \ {p.master} : links'[v] \subseteq links[v]
  BY <1>5 DEF BaseInv, RowsOK
<1>7. TextTaken(rq)
  BY <1>1, <1>3, <1>5 DEF Merged, TextTaken, ToCollect, Kept
<1>8. MasterSaved(rq)'
  BY <1>1, <1>3, <1>5 DEF Merged, MasterSaved, Pending, Live, Kept
<1> QED
  BY <1>1, <1>3, <1>5, <1>6, <1>7, <1>8, OwnMerged

LEMMA UnlinkMerged ==
  ASSUME BaseInv, NEW w \in Workers, Fixing(w), Merged(w), Unlink(w)
  PROVE  Merged(w)'
<1>1. PICK p : p = worker[w]
  OBVIOUS
<1>2. PICK rq : UnlinkDone(w, p, rq)
  BY <1>1, UnlinkFacts
<1>3. /\ p.at = "unlink" /\ Step(w, rq) /\ UNCHANGED reviews
      /\ Kept(p, rq) /\ rq.at = "move" /\ rq.row = p.row
      /\ links' = [links EXCEPT ![p.rev] = @ \ {p.com}]
  BY <1>2 DEF UnlinkDone
<1>4. \A v \in Reviews : links'[v] \subseteq links[v]
  BY <1>3 DEF BaseInv, RowsOK
<1>5. TextTaken(rq)
  BY <1>1, <1>3 DEF Merged, TextTaken, ToCollect, Kept
<1>6. MasterSaved(rq)'
  BY <1>1, <1>3 DEF Merged, MasterSaved, Pending, Live, Kept
<1> QED
  BY <1>1, <1>3, <1>4, <1>5, <1>6, OwnMerged

LEMMA SaveMasterMerged ==
  ASSUME BaseInv, NEW w \in Workers, Fixing(w), Merged(w), SaveMaster(w)
  PROVE  Merged(w)'
<1>1. PICK p : p = worker[w]
  OBVIOUS
<1>2. PICK rq : MasterDone(w, p, rq)
  BY <1>1, MasterFacts
<1>3. /\ p.at = "move" /\ Step(w, rq) /\ Save(p.master, p.row)
      /\ Kept(p, rq) /\ rq.at = "delete comments" /\ rq.row = p.row
  BY <1>2 DEF MasterDone
<1>4. p.master \in Reviews /\ p.row \in Row /\ p.row.public = FALSE
  BY <1>1, BusyFacts DEF Fixing
<1>5. /\ links' = links /\ reviews'[p.master] = p.row
      /\ \A v \in Reviews \ {p.master} : reviews'[v] = reviews[v]
  BY <1>3, <1>4, SaveRows DEF BaseInv
<1>6. TextTaken(rq)
  BY <1>1, <1>3 DEF Merged, TextTaken, ToCollect, Kept
<1>7. MasterSaved(rq)'
  BY <1>3, <1>4, <1>5 DEF MasterSaved, Pending, Live, Kept
<1> QED
  BY <1>1, <1>3, <1>5, <1>6, <1>7, OwnMerged

LEMMA DeleteCommentsMerged ==
  ASSUME BaseInv, NEW w \in Workers, Fixing(w), Merged(w), DeleteComments(w)
  PROVE  Merged(w)'
<1>1. PICK p : p = worker[w]
  OBVIOUS
<1>2. PICK rq : DropDone(w, p, rq)
  BY <1>1, DropFacts
<1>3. /\ p.at = "delete comments" /\ Step(w, rq) /\ UNCHANGED reviews
      /\ Kept(p, rq) /\ rq.at = "delete review" /\ rq.row = p.row
      /\ links' = [v \in Reviews |-> links[v] \ links[p.rev]]
  BY <1>2 DEF DropDone
<1>4. \A v \in Reviews : links'[v] \subseteq links[v]
  BY <1>3
<1>5. TextTaken(rq)
  BY <1>1, <1>3 DEF Merged, TextTaken, ToCollect, Kept
<1>6. MasterSaved(rq)'
  BY <1>1, <1>3 DEF Merged, MasterSaved, Pending, Live, Kept
<1> QED
  BY <1>1, <1>3, <1>4, <1>5, <1>6, OwnMerged

LEMMA DeleteReviewMerged ==
  ASSUME BaseInv, NEW w \in Workers, Fixing(w), Merged(w), DeleteReview(w)
  PROVE  Merged(w)'
<1>1. PICK p : p = worker[w]
  OBVIOUS
<1>2. PICK rq : GoneDone(w, p, rq)
  BY <1>1, GoneFacts
<1>3. /\ p.at = "delete review" /\ Step(w, rq)
      /\ reviews' = [reviews EXCEPT ![p.rev] = Deleted]
      /\ before' = [u \in Reviews |-> IF u = p.rev THEN {} ELSE before[u] \ {p.rev}]
      /\ links' = [links EXCEPT ![p.rev] = {}]
      /\ comments' = comments
  BY <1>2 DEF GoneDone
<1>4. /\ p.kind = "fix" /\ p \in Requests /\ Merging(p) /\ p.rev \in Reviews
      /\ p.master \in Reviews /\ p.master # p.rev
      /\ \A v \in p.found : v \in Reviews
  BY <1>1, <1>3, BusyFacts DEF Fixing, Shape
<1>5. /\ ~Live(p.rev)' /\ links'[p.rev] = {}
      /\ \A u \in Reviews \ {p.rev} : reviews'[u] = reviews[u] /\ links'[u] = links[u]
  BY <1>3, <1>4, DeletedRows DEF BaseInv, RowsOK
<1>6. /\ rq.found = p.found /\ rq.filled = p.filled /\ rq.master = p.master
      /\ rq.row = p.row /\ Left(p) \subseteq Left(rq) \cup {p.rev}
      /\ ToCollect(rq) = ToCollect(p)
  <2>1. CASE p.rest = <<>> /\ rq.at = "render" /\ Kept(p, rq) /\ rq.row = p.row
    BY <1>3, <2>1 DEF Kept, Left, ToCollect
  <2>2. CASE Taken(p, rq)
    BY <1>3, <2>2 DEF Taken, Left, ToCollect
  <2> QED
    BY <1>2, <1>4, <2>1, <2>2 DEF GoneDone
<1>7. Alone(w)'
  BY <1>1, <1>3, <1>6, AloneStays DEF Merged
<1>8. \A v \in p.found \ Left(rq) : ~Live(v)' /\ links'[v] = {}
  <2> SUFFICES ASSUME NEW v \in p.found \ Left(rq)
               PROVE  ~Live(v)' /\ links'[v] = {}
    OBVIOUS
  <2>1. CASE v = p.rev
    BY <1>5, <2>1
  <2>2. CASE v # p.rev
    <3>1. v \in p.found \ Left(p)
      BY <1>6, <2>2
    <3>2. v \in Reviews \ {p.rev} /\ ~Live(v) /\ links[v] = {}
      BY <1>1, <1>4, <2>2, <3>1 DEF Merged, Rid
    <3> QED
      BY <1>5, <3>2 DEF Live
  <2> QED
    BY <2>1, <2>2
<1>9. TextTaken(rq)
  BY <1>1, <1>6 DEF Merged, TextTaken
<1>10. Pending(rq.master)' /\ reviews'[rq.master] = rq.row
  BY <1>1, <1>3, <1>4, <1>5, <1>6 DEF Merged, MasterSaved, Pending, Live
<1>11. worker'[w] = rq
  BY <1>3, StepWorkers DEF BaseInv
<1> QED
  BY <1>6, <1>7, <1>8, <1>9, <1>10, <1>11
     DEF Merged, Rid, TextTaken, MasterSaved, Live, Pending

(* A consolidation that begins holds all that it has found.                *)
LEMMA ArriveMerged ==
  ASSUME BaseInv, NEW w \in Workers, NEW rq, Arrived(w, rq),
         ~FixMet', rq.kind = "fix"
  PROVE  Merged(w)'
<1>1. /\ Start(w, rq) /\ Shape(rq) /\ UNCHANGED rows
      /\ \A v \in Holds(rq) : v \in Reviews /\ Pending(v)
      /\ rq.at = "collect" /\ rq.found = PendingReviews
      /\ rq.found = {rq.rev, rq.master} \cup Elems(rq.rest)
      /\ rq.filled = {v \in PendingReviews : reviews[v].top}
      /\ rq.row = reviews[rq.master]
  BY DEF Arrived
<1>2. /\ worker'[w] = rq /\ \A x \in Workers \ {w} : worker'[x] = worker[x]
      /\ \A x \in Workers \ {w} : Busy(x) /\ Holds(worker[x]) \cap Holds(rq) # {} =>
           ({rq.kind, worker[x].kind} \in Harmful =>
              {rq.kind, worker[x].kind} \in collisions')
  BY <1>1, StartFacts DEF BaseInv, Start, Meeting
<1>3. rq.found = Holds(rq)
  BY <1>1, PendingAssumption DEF Holds, Elems, PendingReviews
<1>4. Alone(w)'
  <2> SUFFICES ASSUME NEW x \in Workers \ {w}, Busy(x)',
                      Holds(worker'[x]) \cap rq.found # {}
               PROVE  FALSE
    BY <1>2 DEF Alone
  <2>1. Busy(x) /\ Holds(worker[x]) \cap Holds(rq) # {}
    BY <1>2, <1>3 DEF Busy, At
  <2>2. worker[x].kind \in Kinds
    <3>1. Shape(worker[x])
      BY <2>1 DEF BaseInv, WorkersOK
    <3> QED
      BY <3>1 DEF Shape, Requests
  <2>3. {rq.kind, worker[x].kind} \in Harmful /\ "fix" \in {rq.kind, worker[x].kind}
    BY <2>2 DEF Harmful
  <2> QED
    BY <1>2, <2>1, <2>3 DEF FixMet
<1>5. Rid(rq)'
  BY <1>1 DEF Rid, Left, Elems
<1>6. TextTaken(rq)
  BY <1>1 DEF TextTaken, ToCollect
<1>7. MasterSaved(rq)'
  BY <1>1 DEF MasterSaved, Pending, Live, PendingReviews, rows
<1> QED
  BY <1>2, <1>4, <1>5, <1>6, <1>7 DEF Merged, Rid, TextTaken, MasterSaved, Live, Pending

LEMMA ArriveOthersMerged ==
  ASSUME BaseInv, NEW w \in Workers, NEW rq, Arrived(w, rq), ~FixMet',
         NEW x \in Workers \ {w}, Fixing(x), Merged(x)
  PROVE  Merged(x)'
<1>1. PICK q : q = worker[x]
  OBVIOUS
<1>2. /\ Start(w, rq) /\ Shape(rq) /\ UNCHANGED rows
      /\ \A v \in Holds(rq) : v \in Reviews /\ Pending(v)
  BY DEF Arrived
<1>3. /\ worker'[w] = rq /\ \A y \in Workers \ {w} : worker'[y] = worker[y]
      /\ \A y \in Workers \ {w} : Busy(y) /\ Holds(worker[y]) \cap Holds(rq) # {} =>
           ({rq.kind, worker[y].kind} \in Harmful =>
              {rq.kind, worker[y].kind} \in collisions')
  BY <1>2, StartFacts DEF BaseInv, Start, Meeting
<1>4. q \in Requests /\ Merging(q) /\ Shape(q)
  BY <1>1, BusyFacts DEF Fixing, Shape
<1>5. Left(q) \ {Unborn} \subseteq Holds(q)
  BY DEF Left, Holds, Elems
<1>6. Holds(rq) \cap q.found = {}
  <2> SUFFICES ASSUME NEW v \in Holds(rq), v \in q.found PROVE FALSE
    OBVIOUS
  <2>1. v \in Reviews /\ Live(v)
    BY <1>2 DEF Pending
  <2>2. v \in Left(q)
    BY <1>1, <2>1 DEF Merged, Rid
  <2>3. v \in Holds(q)
    BY <1>5, <2>1, <2>2, PendingAssumption
  <2>4. rq.kind \in Kinds /\ q.kind = "fix" /\ Busy(x)
    BY <1>1, <1>2 DEF Shape, Requests, Fixing
  <2>5. /\ {q.kind, rq.kind} \in Harmful /\ {q.kind, rq.kind} = {rq.kind, q.kind}
        /\ "fix" \in {rq.kind, q.kind}
    BY <2>4 DEF Harmful
  <2> QED
    BY <1>1, <1>3, <2>3, <2>4, <2>5 DEF FixMet
<1>7. Alone(x)'
  <2> SUFFICES ASSUME NEW y \in Workers \ {x}, Busy(y)'
               PROVE  Holds(worker'[y]) \cap q.found = {}
    BY <1>1, <1>3 DEF Alone
  <2>1. CASE y = w
    BY <1>3, <1>6, <2>1
  <2>2. CASE y # w
    BY <1>1, <1>3, <2>2 DEF Merged, Alone, Busy, At
  <2> QED
    BY <2>1, <2>2
<1>8. Rid(q) /\ TextTaken(q) /\ MasterSaved(q)
  BY <1>1 DEF Merged
<1>9. worker'[x] = q
  BY <1>1, <1>3
<1> QED
  BY <1>2, <1>7, <1>8, <1>9 DEF Merged, Rid, TextTaken, MasterSaved, Live, Pending, rows

LEMMA MergedStays ==
  ASSUME BaseInv, NEW w \in Workers, Fixing(w), Merged(w), Serve(w), Fixing(w)'
  PROVE  Merged(w)'
<1>1. PICK p : p = worker[w]
  OBVIOUS
<1>2. Shape(p) /\ p.kind = "fix"
  BY <1>1, BusyFacts DEF Fixing
<1>3. p.at \notin {"insert", "save", "publish", "link"}
  BY <1>2 DEF Shape
<1>4. ~(Insert(w) \/ SaveUpdate(w) \/ Publish(w) \/ LinkComment(w))
  BY <1>1, <1>3 DEF Insert, SaveUpdate, Publish, LinkComment, At
<1>5. ~Render(w)
  BY RenderFacts, StepWorkers DEF BaseInv, Fixing, Busy, At, Rest
<1> QED
  BY <1>4, <1>5, CollectMerged, MoveMerged, UnlinkMerged, SaveMasterMerged,
     DeleteCommentsMerged, DeleteReviewMerged DEF Serve

LEMMA NextMerged ==
  ASSUME BaseInv, ~FixMet => MergeInv, [Next]_vars, ~FixMet'
  PROVE  MergeInv'
<1>1. MergeInv
  BY CollisionsGrow DEF FixMet
<1>2. CASE UNCHANGED vars
  BY <1>1, <1>2 DEF MergeInv, Fixing, Merged, Alone, Rid, TextTaken, MasterSaved,
                    Pending, Live, Busy, At, vars, rows
<1>3. ASSUME NEW w \in Workers, Arrive(w)
      PROVE  MergeInv'
  <2>1. PICK rq : Arrived(w, rq)
    BY <1>3, ArriveFacts
  <2>2. worker'[w] = rq /\ \A x \in Workers \ {w} : worker'[x] = worker[x]
    BY <2>1, StartFacts DEF Arrived, BaseInv
  <2> SUFFICES ASSUME NEW x \in Workers, Fixing(x)' PROVE Merged(x)'
    BY DEF MergeInv
  <2>3. CASE x = w
    <3>1. rq.kind = "fix"
      BY <2>2, <2>3 DEF Fixing
    <3> QED
      BY <2>1, <2>3, <3>1, ArriveMerged
  <2>4. CASE x # w
    <3>1. Fixing(x) /\ Merged(x)
      BY <1>1, <2>2, <2>4 DEF MergeInv, Fixing, Busy, At
    <3> QED
      BY <2>1, <2>4, <3>1, ArriveOthersMerged
  <2> QED
    BY <2>3, <2>4
<1>4. ASSUME NEW w \in Workers, Serve(w) \/ Crash(w)
      PROVE  MergeInv'
  <2>1. PICK p : p = worker[w]
    OBVIOUS
  <2>2. Busy(w) /\ \E rq : Confined(w, p, rq)
    BY <1>4, <2>1, ServeConfined
  <2>3. PICK rq : Confined(w, p, rq)
    BY <2>2
  <2>4. /\ worker'[w] = rq
        /\ \A x \in Workers \ {w} : worker'[x] = worker[x] /\ (Busy(x)' <=> Busy(x))
    BY <2>3, StepWorkers DEF Confined, BaseInv
  <2> SUFFICES ASSUME NEW x \in Workers, Fixing(x)' PROVE Merged(x)'
    BY DEF MergeInv
  <2>5. CASE x = w
    <3>1. rq # Rest
      BY <2>4, <2>5 DEF Fixing, Busy, At, Rest
    <3>2. Fixing(w) /\ Merged(w)
      BY <1>1, <2>1, <2>2, <2>3, <2>4, <2>5, <3>1 DEF MergeInv, Fixing, Confined
    <3>3. ~Crash(w)
      BY <2>4, <2>5, CrashFacts, StepWorkers DEF BaseInv, Fixing, Busy, At, Rest
    <3> QED
      BY <1>4, <2>5, <3>2, <3>3, MergedStays
  <2>6. CASE x # w
    <3>1. Fixing(x) /\ Merged(x)
      BY <1>1, <2>4, <2>6 DEF MergeInv, Fixing
    <3> QED
      BY <2>1, <2>2, <2>3, <2>6, <3>1, OtherMerged
  <2> QED
    BY <2>5, <2>6
<1> QED
  BY <1>2, <1>3, <1>4 DEF Next

(* Of the reviews that fix_duplicate_reviews has found, it leaves one when *)
(* it ends, still pending, and with text if any of them had some, when no  *)
(* other request held one of them.                                         *)
THEOREM ConsolidationsComplete ==
  Spec => []Consolidated
<1> DEFINE IInv == BaseInv /\ (~FixMet => MergeInv)
<1>1. Init => IInv
  <2> SUFFICES ASSUME Init PROVE MergeInv
    BY InitBase
  <2>1. \A w \in Workers : worker[w].at = "rest"
    BY DEF Init, Rest
  <2> QED
    BY <2>1 DEF MergeInv, Fixing, Busy, At
<1>2. IInv /\ [Next]_vars => IInv'
  BY NextBase, NextMerged
<1>3. IInv => Consolidated
  <2> SUFFICES ASSUME BaseInv, MergeInv, NEW w \in Workers, At(w, "render"),
                      NEW rq, rq = worker[w]
               PROVE  /\ Pending(rq.master)
                      /\ rq.filled # {} => reviews[rq.master].top
                      /\ \A v \in rq.found \ {rq.master} : ~Live(v) /\ links[v] = {}
    BY DEF Consolidated, FixMet
  <2>1. Busy(w) /\ rq.at = "render"
    BY DEF Busy, At
  <2>2. Shape(rq)
    BY <2>1 DEF BaseInv, WorkersOK
  <2>3. rq.kind = "fix" /\ rq.rest = <<>>
    BY <2>1, <2>2 DEF Shape, FixSteps, Merging
  <2>4. Merged(w)
    BY <2>1, <2>3 DEF MergeInv, Fixing
  <2>5. Left(rq) = {rq.master} /\ ToCollect(rq) = {}
    BY <2>1, <2>3, NothingIn DEF Left, ToCollect
  <2> QED
    BY <2>1, <2>4, <2>5 DEF Merged, Rid, TextTaken, MasterSaved
<1> HIDE DEF IInv
<1> QED
  BY <1>1, <1>2, <1>3, PTL DEF Spec
===============================================================================
