--------------------------- MODULE Posting_proofs ---------------------------
(***************************************************************************)
(* Proofs about Posting, for any sets of review requests, workers, commit  *)
(* IDs and change numbers.                                                 *)
(***************************************************************************)
EXTENDS Posting, FiniteSetTheorems, TLAPS

(***************************************************************************)
(* Types.                                                                  *)
(***************************************************************************)

(* Every number is at most the highest one that was given.                 *)
Bounded == \A r \in Requests : Live(r) => rr[r].local <= given

TypeInv == TypeOK /\ Bounded

(* A bounded, not empty set of numbers has a maximum.                      *)
LEMMA MaxExists ==
  ASSUME NEW S \in SUBSET Nat, S # {}, NEW n \in Nat, \A x \in S : x <= n
  PROVE  Max(S) \in S /\ \A x \in S : x <= Max(S)
<1> DEFINE T == {m \in Nat : \E x \in S : m = n - x}
<1>1. T \subseteq Nat /\ T # {}
  <2>1. PICK x \in S : TRUE
    OBVIOUS
  <2>2. n - x \in Nat
    BY <2>1
  <2>3. QED
    BY <2>1, <2>2
<1>2. PICK m \in T : \A k \in T : ~(<<k, m>> \in OpToRel(<, Nat))
  <2> HIDE DEF T
  <2> QED
    BY <1>1, NatLessThanWellFounded, WFMin
<1>3. \A k \in T : m <= k
  <2>1. SUFFICES ASSUME NEW k \in T, ~(m <= k) PROVE FALSE
    OBVIOUS
  <2>2. k \in Nat /\ m \in Nat
    OBVIOUS
  <2>3. k < m
    BY <2>1, <2>2
  <2>4. <<k, m>> \in OpToRel(<, Nat)
    BY <2>2, <2>3, Zenon DEF OpToRel
  <2>5. QED
    BY <1>2, <2>4
<1>4. PICK y \in S : m = n - y
  BY <1>2
<1>5. \A x \in S : x <= y
  <2>1. SUFFICES ASSUME NEW x \in S PROVE x <= y
    OBVIOUS
  <2>2. n - x \in T
    OBVIOUS
  <2>3. m <= n - x
    BY <1>3, <2>2
  <2>4. QED
    BY <1>4, <2>3
<1>6. \E z \in S : \A x \in S : z >= x
  BY <1>5
<1>7. Max(S) \in S /\ \A x \in S : Max(S) >= x
  BY <1>6 DEF Max
<1>8. QED
  BY <1>7

LEMMA MaxOfTwo ==
  ASSUME NEW a \in Nat, NEW b \in Nat
  PROVE  Max({a, b}) \in {a, b} /\ a <= Max({a, b}) /\ b <= Max({a, b})
<1>1. CASE a <= b
  <2>1. b \in {a, b} /\ \A x \in {a, b} : b >= x
    BY <1>1
  <2>2. Max({a, b}) \in {a, b} /\ \A x \in {a, b} : Max({a, b}) >= x
    BY <2>1 DEF Max
  <2>3. QED
    BY <2>2
<1>2. CASE b <= a
  <2>1. a \in {a, b} /\ \A x \in {a, b} : a >= x
    BY <1>2
  <2>2. Max({a, b}) \in {a, b} /\ \A x \in {a, b} : Max({a, b}) >= x
    BY <2>1 DEF Max
  <2>3. QED
    BY <2>2
<1>3. QED
  BY <1>1, <1>2

(* The number that is read is above all that are in use.                   *)
LEMMA MaxLocalType ==
  ASSUME TypeInv
  PROVE  /\ MaxLocal \in Nat /\ MaxLocal <= given
         /\ \A r \in Requests : Live(r) => rr[r].local <= MaxLocal
<1> DEFINE S == {rr[r].local : r \in {s \in Requests : Live(s)}} \cup {0}
<1>1. S \in SUBSET Nat /\ S # {}
  BY DEF Live, Row
<1>2. given \in Nat /\ \A x \in S : x <= given
  BY DEF TypeInv, TypeOK, Bounded
<1>3. \A r \in Requests : Live(r) => rr[r].local \in S
  OBVIOUS
<1>4. MaxLocal = Max(S)
  BY DEF MaxLocal
<1> HIDE DEF S
<1>5. Max(S) \in S /\ \A x \in S : x <= Max(S)
  BY <1>1, <1>2, MaxExists
<1>6. QED
  BY <1>1, <1>2, <1>3, <1>4, <1>5

(* What workers are doing, by the fields that requests have.               *)
LEMMA RequestFields ==
  ASSUME TypeOK, NEW w \in Workers, requests[w] # Idle
  PROVE  /\ requests[w] \in Request
         /\ requests[w].r \in Requests
         /\ requests[w].c \in Commits \cup {None}
         /\ At(w, "edit") \/ requests[w].op \in Stages
         /\ At(w, "edit") =>
              /\ requests[w] \in [op : {"edit"}, r : Requests, c : Commits,
                                  draft : {"none", "held", "gone"}]
              /\ requests[w].c \in Commits
         /\ requests[w].op \in Stages =>
              /\ requests[w] \in [op : Stages, r : Requests,
                                  c : Commits \cup {None}, local : Nat]
              /\ requests[w].local \in Nat
  BY DEF TypeOK, Request, Stages, At

(* The fields of a row.                                                    *)
LEMMA RowFields ==
  ASSUME NEW r \in Requests, Live(r)
  PROVE  /\ rr[r] \in Row /\ rr[r].local \in Nat
         /\ rr[r].commit \in Commits \cup {None}
         /\ rr[r].number \in Numbers \cup {None}
         /\ rr[r].draft \in Commits \cup {None, NoDraft}
         /\ rr[r].discarded \in BOOLEAN
  BY DEF Live, Row

(* A change of one row keeps the rows of their types.                      *)
LEMMA RowChange ==
  ASSUME TypeInv, NEW r \in Requests, NEW row \in Row \cup {Absent, Deleted},
         rr' = [rr EXCEPT ![r] = row],
         row \in Row => row.local <= given',
         given <= given', given' \in Nat
  PROVE  /\ rr' \in [Requests -> Row \cup {Absent, Deleted}]
         /\ rr'[r] = row
         /\ \A s \in Requests \ {r} : rr'[s] = rr[s]
         /\ Bounded'
<1>1. /\ rr' \in [Requests -> Row \cup {Absent, Deleted}]
      /\ rr'[r] = row
      /\ \A s \in Requests \ {r} : rr'[s] = rr[s]
  BY DEF TypeInv, TypeOK
<1>2. ASSUME NEW s \in Requests, Live(s)'
      PROVE  rr'[s].local <= given'
  <2>1. CASE s = r
    BY <1>1, <1>2, <2>1 DEF Live
  <2>2. CASE s # r
    <3>1. Live(s) /\ rr'[s] = rr[s]
      BY <1>1, <1>2, <2>2 DEF Live
    <3>2. rr[s].local \in Nat /\ rr[s].local <= given /\ given \in Nat
      BY <3>1, RowFields DEF TypeInv, TypeOK, Bounded
    <3>3. QED
      BY <3>1, <3>2
  <2>3. QED
    BY <2>1, <2>2
<1>3. QED
  BY <1>1, <1>2 DEF Bounded

(* An operation on a row that a worker does not serve.                     *)
LEMMA GoesType ==
  ASSUME TypeOK, NEW r, DraftGoes(r)
  PROVE  /\ requests' \in [Workers -> Request \cup {Idle}]
         /\ \A w \in Workers :
              /\ requests'[w] = Idle <=> requests[w] = Idle
              /\ requests[w] # Idle =>
                   /\ requests'[w].op = requests[w].op
                   /\ requests'[w].r = requests[w].r
                   /\ requests'[w].c = requests[w].c
                   /\ ~At(w, "edit") => requests'[w] = requests[w]
<1> DEFINE Goes(w) == At(w, "edit") /\ requests[w].r = r
                                    /\ requests[w].draft = "held"
<1>1. ASSUME NEW w \in Workers
      PROVE  /\ requests'[w] \in Request \cup {Idle}
             /\ requests'[w] = Idle <=> requests[w] = Idle
             /\ requests[w] # Idle =>
                  /\ requests'[w].op = requests[w].op
                  /\ requests'[w].r = requests[w].r
                  /\ requests'[w].c = requests[w].c
                  /\ ~At(w, "edit") => requests'[w] = requests[w]
  <2>1. CASE ~Goes(w)
    <3>1. requests'[w] = requests[w]
      BY <2>1 DEF DraftGoes
    <3>2. QED
      BY <3>1 DEF TypeOK
  <2>2. CASE Goes(w)
    <3>1. requests'[w] = [requests[w] EXCEPT !.draft = "gone"]
      BY <2>2 DEF DraftGoes
    <3>2. requests[w] # Idle
      BY <2>2 DEF At
    <3>3. requests[w] \in [op : {"edit"}, r : Requests, c : Commits,
                           draft : {"none", "held", "gone"}]
      BY <2>2, <3>2, RequestFields
    <3>4. /\ requests'[w] \in Request
          /\ requests'[w].op = requests[w].op
          /\ requests'[w].r = requests[w].r
          /\ requests'[w].c = requests[w].c
      BY <3>1, <3>3 DEF Request
    <3>5. QED
      BY <2>2, <3>2, <3>4, PostingAssumption
  <2>3. QED
    BY <2>1, <2>2
<1>2. requests' = [w \in Workers |-> requests'[w]]
  BY DEF DraftGoes
<1>3. QED
  BY <1>1, <1>2

(* What a worker begins, goes on with and ends.                            *)
LEMMA BeginType ==
  ASSUME TypeOK, NEW w \in Workers, NEW q \in Request, Begin(w, q)
  PROVE  /\ requests' \in [Workers -> Request \cup {Idle}]
         /\ requests[w] = Idle /\ requests'[w] = q /\ q # Idle
         /\ \A v \in Workers \ {w} : requests'[v] = requests[v]
  BY PostingAssumption DEF Begin, TypeOK

LEMMA EndType ==
  ASSUME TypeOK, NEW w \in Workers, End(w)
  PROVE  /\ requests' \in [Workers -> Request \cup {Idle}]
         /\ requests'[w] = Idle
         /\ \A v \in Workers \ {w} : requests'[v] = requests[v]
  BY DEF End, TypeOK

LEMMA GoType ==
  ASSUME TypeOK, NEW w \in Workers, NEW op \in Stages, Go(w, op),
         requests[w] # Idle, requests[w].op \in Stages
  PROVE  /\ requests' \in [Workers -> Request \cup {Idle}]
         /\ requests'[w] # Idle /\ requests'[w].op = op
         /\ requests'[w].r = requests[w].r
         /\ requests'[w].c = requests[w].c
         /\ requests'[w].local = requests[w].local
         /\ \A v \in Workers \ {w} : requests'[v] = requests[v]
<1>1. requests[w] \in [op : Stages, r : Requests,
                       c : Commits \cup {None}, local : Nat]
  BY RequestFields
<1>2. requests' = [requests EXCEPT ![w] = [requests[w] EXCEPT !.op = op]]
  BY DEF Go
<1>3. /\ [requests[w] EXCEPT !.op = op] \in Request
      /\ [requests[w] EXCEPT !.op = op].op = op
      /\ [requests[w] EXCEPT !.op = op].r = requests[w].r
      /\ [requests[w] EXCEPT !.op = op].c = requests[w].c
      /\ [requests[w] EXCEPT !.op = op].local = requests[w].local
  BY <1>1 DEF Request
<1>4. QED
  BY <1>2, <1>3, PostingAssumption DEF TypeOK

LEMMA CreateType ==
  ASSUME TypeInv, NEW w \in Workers, NEW r \in Requests,
         NEW c \in Commits \cup {None}, Create(w, r, c)
  PROVE  TypeInv'
<1> DEFINE q == [op |-> "insert", r |-> r, c |-> c, local |-> 0]
<1>1. q \in Request /\ Begin(w, q)
  BY DEF Create, Request, Stages
<1>2. requests' \in [Workers -> Request \cup {Idle}]
  BY <1>1, BeginType DEF TypeInv
<1>3. UNCHANGED <<rr, orphans, given>> /\ harm' \subseteq Harms
  BY DEF Create, Met, Harms, TypeInv, TypeOK
<1>4. QED
  BY <1>2, <1>3 DEF TypeInv, TypeOK, Bounded, Live

LEMMA EditDraftType ==
  ASSUME TypeInv, NEW w \in Workers, NEW r \in Requests,
         NEW c \in Commits, EditDraft(w, r, c)
  PROVE  TypeInv'
<1> DEFINE q == [op |-> "edit", r |-> r, c |-> c,
                 draft |-> IF rr[r].draft = NoDraft THEN "none" ELSE "held"]
<1>1. q \in Request /\ Begin(w, q)
  BY DEF EditDraft, Request
<1>2. requests' \in [Workers -> Request \cup {Idle}]
  BY <1>1, BeginType DEF TypeInv
<1>3. UNCHANGED <<rr, orphans, given>> /\ harm' \subseteq Harms
  BY DEF EditDraft, Met, Harms, TypeInv, TypeOK
<1>4. QED
  BY <1>2, <1>3 DEF TypeInv, TypeOK, Bounded, Live

(* The row that an insertion makes.                                        *)
Inserted(c) == [commit |-> c, number |-> NumberOf(c), local |-> 0,
                discarded |-> FALSE, draft |-> NoDraft]

LEMMA InsertType ==
  ASSUME TypeInv, NEW w \in Workers, Insert(w)
  PROVE  TypeInv' /\ rr'[requests[w].r] = Inserted(requests[w].c)
                  /\ Inserted(requests[w].c) \in Row
                  /\ \A s \in Requests \ {requests[w].r} : rr'[s] = rr[s]
<1> DEFINE r == requests[w].r
           row == Inserted(requests[w].c)
<1>1. /\ requests[w] # Idle /\ requests[w].op = "insert"
      /\ r \in Requests /\ requests[w].c \in Commits \cup {None}
  BY RequestFields DEF Insert, At, TypeInv
<1>2. row \in Row /\ row.local = 0
  BY <1>1 DEF Inserted, NumberOf, Row
<1>3. rr' = [rr EXCEPT ![r] = row]
  BY DEF Insert, Inserted
<1>4. /\ UNCHANGED <<orphans, given, harm>> /\ given \in Nat
      /\ 0 <= given' /\ given <= given'
  BY DEF Insert, TypeInv, TypeOK
<1> HIDE DEF r, row
<1>5. /\ rr' \in [Requests -> Row \cup {Absent, Deleted}]
      /\ rr'[r] = row
      /\ \A s \in Requests \ {r} : rr'[s] = rr[s]
      /\ Bounded'
  BY <1>1, <1>2, <1>3, <1>4, RowChange
<1>6. requests' \in [Workers -> Request \cup {Idle}]
  BY <1>1, GoType DEF Insert, TypeInv, Stages
<1>7. QED
  BY <1>2, <1>4, <1>5, <1>6 DEF TypeInv, TypeOK, r, row

LEMMA ReadNumberType ==
  ASSUME TypeInv, NEW w \in Workers, ReadNumber(w)
  PROVE  /\ TypeInv'
         /\ requests'[w] # Idle /\ requests'[w].op = "save number"
         /\ requests'[w].r = requests[w].r
         /\ requests'[w].local = MaxLocal + 1
         /\ \A v \in Workers \ {w} : requests'[v] = requests[v]
<1> DEFINE q == [requests[w] EXCEPT !.op = "save number",
                                    !.local = MaxLocal + 1]
<1>1. requests[w] \in [op : Stages, r : Requests,
                       c : Commits \cup {None}, local : Nat]
  BY RequestFields DEF ReadNumber, At, TypeInv, Stages
<1>2. MaxLocal + 1 \in Nat
  BY MaxLocalType
<1>3. /\ q \in Request /\ q.op = "save number" /\ q.r = requests[w].r
      /\ q.local = MaxLocal + 1
  BY <1>1, <1>2 DEF Request, Stages
<1>4. requests' = [requests EXCEPT ![w] = q]
  BY DEF ReadNumber
<1> HIDE DEF q
<1>5. /\ requests' \in [Workers -> Request \cup {Idle}]
      /\ requests'[w] = q /\ q # Idle
      /\ \A v \in Workers \ {w} : requests'[v] = requests[v]
  BY <1>3, <1>4, PostingAssumption DEF TypeInv, TypeOK
<1>6. UNCHANGED <<rr, orphans, given>> /\ harm' \subseteq Harms
  BY DEF ReadNumber, Harms, TypeInv, TypeOK
<1>7. QED
  BY <1>3, <1>5, <1>6 DEF TypeInv, TypeOK, Bounded, Live

(* The commit IDs that a review request stands for, that its draft does,   *)
(* and that it takes when it is shown.                                     *)
Held(r) == IF Live(r)
             THEN {rr[r].commit, rr[r].number, rr[r].draft} \cap Commits
             ELSE {}

(* A row that is edited keeps its number on the Local Site.                *)
LEMMA RowEdit ==
  ASSUME TypeInv, NEW r \in Requests, Live(r),
         NEW row \in Row, row.local = rr[r].local, UNCHANGED given,
         rr' = [rr EXCEPT ![r] = row]
  PROVE  /\ rr' \in [Requests -> Row \cup {Absent, Deleted}]
         /\ rr'[r] = row /\ Live(r)'
         /\ \A s \in Requests \ {r} : rr'[s] = rr[s]
         /\ Bounded'
<1>1. given \in Nat /\ row.local <= given' /\ given <= given' /\ given' \in Nat
  BY RowFields DEF TypeInv, TypeOK, Bounded
<1>2. QED
  BY <1>1, RowChange DEF Live

(* The row of r is edited, or deleted when it has a number, and claims no  *)
(* commit ID that it did not claim before but these.                       *)
Edits(r, claims) ==
  /\ \A s \in Requests \ {r} : rr'[s] = rr[s]
  /\ ~Live(r) => rr'[r] = rr[r]
  /\ Live(r) => \/ Addressed(r) /\ rr'[r] = Deleted
                \/ rr'[r] \in Row /\ rr'[r].local = rr[r].local
  /\ Held(r)' \subseteq Held(r) \cup claims

LEMMA SaveNumberType ==
  ASSUME TypeInv, NEW w \in Workers, SaveNumber(w),
         NEW r \in Requests, requests[w].r = r,
         NEW n \in Nat, requests[w].local = n, Live(r)
  PROVE  /\ TypeInv'
         /\ \A s \in Requests \ {r} : rr'[s] = rr[s]
         /\ Live(r)' /\ Held(r)' = Held(r)
         /\ \/ /\ \E s \in Requests : Live(s) /\ rr[s].local = n
               /\ rr' = rr /\ End(w)
            \/ /\ ~ \E s \in Requests : Live(s) /\ rr[s].local = n
               /\ rr'[r].local = n /\ Go(w, "draft")
<1> DEFINE row == [rr[r] EXCEPT !.local = n]
<1>1. requests[w] # Idle /\ requests[w].op = "save number"
  BY DEF SaveNumber, At, TypeInv, Stages
<1>2. /\ row \in Row /\ row.local = n
      /\ row.commit = rr[r].commit /\ row.number = rr[r].number
      /\ row.draft = rr[r].draft
  BY <1>1, RowFields DEF Row
<1>3. CASE \E s \in Requests : Live(s) /\ rr[s].local = n
  <2>1. /\ UNCHANGED <<rr, given, orphans, harm>> /\ End(w)
    BY <1>3 DEF SaveNumber
  <2>2. requests' \in [Workers -> Request \cup {Idle}]
    BY <2>1, EndType DEF TypeInv
  <2>3. QED
    BY <1>3, <2>1, <2>2 DEF TypeInv, TypeOK, Bounded, Live, Held
<1>4. CASE ~ \E s \in Requests : Live(s) /\ rr[s].local = n
  <2>1. /\ rr' = [rr EXCEPT ![r] = row] /\ Go(w, "draft")
        /\ given' = Max({given, n}) /\ UNCHANGED <<orphans, harm>>
    BY <1>1, <1>4 DEF SaveNumber
  <2> HIDE DEF row
  <2>2. given \in Nat
    BY DEF TypeInv, TypeOK
  <2>3. given' \in {given, n} /\ given <= given' /\ n <= given'
    BY <2>1, <2>2, MaxOfTwo
  <2>4. given' \in Nat
    BY <2>2, <2>3
  <2>5. requests' \in [Workers -> Request \cup {Idle}]
    BY <1>1, <2>1, GoType DEF TypeInv, Stages
  <2>6. /\ rr' \in [Requests -> Row \cup {Absent, Deleted}]
        /\ rr'[r] = row
        /\ \A s \in Requests \ {r} : rr'[s] = rr[s]
        /\ Bounded'
    BY <1>1, <1>2, <2>1, <2>3, <2>4, RowChange
  <2>7. Live(r)'
    BY <1>2, <2>6 DEF Live
  <2>8. Held(r)' = Held(r)
    BY <1>2, <2>6, <2>7 DEF Held
  <2>9. TypeInv'
    BY <2>1, <2>4, <2>5, <2>6 DEF TypeInv, TypeOK
  <2>10. QED
    BY <1>2, <1>4, <2>1, <2>6, <2>7, <2>8, <2>9
<1>5. QED
  BY <1>3, <1>4

(* What an operation that edits the row of r leaves behind.                *)
LEMMA EditType ==
  ASSUME TypeInv, NEW r \in Requests, Live(r),
         NEW row \in Row, row.local = rr[r].local,
         rr' = [rr EXCEPT ![r] = row],
         UNCHANGED <<orphans, given>>, harm' \subseteq Harms,
         requests' \in [Workers -> Request \cup {Idle}],
         NEW claims,
         {row.commit, row.number, row.draft} \cap Commits
           \subseteq Held(r) \cup claims
  PROVE  TypeInv' /\ Edits(r, claims)
<1>1. /\ rr' \in [Requests -> Row \cup {Absent, Deleted}]
      /\ rr'[r] = row /\ Live(r)'
      /\ \A s \in Requests \ {r} : rr'[s] = rr[s]
      /\ Bounded'
  BY RowEdit
<1>2. Held(r)' \subseteq Held(r) \cup claims
  BY <1>1 DEF Held
<1>3. QED
  BY <1>1, <1>2 DEF TypeInv, TypeOK, Edits, Live

(* An operation that leaves all rows alone.                                *)
LEMMA RowsAlone ==
  ASSUME TypeInv, UNCHANGED <<rr, given>>, orphans' \in BOOLEAN,
         harm' \subseteq Harms,
         requests' \in [Workers -> Request \cup {Idle}]
  PROVE  TypeInv' /\ \A r \in Requests, claims \in SUBSET Commits :
                       Edits(r, claims)
  BY DEF TypeInv, TypeOK, Bounded, Live, Held, Edits

LEMMA RefuseInsertType ==
  ASSUME TypeInv, NEW w \in Workers, RefuseInsert(w)
  PROVE  TypeInv'
<1>1. requests' \in [Workers -> Request \cup {Idle}]
  BY EndType DEF RefuseInsert, TypeInv
<1>2. UNCHANGED <<rr, given, harm>> /\ orphans' \in BOOLEAN
  BY DEF RefuseInsert, TypeInv, TypeOK
<1>3. QED
  BY <1>1, <1>2 DEF TypeInv, TypeOK, Bounded, Live

LEMMA DieType ==
  ASSUME TypeInv, NEW w \in Workers, Die(w)
  PROVE  TypeInv'
<1>1. requests' \in [Workers -> Request \cup {Idle}]
  BY EndType DEF Die, TypeInv
<1>2. UNCHANGED <<rr, orphans, given>> /\ harm' \subseteq Harms
  BY DEF Die, Harms, TypeInv, TypeOK
<1>3. QED
  BY <1>1, <1>2 DEF TypeInv, TypeOK, Bounded, Live

LEMMA CreateDraftType ==
  ASSUME TypeInv, NEW w \in Workers, CreateDraft(w),
         NEW r \in Requests, requests[w].r = r
  PROVE  TypeInv' /\ Edits(r, {}) /\ End(w)
<1> DEFINE row == [rr[r] EXCEPT !.draft = rr[r].commit]
<1>1. /\ requests' \in [Workers -> Request \cup {Idle}] /\ End(w)
      /\ UNCHANGED <<orphans, given, harm>> /\ harm' \subseteq Harms
  BY EndType DEF CreateDraft, TypeInv, TypeOK
<1>2. CASE Live(r) /\ rr[r].draft = NoDraft
  <2>1. /\ row \in Row /\ row.local = rr[r].local
        /\ row.commit = rr[r].commit /\ row.number = rr[r].number
        /\ row.draft = rr[r].commit
    BY <1>2, RowFields DEF Row
  <2>2. rr' = [rr EXCEPT ![r] = row]
    BY <1>2 DEF CreateDraft
  <2>3. {row.commit, row.number, row.draft} \cap Commits
          \subseteq Held(r) \cup {}
    BY <1>2, <2>1 DEF Held
  <2> HIDE DEF row
  <2>4. QED
    BY <1>1, <1>2, <2>1, <2>2, <2>3, EditType
<1>3. CASE ~(Live(r) /\ rr[r].draft = NoDraft)
  BY <1>1, <1>3, RowsAlone DEF CreateDraft, TypeInv, TypeOK
<1>4. QED
  BY <1>2, <1>3

LEMMA SaveDraftType ==
  ASSUME TypeInv, NEW w \in Workers, SaveDraft(w),
         NEW r \in Requests, requests[w].r = r,
         NEW c \in Commits, requests[w].c = c
  PROVE  TypeInv' /\ Edits(r, {c}) /\ End(w)
<1> DEFINE row == [rr[r] EXCEPT !.draft = c]
<1>1. /\ requests' \in [Workers -> Request \cup {Idle}] /\ End(w)
      /\ UNCHANGED <<orphans, given, harm>> /\ harm' \subseteq Harms
  BY EndType DEF SaveDraft, TypeInv, TypeOK
<1>2. CASE Live(r) /\ requests[w].draft # "gone"
  <2>1. /\ row \in Row /\ row.local = rr[r].local
        /\ row.commit = rr[r].commit /\ row.number = rr[r].number
        /\ row.draft = c
    BY <1>2, RowFields DEF Row
  <2>2. rr' = [rr EXCEPT ![r] = row]
    BY <1>2 DEF SaveDraft
  <2>3. {row.commit, row.number, row.draft} \cap Commits
          \subseteq Held(r) \cup {c}
    BY <1>2, <2>1 DEF Held
  <2> HIDE DEF row
  <2>4. QED
    BY <1>1, <1>2, <2>1, <2>2, <2>3, EditType
<1>3. CASE ~(Live(r) /\ requests[w].draft # "gone")
  BY <1>1, <1>3, RowsAlone DEF SaveDraft, TypeInv, TypeOK
<1>4. QED
  BY <1>2, <1>3

LEMMA DiscardDraftType ==
  ASSUME TypeInv, NEW r \in Requests, DiscardDraft(r)
  PROVE  TypeInv' /\ Edits(r, {})
<1> DEFINE row == [rr[r] EXCEPT !.draft = NoDraft]
<1>1. Live(r) /\ rr' = [rr EXCEPT ![r] = row]
  BY DEF DiscardDraft, Addressed
<1>2. /\ UNCHANGED <<orphans, given>> /\ harm' \subseteq Harms
      /\ requests' \in [Workers -> Request \cup {Idle}]
  BY GoesType DEF DiscardDraft, TypeInv, TypeOK
<1>3. row \in Row /\ row.local = rr[r].local
  BY <1>1, RowFields DEF Row
<1>4. {row.commit, row.number, row.draft} \cap Commits \subseteq Held(r) \cup {}
  BY <1>1, RowFields, PostingAssumption DEF Held, Row
<1> HIDE DEF row
<1>5. QED
  BY <1>1, <1>2, <1>3, <1>4, EditType

LEMMA DiscardType ==
  ASSUME TypeInv, NEW r \in Requests, Discard(r)
  PROVE  TypeInv' /\ Edits(r, {})
<1> DEFINE row == [rr[r] EXCEPT !.discarded = TRUE, !.draft = NoDraft,
                             !.commit = IF rr[r].discarded THEN @ ELSE None]
<1>1. Live(r) /\ rr' = [rr EXCEPT ![r] = row]
  BY DEF Discard, Addressed
<1>2. /\ UNCHANGED <<orphans, given>> /\ harm' \subseteq Harms
      /\ requests' \in [Workers -> Request \cup {Idle}]
  BY GoesType DEF Discard, TypeInv, TypeOK
<1>3. row \in Row /\ row.local = rr[r].local
  BY <1>1, RowFields DEF Row
<1>4. {row.commit, row.number, row.draft} \cap Commits \subseteq Held(r) \cup {}
  BY <1>1, RowFields, PostingAssumption DEF Held, Row
<1> HIDE DEF row
<1>5. QED
  BY <1>1, <1>2, <1>3, <1>4, EditType

LEMMA ReopenType ==
  ASSUME TypeInv, NEW r \in Requests, Reopen(r)
  PROVE  TypeInv' /\ Edits(r, {})
<1> DEFINE row == [rr[r] EXCEPT
                    !.discarded = FALSE,
                    !.draft = IF @ = NoDraft THEN rr[r].commit ELSE @]
<1>1. Live(r) /\ rr' = [rr EXCEPT ![r] = row]
  BY DEF Reopen, Addressed
<1>2. /\ UNCHANGED <<orphans, given>> /\ harm' \subseteq Harms
      /\ requests' \in [Workers -> Request \cup {Idle}]
  BY DEF Reopen, TypeInv, TypeOK
<1>3. row \in Row /\ row.local = rr[r].local
  BY <1>1, RowFields DEF Row
<1>4. {row.commit, row.number, row.draft} \cap Commits \subseteq Held(r) \cup {}
  BY <1>1, RowFields, PostingAssumption DEF Held, Row
<1> HIDE DEF row
<1>5. QED
  BY <1>1, <1>2, <1>3, <1>4, EditType

LEMMA PublishType ==
  ASSUME TypeInv, NEW r \in Requests, Publish(r)
  PROVE  TypeInv' /\ Edits(r, {})
<1> DEFINE row == [rr[r] EXCEPT !.commit = rr[r].draft, !.draft = NoDraft]
<1>1. Live(r) /\ rr[r].draft # NoDraft /\ UNCHANGED <<orphans, given>>
  BY DEF Publish, Addressed
<1>2. CASE Clash(rr[r].draft, r)
  <2>1. /\ UNCHANGED <<rr, requests>> /\ orphans' \in BOOLEAN
        /\ harm' \subseteq Harms
    BY <1>1, <1>2 DEF Publish, Harms, TypeInv, TypeOK
  <2>2. QED
    BY <1>1, <2>1, RowsAlone DEF TypeInv, TypeOK
<1>3. CASE ~Clash(rr[r].draft, r)
  <2>1. /\ rr' = [rr EXCEPT ![r] = row] /\ harm' \subseteq Harms
        /\ requests' \in [Workers -> Request \cup {Idle}]
    BY <1>3, GoesType DEF Publish, TypeInv, TypeOK
  <2>2. row \in Row /\ row.local = rr[r].local
    BY <1>1, RowFields DEF Row
  <2>3. {row.commit, row.number, row.draft} \cap Commits
          \subseteq Held(r) \cup {}
    BY <1>1, RowFields, PostingAssumption DEF Held, Row
  <2> HIDE DEF row
  <2>4. QED
    BY <1>1, <2>1, <2>2, <2>3, EditType
<1>4. QED
  BY <1>2, <1>3

LEMMA ViewType ==
  ASSUME TypeInv, NEW r \in Requests, View(r)
  PROVE  TypeInv' /\ Edits(r, {})
<1> DEFINE row == [rr[r] EXCEPT !.commit = rr[r].number]
<1>1. Live(r) /\ rr[r].number # None /\ UNCHANGED <<orphans, given>>
  BY DEF View
<1>2. /\ requests' \in [Workers -> Request \cup {Idle}]
      /\ orphans' \in BOOLEAN /\ harm' \subseteq Harms
  BY DEF View, Harms, TypeInv, TypeOK
<1>3. CASE Clash(rr[r].number, r)
  <2>1. UNCHANGED rr
    BY <1>3 DEF View
  <2>2. QED
    BY <1>1, <1>2, <2>1, RowsAlone
<1>4. CASE ~Clash(rr[r].number, r)
  <2>1. rr' = [rr EXCEPT ![r] = row]
    BY <1>4 DEF View
  <2>2. row \in Row /\ row.local = rr[r].local
    BY <1>1, RowFields, PostingAssumption DEF Row
  <2>3. {row.commit, row.number, row.draft} \cap Commits
          \subseteq Held(r) \cup {}
    BY <1>1, RowFields DEF Held, Row
  <2> HIDE DEF row
  <2>4. QED
    BY <1>1, <1>2, <2>1, <2>2, <2>3, EditType
<1>5. QED
  BY <1>3, <1>4

LEMMA ReassociateType ==
  ASSUME TypeInv, NEW r \in Requests, NEW c \in Numbers, Reassociate(r, c)
  PROVE  TypeInv' /\ Edits(r, {c})
<1> DEFINE moved == c # rr[r].number
           reopened == [rr[r] EXCEPT !.draft = c, !.discarded = FALSE,
                                     !.commit = IF moved THEN c ELSE @,
                                     !.number = c]
           edited == [rr[r] EXCEPT !.draft = c]
<1>1. /\ Live(r) /\ UNCHANGED <<requests, orphans, given>>
      /\ c \in Commits
  BY PostingAssumption DEF Reassociate, Addressed
<1>2. /\ requests' \in [Workers -> Request \cup {Idle}]
      /\ orphans' \in BOOLEAN /\ harm' \subseteq Harms
  BY <1>1 DEF Reassociate, Met, Harms, TypeInv, TypeOK
<1>3. /\ reopened \in Row /\ reopened.local = rr[r].local
      /\ {reopened.commit, reopened.number, reopened.draft} \cap Commits
           \subseteq Held(r) \cup {c}
  BY <1>1, RowFields DEF Row, Held
<1>4. /\ edited \in Row /\ edited.local = rr[r].local
      /\ {edited.commit, edited.number, edited.draft} \cap Commits
           \subseteq Held(r) \cup {c}
  BY <1>1, RowFields DEF Row, Held
<1>5. \/ rr' = [rr EXCEPT ![r] = reopened]
      \/ rr' = [rr EXCEPT ![r] = edited]
      \/ UNCHANGED rr
  BY DEF Reassociate
<1> HIDE DEF moved, reopened, edited
<1>6. CASE rr' = [rr EXCEPT ![r] = reopened]
  BY <1>1, <1>2, <1>3, <1>6, EditType
<1>7. CASE rr' = [rr EXCEPT ![r] = edited]
  BY <1>1, <1>2, <1>4, <1>7, EditType
<1>8. CASE UNCHANGED rr
  BY <1>1, <1>2, <1>8, RowsAlone
<1>9. QED
  BY <1>5, <1>6, <1>7, <1>8

LEMMA DeleteType ==
  ASSUME TypeInv, NEW r \in Requests, Delete(r)
  PROVE  TypeInv' /\ Edits(r, {}) /\ ~Live(r)'
<1>1. /\ rr' = [rr EXCEPT ![r] = Deleted] /\ UNCHANGED <<orphans, given, harm>>
      /\ Deleted \notin Row
      /\ given \in Nat /\ given' \in Nat /\ given <= given'
      /\ requests' \in [Workers -> Request \cup {Idle}]
  BY GoesType, PostingAssumption DEF Delete, TypeInv, TypeOK
<1>2. /\ rr' \in [Requests -> Row \cup {Absent, Deleted}]
      /\ rr'[r] = Deleted
      /\ \A s \in Requests \ {r} : rr'[s] = rr[s]
      /\ Bounded'
  BY <1>1, RowChange
<1>3. ~Live(r)' /\ Held(r)' = {}
  BY <1>1, <1>2 DEF Live, Held
<1>4. Addressed(r)
  BY DEF Delete
<1>5. QED
  BY <1>1, <1>2, <1>3, <1>4 DEF TypeInv, TypeOK, Edits, Addressed

(***************************************************************************)
(* Type correctness.                                                       *)
(***************************************************************************)

(* The operations by what they do: a worker begins, a worker writes, or    *)
(* the row of one review request is edited.                                *)
Begins(w, r) ==
  \/ \E c \in Commits \cup {None} : Create(w, r, c)
  \/ \E c \in Commits : EditDraft(w, r, c)

Works(w) ==
  \/ Insert(w) \/ RefuseInsert(w) \/ ReadNumber(w) \/ SaveNumber(w)
  \/ CreateDraft(w) \/ Die(w) \/ SaveDraft(w)

Handles(r) ==
  \/ DiscardDraft(r) \/ Publish(r) \/ Discard(r) \/ Reopen(r) \/ View(r)
  \/ Delete(r) \/ \E c \in Numbers : Reassociate(r, c)

LEMMA NextCases ==
  ASSUME Next
  PROVE  \/ \E w \in Workers, r \in Requests : Begins(w, r)
         \/ \E w \in Workers : Works(w)
         \/ \E r \in Requests : Handles(r)
  BY DEF Next, Begins, Works, Handles

(* The workers that create a review request.                               *)
Creates(w) == requests[w] # Idle /\ requests[w].op \in Stages

(* A review request is not there until it is inserted, has no number       *)
(* until one is saved, and is created by one worker.                       *)
CreationInv ==
  /\ \A w \in Workers :
       /\ At(w, "insert") => rr[requests[w].r] = Absent
       /\ At(w, "number") \/ At(w, "save number") =>
            Live(requests[w].r) /\ rr[requests[w].r].local = 0
       /\ At(w, "draft") \/ At(w, "edit") =>
            /\ rr[requests[w].r] # Absent
            /\ Live(requests[w].r) => rr[requests[w].r].local # 0
  /\ \A v, w \in Workers :
       v # w /\ Creates(v) /\ Creates(w) => requests[v].r # requests[w].r

(* A number that was read is above all others until it is saved, unless    *)
(* another one was read together with it.                                  *)
NumberInv ==
  Without({"numbered together"}) =>
    \A w \in Workers : At(w, "save number") =>
      /\ \A s \in Requests : Live(s) => rr[s].local < requests[w].local
      /\ \A v \in Workers : At(v, "save number") => v = w

Inv1 == TypeInv /\ CreationInv /\ NumberInv

(* No worker begins anything: those that go on do what they did.           *)
Fewer ==
  \A v \in Workers : requests'[v] # Idle =>
    /\ requests[v] # Idle
    /\ requests'[v].op = requests[v].op
    /\ requests'[v].r = requests[v].r
    /\ requests'[v].c = requests[v].c
    /\ requests[v].op \in Stages => requests'[v].local = requests[v].local

LEMMA EndFewer ==
  ASSUME TypeOK, NEW w \in Workers, End(w)
  PROVE  Fewer
  BY EndType DEF Fewer

LEMMA GoesFewer ==
  ASSUME TypeOK, NEW r, DraftGoes(r)
  PROVE  Fewer
<1>1. ASSUME NEW v \in Workers, requests[v] # Idle, requests[v].op \in Stages
      PROVE  ~At(v, "edit")
  BY <1>1 DEF At, Stages
<1>2. QED
  BY <1>1, GoesType DEF Fewer

LEMMA SameFewer ==
  ASSUME UNCHANGED requests
  PROVE  Fewer
  BY DEF Fewer

(* Editing a row disturbs no creation.                                     *)
LEMMA EditsCreation ==
  ASSUME Inv1, NEW r \in Requests, NEW claims, Edits(r, claims), Fewer,
         harm \subseteq harm'
  PROVE  CreationInv' /\ NumberInv'
<1>1. ASSUME NEW s \in Requests
      PROVE  /\ rr[s] = Absent => rr'[s] = Absent
             /\ rr[s] # Absent => rr'[s] # Absent
             /\ Live(s)' => Live(s) /\ rr'[s].local = rr[s].local
             /\ Live(s) /\ rr[s].local = 0 => Live(s)'
  <2>1. CASE s # r
    BY <2>1 DEF Edits, Live
  <2>2. CASE s = r /\ ~Live(s)
    BY <2>2 DEF Edits, Live
  <2>3. CASE s = r /\ Live(s)
    BY <2>3, PostingAssumption DEF Edits, Live, Addressed
  <2>4. QED
    BY <2>1, <2>2, <2>3
<1>2. ASSUME NEW v \in Workers, requests'[v] # Idle
      PROVE  /\ requests[v] # Idle
             /\ requests'[v].op = requests[v].op
             /\ requests'[v].r = requests[v].r
             /\ requests[v].r \in Requests
             /\ requests[v].op \in Stages =>
                  requests'[v].local = requests[v].local
  BY <1>2, RequestFields DEF Fewer, Inv1, TypeInv
<1>3. \A v \in Workers, op \in Stages \cup {"edit"} :
        At(v, op)' => At(v, op) /\ requests'[v].r = requests[v].r
                                /\ requests[v].r \in Requests
  BY <1>2 DEF At
<1>4. ASSUME NEW v \in Workers
      PROVE  /\ At(v, "insert")' => rr'[requests'[v].r] = Absent
             /\ At(v, "number")' \/ At(v, "save number")' =>
                  /\ rr'[requests'[v].r] \in Row
                  /\ rr'[requests'[v].r].local = 0
             /\ At(v, "draft")' \/ At(v, "edit")' =>
                  /\ rr'[requests'[v].r] # Absent
                  /\ rr'[requests'[v].r] \in Row =>
                       rr'[requests'[v].r].local # 0
  <2>1. CASE requests'[v] = Idle
    BY <2>1 DEF At
  <2>2. CASE requests'[v] # Idle
    <3>1. PICK s \in Requests : requests[v].r = s /\ requests'[v].r = s
      BY <1>2, <2>2
    <3>2. /\ At(v, "insert") => rr[s] = Absent
          /\ At(v, "number") \/ At(v, "save number") =>
               Live(s) /\ rr[s].local = 0
          /\ At(v, "draft") \/ At(v, "edit") =>
               rr[s] # Absent /\ (Live(s) => rr[s].local # 0)
      BY <3>1 DEF Inv1, CreationInv
    <3>3. \A op \in {"insert", "number", "save number", "draft", "edit"} :
            At(v, op)' => At(v, op)
      BY <1>3 DEF Stages
    <3>4. QED
      BY <1>1, <3>1, <3>2, <3>3 DEF Live
  <2>3. QED
    BY <2>1, <2>2
<1>5. \A v, w \in Workers :
        v # w /\ Creates(v)' /\ Creates(w)' => requests'[v].r # requests'[w].r
  <2>1. SUFFICES ASSUME NEW v \in Workers, NEW w \in Workers, v # w,
                        Creates(v)', Creates(w)'
                 PROVE  requests'[v].r # requests'[w].r
    OBVIOUS
  <2>2. requests'[v] # Idle /\ requests'[w] # Idle
        /\ requests'[v].op \in Stages /\ requests'[w].op \in Stages
    BY <2>1 DEF Creates
  <2>3. /\ Creates(v) /\ requests'[v].r = requests[v].r
        /\ Creates(w) /\ requests'[w].r = requests[w].r
    BY <1>2, <2>2 DEF Creates
  <2>4. QED
    BY <2>1, <2>3 DEF Inv1, CreationInv
<1>6. CreationInv'
  BY <1>4, <1>5 DEF CreationInv, Live
<1>7. NumberInv'
  <2>1. SUFFICES ASSUME Without({"numbered together"})',
                        NEW w \in Workers, At(w, "save number")'
                 PROVE  /\ \A s \in Requests : Live(s)' =>
                             rr'[s].local < requests'[w].local
                        /\ \A v \in Workers : At(v, "save number")' => v = w
    BY DEF NumberInv
  <2>2. At(w, "save number") /\ requests'[w].local = requests[w].local
    BY <1>2, <1>3, <2>1 DEF At, Stages
  <2>3. /\ \A s \in Requests : Live(s) => rr[s].local < requests[w].local
        /\ \A v \in Workers : At(v, "save number") => v = w
    BY <2>1, <2>2 DEF Inv1, NumberInv, Without
  <2>4. \A v \in Workers : At(v, "save number")' => At(v, "save number")
    BY <1>3 DEF Stages
  <2>5. QED
    BY <1>1, <2>2, <2>3, <2>4
<1>8. QED
  BY <1>6, <1>7

LEMMA BeginCreation ==
  ASSUME Inv1, NEW w \in Workers, NEW q \in Request, Begin(w, q),
         UNCHANGED rr, harm \subseteq harm',
         \/ /\ q.op = "insert" /\ rr[q.r] = Absent
            /\ \A v \in Workers : ~For(v, q.r)
         \/ q.op = "edit" /\ Addressed(q.r)
  PROVE  CreationInv' /\ NumberInv'
<1>1. /\ requests[w] = Idle /\ requests'[w] = q /\ q # Idle
      /\ \A v \in Workers \ {w} : requests'[v] = requests[v]
  BY BeginType DEF Inv1, TypeInv
<1>2. ASSUME NEW v \in Workers
      PROVE  /\ At(v, "insert")' => rr'[requests'[v].r] = Absent
             /\ At(v, "number")' \/ At(v, "save number")' =>
                  /\ rr'[requests'[v].r] \in Row
                  /\ rr'[requests'[v].r].local = 0
             /\ At(v, "draft")' \/ At(v, "edit")' =>
                  /\ rr'[requests'[v].r] # Absent
                  /\ rr'[requests'[v].r] \in Row =>
                       rr'[requests'[v].r].local # 0
  <2>1. CASE v = w
    BY <1>1, <2>1, PostingAssumption DEF At, Addressed, Live
  <2>2. CASE v # w
    BY <1>1, <2>2 DEF At, Live, Inv1, CreationInv
  <2>3. QED
    BY <2>1, <2>2
<1>3. ASSUME NEW v \in Workers, NEW x \in Workers, v # x,
             Creates(v)', Creates(x)'
      PROVE  requests'[v].r # requests'[x].r
  <2>1. CASE v # w /\ x # w
    BY <1>1, <1>3, <2>1 DEF Inv1, CreationInv, Creates
  <2>2. \A y \in Workers : y # w /\ Creates(w)' /\ Creates(y)' =>
          requests'[y].r # requests'[w].r
    <3>1. SUFFICES ASSUME NEW y \in Workers, y # w, Creates(w)', Creates(y)'
                   PROVE  requests'[y].r # requests'[w].r
      OBVIOUS
    <3>2. q.op # "edit" /\ requests[y] # Idle /\ requests'[y] = requests[y]
      BY <1>1, <3>1 DEF Creates, Stages
    <3>3. ~For(y, q.r)
      BY <3>2
    <3>4. QED
      BY <1>1, <3>2, <3>3 DEF For
  <2>3. QED
    BY <1>3, <2>1, <2>2
<1>4. CreationInv'
  BY <1>2, <1>3 DEF CreationInv, Live
<1>5. NumberInv'
  <2>1. SUFFICES ASSUME Without({"numbered together"})',
                        NEW x \in Workers, At(x, "save number")'
                 PROVE  /\ \A s \in Requests : Live(s)' =>
                             rr'[s].local < requests'[x].local
                        /\ \A v \in Workers : At(v, "save number")' => v = x
    BY DEF NumberInv
  <2>2. \A v \in Workers : At(v, "save number")' =>
          At(v, "save number") /\ requests'[v] = requests[v]
    BY <1>1 DEF At
  <2>3. /\ \A s \in Requests : Live(s) => rr[s].local < requests[x].local
        /\ \A v \in Workers : At(v, "save number") => v = x
    BY <2>1, <2>2 DEF Inv1, NumberInv, Without
  <2>4. QED
    BY <2>1, <2>2, <2>3 DEF Live
<1>6. QED
  BY <1>4, <1>5

(* A worker goes on with its creation: the row that it inserts or numbers  *)
(* is its own, and it is the only one that does.                           *)
LEMMA StageCreation ==
  ASSUME Inv1, NEW w \in Workers, NEW r \in Requests,
         requests[w] # Idle, requests[w].op \in Stages, requests[w].r = r,
         requests'[w] # Idle, requests'[w].r = r, requests'[w].op \in Stages,
         \A v \in Workers \ {w} : requests'[v] = requests[v],
         \A s \in Requests \ {r} : rr'[s] = rr[s],
         rr'[r] # Absent, ~At(w, "insert")',
         \A v \in Workers : At(v, "edit") /\ requests[v].r = r => rr'[r] = rr[r],
         At(w, "number")' \/ At(w, "save number")' =>
           rr'[r] \in Row /\ rr'[r].local = 0,
         At(w, "draft")' => (rr'[r] \in Row => rr'[r].local # 0)
  PROVE  CreationInv'
<1>0. \A v, x \in Workers :
        v # x /\ Creates(v) /\ Creates(x) => requests[v].r # requests[x].r
  BY DEF Inv1, CreationInv
<1>1. ASSUME NEW v \in Workers
      PROVE  /\ At(v, "insert")' => rr'[requests'[v].r] = Absent
             /\ At(v, "number")' \/ At(v, "save number")' =>
                  /\ rr'[requests'[v].r] \in Row
                  /\ rr'[requests'[v].r].local = 0
             /\ At(v, "draft")' \/ At(v, "edit")' =>
                  /\ rr'[requests'[v].r] # Absent
                  /\ rr'[requests'[v].r] \in Row =>
                       rr'[requests'[v].r].local # 0
  <2>1. CASE v = w
    BY <2>1 DEF At, Stages
  <2>2. CASE v # w /\ requests[v] # Idle
    <3>1. requests'[v] = requests[v] /\ requests[v].r \in Requests
      BY <2>2, RequestFields DEF Inv1, TypeInv
    <3>2. requests[v].op \in Stages => requests[v].r # r
      BY <1>0, <2>2 DEF Creates
    <3>3. rr'[requests[v].r] = rr[requests[v].r]
      <4>1. CASE At(v, "edit")
        BY <3>1, <4>1
      <4>2. CASE requests[v].op \in Stages
        BY <3>1, <3>2, <4>2
      <4>3. QED
        BY <2>2, <4>1, <4>2, RequestFields DEF Inv1, TypeInv
    <3>4. /\ At(v, "insert") => rr[requests[v].r] = Absent
          /\ At(v, "number") \/ At(v, "save number") =>
               Live(requests[v].r) /\ rr[requests[v].r].local = 0
          /\ At(v, "draft") \/ At(v, "edit") =>
               /\ rr[requests[v].r] # Absent
               /\ Live(requests[v].r) => rr[requests[v].r].local # 0
      BY DEF Inv1, CreationInv
    <3>5. \A op : At(v, op)' <=> At(v, op)
      BY <3>1 DEF At
    <3>6. QED
      BY <3>1, <3>3, <3>4, <3>5 DEF Live
  <2>3. CASE v # w /\ requests[v] = Idle
    BY <2>3 DEF At
  <2>4. QED
    BY <2>1, <2>2, <2>3
<1>2. ASSUME NEW v \in Workers, NEW x \in Workers, v # x,
             Creates(v)', Creates(x)'
      PROVE  requests'[v].r # requests'[x].r
  <2>1. \A y \in Workers : Creates(y)' =>
          Creates(y) /\ requests'[y].r = requests[y].r
    BY DEF Creates
  <2>2. QED
    BY <1>0, <1>2, <2>1
<1>3. QED
  BY <1>1, <1>2 DEF CreationInv, Live

LEMMA InsertCreation ==
  ASSUME Inv1, NEW w \in Workers, Insert(w)
  PROVE  Inv1'
<1>1. PICK r \in Requests : requests[w].r = r
  BY RequestFields DEF Insert, At, Inv1, TypeInv
<1>2. /\ requests[w] # Idle /\ requests[w].op = "insert"
      /\ requests[w].op \in Stages
  BY DEF Insert, At, Stages
<1>3. /\ requests'[w] # Idle /\ requests'[w].op = "number"
      /\ requests'[w].r = r
      /\ \A v \in Workers \ {w} : requests'[v] = requests[v]
  BY <1>1, <1>2, GoType DEF Insert, Inv1, TypeInv, Stages
<1>4. /\ TypeInv' /\ rr'[r] \in Row /\ rr'[r].local = 0
      /\ \A s \in Requests \ {r} : rr'[s] = rr[s]
  <2>1. /\ TypeInv' /\ rr'[r] = Inserted(requests[w].c)
        /\ Inserted(requests[w].c) \in Row
        /\ \A s \in Requests \ {r} : rr'[s] = rr[s]
    BY <1>1, InsertType DEF Inv1
  <2>2. Inserted(requests[w].c).local = 0
    BY DEF Inserted
  <2>3. QED
    BY <2>1, <2>2
<1>5. rr[r] = Absent
  BY <1>1, <1>2 DEF At, Inv1, CreationInv
<1>6. \A v \in Workers : At(v, "edit") => requests[v].r # r
  BY <1>5 DEF Inv1, CreationInv
<1>7. CreationInv'
  <2>1. ~At(w, "insert")' /\ ~At(w, "draft")' /\ requests'[w].op \in Stages
        /\ rr'[r] # Absent
    BY <1>3, <1>4, PostingAssumption DEF At, Stages
  <2>2. QED
    BY <1>1, <1>2, <1>3, <1>4, <1>6, <2>1, StageCreation
<1>8. NumberInv'
  <2>1. SUFFICES ASSUME Without({"numbered together"})',
                        NEW x \in Workers, At(x, "save number")'
                 PROVE  /\ \A s \in Requests : Live(s)' =>
                             rr'[s].local < requests'[x].local
                        /\ \A v \in Workers : At(v, "save number")' => v = x
    BY DEF NumberInv
  <2>2. \A v \in Workers : At(v, "save number")' =>
          At(v, "save number") /\ requests'[v] = requests[v]
    BY <1>3 DEF At
  <2>3. Without({"numbered together"})
    BY <2>1 DEF Without, Insert
  <2>4. /\ \A s \in Requests : Live(s) => rr[s].local < requests[x].local
        /\ \A v \in Workers : At(v, "save number") => v = x
    BY <2>1, <2>2, <2>3 DEF Inv1, NumberInv
  <2>5. /\ requests[x].r \in Requests /\ Live(requests[x].r)
        /\ rr[requests[x].r].local = 0
    BY <2>1, <2>2, RequestFields DEF At, Inv1, TypeInv, CreationInv
  <2>6. 0 < requests[x].local
    BY <2>4, <2>5
  <2>7. QED
    BY <1>4, <2>1, <2>2, <2>4, <2>6 DEF Live
<1>9. QED
  BY <1>4, <1>7, <1>8 DEF Inv1

LEMMA ReadNumberCreation ==
  ASSUME Inv1, NEW w \in Workers, ReadNumber(w)
  PROVE  Inv1'
<1>1. PICK r \in Requests : requests[w].r = r
  BY RequestFields DEF ReadNumber, At, Inv1, TypeInv
<1>2. /\ requests[w] # Idle /\ requests[w].op = "number"
      /\ requests[w].op \in Stages /\ UNCHANGED rr
  BY DEF ReadNumber, At, Stages
<1>3. /\ TypeInv' /\ requests'[w] # Idle /\ requests'[w].op = "save number"
      /\ requests'[w].r = r /\ requests'[w].local = MaxLocal + 1
      /\ \A v \in Workers \ {w} : requests'[v] = requests[v]
  BY <1>1, ReadNumberType DEF Inv1
<1>4. Live(r) /\ rr[r].local = 0
  BY <1>1, <1>2 DEF At, Inv1, CreationInv
<1>5. CreationInv'
  <2>1. ~At(w, "insert")' /\ ~At(w, "draft")' /\ requests'[w].op \in Stages
        /\ rr'[r] # Absent /\ rr'[r] \in Row /\ rr'[r].local = 0
    BY <1>2, <1>3, <1>4, PostingAssumption DEF At, Stages, Live
  <2>2. QED
    BY <1>1, <1>2, <1>3, <2>1, StageCreation
<1>6. NumberInv'
  <2>1. SUFFICES ASSUME Without({"numbered together"})'
                 PROVE  NumberInv'
    BY DEF NumberInv
  <2>2. \A v \in Workers \ {w} : ~At(v, "save number")
    BY <2>1 DEF ReadNumber, Without
  <2>3. \A v \in Workers : At(v, "save number")' => v = w
    BY <1>3, <2>2 DEF At
  <2>4. ASSUME NEW s \in Requests, Live(s)'
        PROVE  rr'[s].local < requests'[w].local
    <3>1. Live(s) /\ rr'[s] = rr[s]
      BY <1>2, <2>4 DEF Live
    <3>2. rr[s].local <= MaxLocal /\ MaxLocal \in Nat /\ rr[s].local \in Nat
      BY <3>1, MaxLocalType, RowFields DEF Inv1
    <3>3. rr[s].local < MaxLocal + 1
      BY <3>2
    <3>4. QED
      BY <1>3, <3>1, <3>3
  <2>5. QED
    BY <2>3, <2>4 DEF NumberInv
<1>7. QED
  BY <1>3, <1>5, <1>6 DEF Inv1

LEMMA SaveNumberCreation ==
  ASSUME Inv1, NEW w \in Workers, SaveNumber(w)
  PROVE  Inv1'
<1>1. /\ requests[w] # Idle /\ requests[w].op = "save number"
      /\ requests[w].op \in Stages /\ harm' = harm
  BY DEF SaveNumber, At, Stages
<1>2. PICK r \in Requests, n \in Nat :
        requests[w].r = r /\ requests[w].local = n
  BY <1>1, RequestFields DEF Inv1, TypeInv
<1>3. Live(r) /\ rr[r].local = 0
  BY <1>1, <1>2 DEF At, Inv1, CreationInv
<1>4. /\ TypeInv'
      /\ \A s \in Requests \ {r} : rr'[s] = rr[s]
      /\ Live(r)'
      /\ \/ /\ \E s \in Requests : Live(s) /\ rr[s].local = n
            /\ rr' = rr /\ End(w)
         \/ /\ ~ \E s \in Requests : Live(s) /\ rr[s].local = n
            /\ rr'[r].local = n /\ Go(w, "draft")
  BY <1>2, <1>3, SaveNumberType DEF Inv1
<1>5. CASE rr' = rr /\ End(w)
  <2>1. Edits(r, {}) /\ Fewer
    BY <1>3, <1>5, EndFewer DEF Inv1, TypeInv, Edits, Live, Held
  <2>2. QED
    BY <1>1, <1>4, <2>1, EditsCreation DEF Inv1
<1>6. CASE rr'[r].local = n /\ Go(w, "draft")
                            /\ ~ \E s \in Requests : Live(s) /\ rr[s].local = n
  <2>1. /\ requests'[w] # Idle /\ requests'[w].op = "draft"
        /\ requests'[w].r = r
        /\ \A v \in Workers \ {w} : requests'[v] = requests[v]
    BY <1>1, <1>2, <1>6, GoType DEF Inv1, TypeInv, Stages
  <2>2. n # 0
    BY <1>3, <1>6
  <2>3. \A v \in Workers : At(v, "edit") => requests[v].r # r
    BY <1>3 DEF Inv1, CreationInv
  <2>4. CreationInv'
    <3>1. /\ ~At(w, "insert")' /\ ~At(w, "number")' /\ ~At(w, "save number")'
          /\ requests'[w].op \in Stages
          /\ rr'[r] # Absent /\ rr'[r].local # 0
      BY <1>4, <1>6, <2>1, <2>2, PostingAssumption DEF At, Stages, Live
    <3>2. QED
      BY <1>1, <1>2, <1>4, <2>1, <2>3, <3>1, StageCreation
  <2>5. NumberInv'
    <3>1. SUFFICES ASSUME Without({"numbered together"})',
                          NEW x \in Workers, At(x, "save number")'
                   PROVE  FALSE
      BY DEF NumberInv
    <3>2. x # w /\ At(x, "save number") /\ At(w, "save number")
      BY <1>1, <2>1, <3>1 DEF At
    <3>3. QED
      BY <1>1, <3>1, <3>2 DEF Inv1, NumberInv, Without
  <2>6. QED
    BY <1>4, <2>4, <2>5 DEF Inv1
<1>7. QED
  BY <1>4, <1>5, <1>6

LEMMA Inv1Step ==
  ASSUME Inv1, [Next]_vars
  PROVE  Inv1' /\ harm \subseteq harm'
<1>1. CASE UNCHANGED vars
  BY <1>1 DEF vars, Inv1, TypeInv, TypeOK, Bounded, Live, CreationInv,
              NumberInv, Without, At, Creates
<1>2. ASSUME NEW w \in Workers, NEW r \in Requests, Begins(w, r)
      PROVE  Inv1' /\ harm \subseteq harm'
  <2>1. ASSUME NEW c \in Commits \cup {None}, Create(w, r, c)
        PROVE  Inv1' /\ harm \subseteq harm'
    <3> DEFINE q == [op |-> "insert", r |-> r, c |-> c, local |-> 0]
    <3>1. /\ q \in Request /\ q.op = "insert" /\ q.r = r /\ Begin(w, q)
          /\ UNCHANGED rr /\ harm \subseteq harm'
          /\ rr[r] = Absent /\ \A v \in Workers : ~For(v, r)
      BY <2>1 DEF Create, Request, Stages
    <3>2. TypeInv'
      BY <2>1, CreateType DEF Inv1
    <3> HIDE DEF q
    <3>3. CreationInv' /\ NumberInv'
      BY <3>1, BeginCreation
    <3>4. QED
      BY <3>1, <3>2, <3>3 DEF Inv1
  <2>2. ASSUME NEW c \in Commits, EditDraft(w, r, c)
        PROVE  Inv1' /\ harm \subseteq harm'
    <3> DEFINE q == [op |-> "edit", r |-> r, c |-> c,
                     draft |-> IF rr[r].draft = NoDraft
                                 THEN "none" ELSE "held"]
    <3>1. /\ q \in Request /\ q.op = "edit" /\ q.r = r /\ Begin(w, q)
          /\ UNCHANGED rr /\ harm \subseteq harm' /\ Addressed(r)
      BY <2>2 DEF EditDraft, Request
    <3>2. TypeInv'
      BY <2>2, EditDraftType DEF Inv1
    <3> HIDE DEF q
    <3>3. CreationInv' /\ NumberInv'
      BY <3>1, BeginCreation
    <3>4. QED
      BY <3>1, <3>2, <3>3 DEF Inv1
  <2>3. QED
    BY <1>2, <2>1, <2>2 DEF Begins
<1>3. ASSUME NEW w \in Workers, Works(w)
      PROVE  Inv1' /\ harm \subseteq harm'
  <2>1. PICK r \in Requests : requests[w].r = r
    BY <1>3, RequestFields DEF Works, Insert, RefuseInsert, ReadNumber,
         SaveNumber, CreateDraft, Die, SaveDraft, At, Inv1, TypeInv
  <2>2. CASE Insert(w)
    BY <2>2, InsertCreation DEF Insert
  <2>3. CASE RefuseInsert(w)
    <3>1. /\ UNCHANGED <<rr, harm>> /\ End(w)
      BY <2>3 DEF RefuseInsert
    <3>2. Edits(r, {})
      BY <3>1 DEF Edits, Live, Held, Inv1, TypeInv, TypeOK
    <3>3. QED
      BY <2>3, <3>1, <3>2, RefuseInsertType, EndFewer, EditsCreation
         DEF Inv1, TypeInv
  <2>4. CASE ReadNumber(w)
    BY <2>4, ReadNumberCreation DEF ReadNumber
  <2>5. CASE SaveNumber(w)
    BY <2>5, SaveNumberCreation DEF SaveNumber
  <2>6. CASE CreateDraft(w)
    <3>1. TypeInv' /\ Edits(r, {}) /\ End(w) /\ harm \subseteq harm'
      BY <2>1, <2>6, CreateDraftType DEF CreateDraft, Inv1
    <3>2. QED
      BY <3>1, EndFewer, EditsCreation DEF Inv1, TypeInv
  <2>7. CASE Die(w)
    <3>1. /\ UNCHANGED rr /\ End(w) /\ harm \subseteq harm'
      BY <2>7 DEF Die
    <3>2. Edits(r, {})
      BY <3>1 DEF Edits, Live, Held, Inv1, TypeInv, TypeOK
    <3>3. QED
      BY <2>7, <3>1, <3>2, DieType, EndFewer, EditsCreation
         DEF Inv1, TypeInv
  <2>8. CASE SaveDraft(w)
    <3>1. PICK c \in Commits : requests[w].c = c
      BY <2>8, RequestFields DEF SaveDraft, At, Inv1, TypeInv
    <3>2. TypeInv' /\ Edits(r, {c}) /\ End(w) /\ harm \subseteq harm'
      BY <2>1, <2>8, <3>1, SaveDraftType DEF SaveDraft, Inv1
    <3>3. QED
      BY <3>2, EndFewer, EditsCreation DEF Inv1, TypeInv
  <2>9. QED
    BY <1>3, <2>2, <2>3, <2>4, <2>5, <2>6, <2>7, <2>8 DEF Works
<1>4. ASSUME NEW r \in Requests, Handles(r)
      PROVE  Inv1' /\ harm \subseteq harm'
  <2>1. harm \subseteq harm'
    BY <1>4 DEF Handles, DiscardDraft, Publish, Discard, Reopen, View, Delete,
                Reassociate
  <2>2. Fewer
    <3>1. DraftGoes(r) \/ UNCHANGED requests
      BY <1>4 DEF Handles, DiscardDraft, Publish, Discard, Reopen, View,
                  Delete, Reassociate
    <3>2. QED
      BY <3>1, GoesFewer, SameFewer DEF Inv1, TypeInv
  <2>3. TypeInv' /\ \E claims : Edits(r, claims)
    BY <1>4, DiscardDraftType, PublishType, DiscardType, ReopenType, ViewType,
       DeleteType, ReassociateType DEF Handles, Inv1
  <2>4. QED
    BY <2>1, <2>2, <2>3, EditsCreation DEF Inv1
<1>5. QED
  BY <1>1, <1>2, <1>3, <1>4, NextCases

LEMMA Inv1Init ==
  ASSUME Init
  PROVE  Inv1
  BY PostingAssumption DEF Init, Inv1, TypeInv, TypeOK, Bounded, Live,
     CreationInv, NumberInv, At, Creates

LEMMA Inv1Correct == Spec => []Inv1
<1>1. Inv1 /\ [Next]_vars => Inv1'
  BY Inv1Step
<1>2. QED
  BY <1>1, Inv1Init, PTL DEF Spec

(* Every operation keeps rows and requests of their types, for any sets of *)
(* review requests, workers, commit IDs and numbers.                       *)
THEOREM TypeCorrect == Spec => []TypeOK
<1>1. Inv1 => TypeOK
  BY DEF Inv1, TypeInv
<1>2. QED
  BY <1>1, Inv1Correct, PTL

(***************************************************************************)
(* Creations complete.                                                     *)
(***************************************************************************)

Numbering(w, r) == /\ At(w, "number") \/ At(w, "save number")
                  /\ requests[w].r = r

(* A review request without a number is being given one.                   *)
CompletionInv ==
  Without({"numbered together", "died"}) =>
    \A r \in Requests : Live(r) /\ rr[r].local = 0 =>
      \E w \in Workers : Numbering(w, r)

LEMMA CompletionKept ==
  ASSUME CompletionInv, harm \subseteq harm',
         \A s \in Requests :
           Live(s)' /\ rr'[s].local = 0 => Live(s) /\ rr[s].local = 0,
         \A v \in Workers, s \in Requests :
           Numbering(v, s) => Numbering(v, s)'
  PROVE  CompletionInv'
  BY DEF CompletionInv, Without

LEMMA EditsNumbers ==
  ASSUME Inv1, NEW r \in Requests, NEW claims, Edits(r, claims)
  PROVE  \A s \in Requests :
           Live(s)' /\ rr'[s].local = 0 => Live(s) /\ rr[s].local = 0
<1>1. SUFFICES ASSUME NEW s \in Requests, Live(s)', rr'[s].local = 0
               PROVE  Live(s) /\ rr[s].local = 0
  OBVIOUS
<1>2. CASE s # r
  BY <1>1, <1>2 DEF Edits, Live
<1>3. CASE s = r
  BY <1>1, <1>3, PostingAssumption DEF Edits, Live
<1>4. QED
  BY <1>2, <1>3

LEMMA CompletionStep ==
  ASSUME Inv1, CompletionInv, [Next]_vars
  PROVE  CompletionInv'
<1>0. harm \subseteq harm' /\ Inv1'
  BY Inv1Step
<1>1. CASE UNCHANGED vars
  BY <1>1 DEF vars, CompletionInv, Without, Live, Numbering, At
<1>2. ASSUME NEW w \in Workers, NEW r \in Requests, Begins(w, r)
      PROVE  CompletionInv'
  <2>1. UNCHANGED rr /\ \E q : Begin(w, q)
    BY <1>2 DEF Begins, Create, EditDraft
  <2>2. \A v \in Workers : requests[v] # Idle => requests'[v] = requests[v]
    BY <2>1 DEF Begin, Inv1, TypeInv, TypeOK
  <2>3. \A v \in Workers, s \in Requests : Numbering(v, s) => Numbering(v, s)'
    BY <2>2 DEF Numbering, At
  <2>4. QED
    BY <1>0, <2>1, <2>3, CompletionKept DEF Live
<1>3. ASSUME NEW w \in Workers, Works(w)
      PROVE  CompletionInv'
  <2>1. PICK r \in Requests : requests[w].r = r
    BY <1>3, RequestFields DEF Works, Insert, RefuseInsert, ReadNumber,
         SaveNumber, CreateDraft, Die, SaveDraft, At, Inv1, TypeInv
  <2>2. CASE Insert(w)
    <3>1. /\ requests[w] # Idle /\ requests[w].op = "insert"
          /\ requests[w].op \in Stages
      BY <2>2 DEF Insert, At, Stages
    <3>2. /\ requests'[w] # Idle /\ requests'[w].op = "number"
          /\ requests'[w].r = r
          /\ \A v \in Workers \ {w} : requests'[v] = requests[v]
      BY <2>1, <2>2, <3>1, GoType DEF Insert, Inv1, TypeInv, Stages
    <3>3. Numbering(w, r)' /\ ~ \E s \in Requests : Numbering(w, s)
      BY <3>1, <3>2 DEF Numbering, At
    <3>4. \A v \in Workers, s \in Requests : Numbering(v, s) => Numbering(v, s)'
      BY <3>2, <3>3 DEF Numbering, At
    <3>5. \A s \in Requests \ {r} : rr'[s] = rr[s]
      BY <2>1, <2>2, InsertType DEF Inv1
    <3>6. ASSUME NEW s \in Requests, Live(s)', rr'[s].local = 0,
                 Without({"numbered together", "died"})'
          PROVE  \E v \in Workers : Numbering(v, s)'
      <4>1. CASE s = r
        BY <3>3, <4>1
      <4>2. CASE s # r
        <5>1. Live(s) /\ rr[s].local = 0
          BY <3>5, <3>6, <4>2 DEF Live
        <5>2. \E v \in Workers : Numbering(v, s)
          BY <1>0, <3>6, <5>1 DEF CompletionInv, Without
        <5>3. QED
          BY <3>4, <5>2
      <4>3. QED
        BY <4>1, <4>2
    <3>7. QED
      BY <3>6 DEF CompletionInv
  <2>3. CASE RefuseInsert(w) \/ CreateDraft(w) \/ SaveDraft(w)
    <3>1. End(w) /\ ~At(w, "number") /\ ~At(w, "save number")
      BY <2>3 DEF RefuseInsert, CreateDraft, SaveDraft, At
    <3>2. \A v \in Workers, s \in Requests : Numbering(v, s) => Numbering(v, s)'
      BY <3>1, EndType DEF Numbering, At, Inv1, TypeInv
    <3>3. \E claims : Edits(r, claims)
      <4>1. CASE RefuseInsert(w)
        <5>1. Edits(r, {})
          BY <4>1 DEF RefuseInsert, Edits, Live, Held, Inv1, TypeInv, TypeOK
        <5>2. QED
          BY <5>1
      <4>2. CASE CreateDraft(w)
        BY <2>1, <4>2, CreateDraftType DEF Inv1
      <4>3. CASE SaveDraft(w)
        <5>1. PICK c \in Commits : requests[w].c = c
          BY <4>3, RequestFields DEF SaveDraft, At, Inv1, TypeInv
        <5>2. QED
          BY <2>1, <4>3, <5>1, SaveDraftType DEF Inv1
      <4>4. QED
        BY <2>3, <4>1, <4>2, <4>3
    <3>4. QED
      BY <1>0, <3>2, <3>3, EditsNumbers, CompletionKept
  <2>4. CASE ReadNumber(w)
    <3>1. /\ requests'[w] # Idle /\ requests'[w].op = "save number"
          /\ requests'[w].r = requests[w].r
          /\ \A v \in Workers \ {w} : requests'[v] = requests[v]
      BY <2>4, ReadNumberType DEF Inv1
    <3>2. \A v \in Workers, s \in Requests : Numbering(v, s) => Numbering(v, s)'
      BY <3>1 DEF Numbering, At
    <3>3. UNCHANGED rr
      BY <2>4 DEF ReadNumber
    <3>4. QED
      BY <1>0, <3>2, <3>3, CompletionKept DEF Live
  <2>5. CASE SaveNumber(w)
    <3>1. /\ requests[w] # Idle /\ requests[w].op = "save number"
          /\ requests[w].op \in Stages
      BY <2>5 DEF SaveNumber, At, Stages
    <3>2. PICK n \in Nat : requests[w].local = n
      BY <3>1, RequestFields DEF Inv1, TypeInv
    <3>3. Live(r) /\ rr[r].local = 0
      BY <2>1, <3>1 DEF At, Inv1, CreationInv
    <3>4. SUFFICES ASSUME Without({"numbered together", "died"})'
                   PROVE  CompletionInv'
      BY DEF CompletionInv
    <3>5. \A s \in Requests : Live(s) => rr[s].local < n
      BY <1>0, <3>1, <3>2, <3>4 DEF Inv1, NumberInv, Without, At
    <3>6. ~ \E s \in Requests : Live(s) /\ rr[s].local = n
      <4>1. SUFFICES ASSUME NEW s \in Requests, Live(s), rr[s].local = n
                     PROVE  FALSE
        OBVIOUS
      <4>2. rr[s].local < n
        BY <3>5, <4>1
      <4>3. QED
        BY <4>1, <4>2
    <3>7. /\ \A s \in Requests \ {r} : rr'[s] = rr[s]
          /\ rr'[r].local = n /\ Go(w, "draft")
      BY <2>1, <2>5, <3>2, <3>3, <3>6, SaveNumberType DEF Inv1
    <3>8. \A v \in Workers \ {w} : requests'[v] = requests[v]
      BY <3>1, <3>7, GoType DEF Inv1, TypeInv, Stages
    <3>9. ASSUME NEW s \in Requests, Live(s)', rr'[s].local = 0
          PROVE  \E v \in Workers : Numbering(v, s)'
      <4>1. n # 0
        BY <3>3, <3>6
      <4>2. s # r
        BY <3>7, <3>9, <4>1
      <4>3. Live(s) /\ rr[s].local = 0
        BY <3>7, <3>9, <4>2 DEF Live
      <4>4. PICK v \in Workers : Numbering(v, s)
        BY <1>0, <3>4, <4>3 DEF CompletionInv, Without
      <4>5. v # w
        BY <2>1, <4>2, <4>4 DEF Numbering
      <4>6. QED
        BY <3>8, <4>4, <4>5 DEF Numbering, At
    <3>10. QED
      BY <3>9 DEF CompletionInv
  <2>6. CASE Die(w)
    <3>1. "died" \in harm'
      BY <2>6 DEF Die
    <3>2. QED
      BY <3>1 DEF CompletionInv, Without
  <2>7. QED
    BY <1>3, <2>2, <2>3, <2>4, <2>5, <2>6 DEF Works
<1>4. ASSUME NEW r \in Requests, Handles(r)
      PROVE  CompletionInv'
  <2>1. \A v \in Workers, s \in Requests : Numbering(v, s) => Numbering(v, s)'
    <3>1. DraftGoes(r) \/ UNCHANGED requests
      BY <1>4 DEF Handles, DiscardDraft, Publish, Discard, Reopen, View,
                  Delete, Reassociate
    <3>2. CASE UNCHANGED requests
      BY <3>2 DEF Numbering, At
    <3>3. CASE DraftGoes(r)
      BY <3>3, GoesType DEF Numbering, At, Inv1, TypeInv
    <3>4. QED
      BY <3>1, <3>2, <3>3
  <2>2. \E claims : Edits(r, claims)
    BY <1>4, DiscardDraftType, PublishType, DiscardType, ReopenType, ViewType,
       DeleteType, ReassociateType DEF Handles, Inv1
  <2>3. QED
    BY <1>0, <2>1, <2>2, EditsNumbers, CompletionKept
<1>5. QED
  BY <1>1, <1>2, <1>3, <1>4, NextCases

(* A creation that ends has numbered its review request, unless a worker   *)
(* died or two numbers were read together: however many creations, edits   *)
(* and deletions there are.                                                *)
THEOREM CreationsComplete == Spec => []CreationCompletes
<1>1. Init => CompletionInv
  BY PostingAssumption DEF Init, CompletionInv, Live
<1>2. Inv1 /\ CompletionInv /\ [Next]_vars => CompletionInv'
  BY CompletionStep
<1>3. CompletionInv => CreationCompletes
  BY DEF CompletionInv, CreationCompletes, Numbering, At, For
<1>4. QED
  BY <1>1, <1>2, <1>3, Inv1Correct, PTL DEF Spec

(***************************************************************************)
(* One claim of a commit ID.                                               *)
(***************************************************************************)

Clean == Without({"met", "number", "reassociated"})

(* A worker that has checked a commit ID and not yet written it.           *)
Asked(w) == requests[w] # Idle /\ requests[w].op \in {"insert", "edit"}
                               /\ requests[w].c # None

(* No two review requests hold a commit ID, no review request holds one    *)
(* that a worker is about to write to another, and no two workers are      *)
(* about to write the same.                                                *)
Disjoint == \A r, s \in Requests : r # s => Held(r) \cap Held(s) = {}
Free == \A w \in Workers, s \in Requests :
          Asked(w) /\ s # requests[w].r => requests[w].c \notin Held(s)
Alone == \A v, w \in Workers :
           v # w /\ Asked(v) /\ Asked(w) => requests[v].c # requests[w].c

(* So no index ever refuses what the checks let pass.                      *)
Unrefused == Without({"view refused", "publication refused"}) /\ ~orphans

ClaimInv == Clean => Disjoint /\ Free /\ Alone /\ Unrefused

(* The workers that go on have asked for nothing else.                     *)
Asking ==
  \A v \in Workers : Asked(v)' => /\ Asked(v)
                                  /\ requests'[v].r = requests[v].r
                                  /\ requests'[v].c = requests[v].c

LEMMA FewerAsking ==
  ASSUME Fewer
  PROVE  Asking
  BY DEF Fewer, Asking, Asked

(* One review request takes commit IDs that nobody else holds or is about  *)
(* to take.                                                                *)
LEMMA TakeClaims ==
  ASSUME Disjoint, Free, Alone, Asking,
         NEW r \in Requests, NEW claims,
         \A s \in Requests \ {r} : rr'[s] = rr[s],
         Held(r)' \subseteq Held(r) \cup claims,
         \A s \in Requests \ {r} : claims \cap Held(s) = {},
         \A v \in Workers : Asked(v)' /\ requests[v].r # r =>
                              requests[v].c \notin claims
  PROVE  Disjoint' /\ Free' /\ Alone'
<1>1. \A s \in Requests \ {r} : Held(s)' = Held(s)
  BY DEF Held, Live
<1>2. Disjoint'
  <2>1. SUFFICES ASSUME NEW s \in Requests, NEW u \in Requests, s # u
                 PROVE  Held(s)' \cap Held(u)' = {}
    BY DEF Disjoint
  <2>2. Held(s) \cap Held(u) = {}
    BY <2>1 DEF Disjoint
  <2>3. CASE s # r /\ u # r
    BY <1>1, <2>2, <2>3
  <2>4. CASE s = r
    BY <1>1, <2>1, <2>2, <2>4
  <2>5. CASE u = r
    BY <1>1, <2>1, <2>2, <2>5
  <2>6. QED
    BY <2>3, <2>4, <2>5
<1>3. Free'
  <2>1. SUFFICES ASSUME NEW v \in Workers, NEW s \in Requests,
                        Asked(v)', s # requests'[v].r
                 PROVE  requests'[v].c \notin Held(s)'
    BY DEF Free
  <2>2. /\ Asked(v) /\ requests'[v].r = requests[v].r
        /\ requests'[v].c = requests[v].c
    BY <2>1 DEF Asking
  <2>3. requests[v].c \notin Held(s)
    BY <2>1, <2>2 DEF Free
  <2>4. CASE s = r
    BY <2>1, <2>2, <2>3, <2>4
  <2>5. CASE s # r
    BY <1>1, <2>2, <2>3, <2>5
  <2>6. QED
    BY <2>4, <2>5
<1>4. Alone'
  <2>1. SUFFICES ASSUME NEW v \in Workers, NEW w \in Workers, v # w,
                        Asked(v)', Asked(w)'
                 PROVE  requests'[v].c # requests'[w].c
    BY DEF Alone
  <2>2. /\ Asked(v) /\ requests'[v].c = requests[v].c
        /\ Asked(w) /\ requests'[w].c = requests[w].c
    BY <2>1 DEF Asking
  <2>3. QED
    BY <2>1, <2>2 DEF Alone
<1>5. QED
  BY <1>2, <1>3, <1>4

LEMMA TakeNothing ==
  ASSUME Disjoint, Free, Alone, Asking, NEW r \in Requests,
         \A s \in Requests \ {r} : rr'[s] = rr[s],
         Held(r)' \subseteq Held(r) \cup {}
  PROVE  Disjoint' /\ Free' /\ Alone'
<1> DEFINE claims == {}
<1>1. /\ Held(r)' \subseteq Held(r) \cup claims
      /\ \A s \in Requests \ {r} : claims \cap Held(s) = {}
      /\ \A v \in Workers : Asked(v)' /\ requests[v].r # r =>
                                requests[v].c \notin claims
  OBVIOUS
<1> HIDE DEF claims
<1>2. QED
  BY <1>1, TakeClaims

(* A commit ID that no review request and no draft has is held by none.    *)
LEMMA NotHeld ==
  ASSUME NEW r \in Requests, NEW c \in Commits,
         Holders(c, r) = {}, Drafted(c, r) = {}, Numbered(c, r) = {},
         TypeOK
  PROVE  \A s \in Requests \ {r} : c \notin Held(s)
<1>1. SUFFICES ASSUME NEW s \in Requests \ {r}, c \in Held(s)
               PROVE  FALSE
  OBVIOUS
<1>2. Live(s) /\ c \in {rr[s].commit, rr[s].number, rr[s].draft}
  BY <1>1 DEF Held
<1>3. rr[s].number \in Numbers \cup {None} /\ c # None
  BY <1>1, <1>2, RowFields, PostingAssumption
<1>4. c # rr[s].commit /\ c # rr[s].draft
  BY <1>1, <1>2 DEF Holders, Drafted
<1>5. c # rr[s].number
  BY <1>1, <1>2, <1>3 DEF Numbered
<1>6. QED
  BY <1>2, <1>4, <1>5

(* A worker begins to claim a commit ID, if at all, that is free.          *)
LEMMA BeginClaims ==
  ASSUME TypeOK, Disjoint, Free, Alone, UNCHANGED rr,
         NEW w \in Workers, NEW q \in Request, Begin(w, q),
         q.c # None =>
           /\ Claiming(q.c) = {}
           /\ \A s \in Requests \ {q.r} : q.c \notin Held(s)
  PROVE  Disjoint' /\ Free' /\ Alone'
<1>1. /\ requests[w] = Idle /\ requests'[w] = q /\ q # Idle
      /\ \A v \in Workers \ {w} : requests'[v] = requests[v]
  BY BeginType
<1>2. \A s \in Requests : Held(s)' = Held(s)
  BY DEF Held, Live
<1>3. \A v \in Workers \ {w} : Asked(v)' => Asked(v)
  BY <1>1 DEF Asked
<1>4. \A v \in Workers \ {w} : Asked(v) /\ q.c # None => requests[v].c # q.c
  BY DEF Claiming, Asked
<1>5. Disjoint'
  BY <1>2 DEF Disjoint
<1>6. Free'
  <2>1. SUFFICES ASSUME NEW v \in Workers, NEW s \in Requests,
                        Asked(v)', s # requests'[v].r
                 PROVE  requests'[v].c \notin Held(s)'
    BY DEF Free
  <2>2. CASE v = w
    <3>1. q.c # None /\ s # q.r
      BY <1>1, <2>1, <2>2 DEF Asked
    <3>2. QED
      BY <1>1, <1>2, <2>2, <3>1
  <2>3. CASE v # w
    BY <1>1, <1>2, <1>3, <2>1, <2>3 DEF Free
  <2>4. QED
    BY <2>2, <2>3
<1>7. Alone'
  <2>1. SUFFICES ASSUME NEW v \in Workers, NEW x \in Workers, v # x,
                        Asked(v)', Asked(x)'
                 PROVE  requests'[v].c # requests'[x].c
    BY DEF Alone
  <2>2. CASE v # w /\ x # w
    BY <1>1, <1>3, <2>1, <2>2 DEF Alone
  <2>3. CASE v = w
    BY <1>1, <1>3, <1>4, <2>1, <2>3 DEF Asked
  <2>4. CASE x = w
    BY <1>1, <1>3, <1>4, <2>1, <2>4 DEF Asked
  <2>5. QED
    BY <2>2, <2>3, <2>4
<1>8. QED
  BY <1>5, <1>6, <1>7

(* A review request whose commit ID or number is in the way of another.    *)
LEMMA ClashHeld ==
  ASSUME TypeOK, NEW r \in Requests, NEW c \in Commits \cup {None},
         Clash(c, r) \/ NumberClash(c, r)
  PROVE  c \in Commits /\ \E s \in Requests \ {r} : c \in Held(s)
<1>1. c \in Commits
  BY DEF Clash, NumberClash
<1>2. \E s \in Requests \ {r} : Live(s) /\ c \in {rr[s].commit, rr[s].number}
  BY DEF Clash, NumberClash, Holders, Numbered
<1>3. QED
  BY <1>1, <1>2 DEF Held

LEMMA ClaimStep ==
  ASSUME Inv1, ClaimInv, [Next]_vars
  PROVE  ClaimInv'
<1> SUFFICES ASSUME Clean'
             PROVE  Disjoint' /\ Free' /\ Alone' /\ Unrefused'
  BY DEF ClaimInv
<1>0. /\ harm \subseteq harm' /\ Inv1' /\ TypeOK
      /\ Clean /\ Disjoint /\ Free /\ Alone /\ Unrefused
  <2>1. harm \subseteq harm' /\ Inv1' /\ TypeOK
    BY Inv1Step DEF Inv1, TypeInv
  <2>2. Clean
    BY <2>1 DEF Clean, Without
  <2>3. QED
    BY <2>1, <2>2 DEF ClaimInv
<1>1. CASE UNCHANGED vars
  <2>1. Asking
    BY <1>1 DEF vars, Asking, Asked
  <2>2. \A s \in Requests : Held(s)' = Held(s)
    BY <1>1 DEF vars, Held, Live
  <2>3. QED
    BY <1>0, <1>1, <2>1, <2>2
       DEF vars, Disjoint, Free, Alone, Asking, Asked, Unrefused, Without
<1>2. ASSUME NEW w \in Workers, NEW r \in Requests, Begins(w, r)
      PROVE  Disjoint' /\ Free' /\ Alone' /\ Unrefused'
  <2>1. ASSUME NEW c \in Commits \cup {None}, Create(w, r, c)
        PROVE  Disjoint' /\ Free' /\ Alone' /\ Unrefused'
    <3> DEFINE q == [op |-> "insert", r |-> r, c |-> c, local |-> 0]
    <3>1. /\ q \in Request /\ q.c = c /\ q.r = r /\ Begin(w, q)
          /\ UNCHANGED <<rr, orphans>> /\ harm' = harm \cup Met(c)
          /\ c # None => /\ Holders(c, r) = {} /\ Drafted(c, r) = {}
                         /\ Numbered(c, r) = {}
      BY <2>1 DEF Create, Request, Stages
    <3>2. c # None => Claiming(c) = {}
      BY <3>1 DEF Met, Clean, Without
    <3>3. c # None => \A s \in Requests \ {r} : c \notin Held(s)
      BY <1>0, <3>1, NotHeld
    <3> HIDE DEF q
    <3>4. Disjoint' /\ Free' /\ Alone'
      BY <1>0, <3>1, <3>2, <3>3, BeginClaims
    <3>5. Unrefused'
      BY <1>0, <3>1 DEF Unrefused, Without, Met
    <3>6. QED
      BY <3>4, <3>5
  <2>2. ASSUME NEW c \in Commits, EditDraft(w, r, c)
        PROVE  Disjoint' /\ Free' /\ Alone' /\ Unrefused'
    <3> DEFINE q == [op |-> "edit", r |-> r, c |-> c,
                     draft |-> IF rr[r].draft = NoDraft
                                 THEN "none" ELSE "held"]
    <3>1. /\ q \in Request /\ q.c = c /\ q.r = r /\ Begin(w, q)
          /\ UNCHANGED <<rr, orphans>>
          /\ harm' = harm \cup Met(c)
                       \cup (IF NumberClash(c, r) THEN {"number"} ELSE {})
          /\ Holders(c, r) = {} /\ Drafted(c, r) = {}
      BY <2>2 DEF EditDraft, Request
    <3>2. c # None /\ Claiming(c) = {} /\ ~NumberClash(c, r)
      BY <3>1, PostingAssumption DEF Met, Clean, Without
    <3>3. \A s \in Requests \ {r} : c \notin Held(s)
      BY <1>0, <3>1, <3>2, NotHeld DEF NumberClash
    <3> HIDE DEF q
    <3>4. Disjoint' /\ Free' /\ Alone'
      BY <1>0, <3>1, <3>2, <3>3, BeginClaims
    <3>5. Unrefused'
      BY <1>0, <3>1, <3>2 DEF Unrefused, Without, Met
    <3>6. QED
      BY <3>4, <3>5
  <2>3. QED
    BY <1>2, <2>1, <2>2 DEF Begins
<1>3. ASSUME NEW w \in Workers, Works(w)
      PROVE  Disjoint' /\ Free' /\ Alone' /\ Unrefused'
  <2>1. PICK r \in Requests, c \in Commits \cup {None} :
          requests[w].r = r /\ requests[w].c = c
    BY <1>0, <1>3, RequestFields DEF Works, Insert, RefuseInsert, ReadNumber,
         SaveNumber, CreateDraft, Die, SaveDraft, At
  <2>2. At(w, "insert") \/ At(w, "edit") =>
          c = None \/ \A s \in Requests \ {r} : c \notin Held(s)
    BY <1>0, <2>1 DEF Free, Asked, At
  <2>3. CASE Insert(w)
    <3>1. /\ requests[w] # Idle /\ requests[w].op = "insert"
          /\ requests[w].op \in Stages /\ UNCHANGED <<orphans, harm>>
      BY <2>3 DEF Insert, At, Stages
    <3>2. /\ requests'[w] # Idle /\ requests'[w].op = "number"
          /\ \A v \in Workers \ {w} : requests'[v] = requests[v]
      BY <1>0, <3>1, <2>3, GoType DEF Insert, Stages
    <3>3. Asking /\ ~Asked(w)'
      BY <3>2 DEF Asking, Asked
    <3>4. /\ rr'[r] = Inserted(c)
          /\ \A s \in Requests \ {r} : rr'[s] = rr[s]
      BY <2>1, <2>3, InsertType DEF Inv1
    <3>5. Held(r)' \subseteq Held(r) \cup ({c} \cap Commits)
      BY <3>4, PostingAssumption DEF Held, Inserted, NumberOf
    <3>6. \A s \in Requests \ {r} : ({c} \cap Commits) \cap Held(s) = {}
      BY <2>2, <3>1, PostingAssumption DEF At
    <3>7. \A v \in Workers : Asked(v)' /\ requests[v].r # r =>
                               requests[v].c \notin {c} \cap Commits
      <4>1. SUFFICES ASSUME NEW v \in Workers, Asked(v)', c \in Commits
                     PROVE  requests[v].c # c
        OBVIOUS
      <4>2. v # w /\ Asked(v) /\ Asked(w)
        BY <2>1, <3>1, <3>3, <4>1, PostingAssumption DEF Asking, Asked
      <4>3. QED
        BY <1>0, <2>1, <4>2 DEF Alone
    <3>8. Disjoint' /\ Free' /\ Alone'
      BY <1>0, <3>3, <3>4, <3>5, <3>6, <3>7, TakeClaims
    <3>9. QED
      BY <1>0, <3>1, <3>8 DEF Unrefused, Without
  <2>4. CASE RefuseInsert(w)
    <3>1. At(w, "insert") /\ (Clash(c, r) \/ NumberClash(c, r))
      BY <2>1, <2>4 DEF RefuseInsert
    <3>2. c \in Commits /\ \E s \in Requests \ {r} : c \in Held(s)
      BY <1>0, <3>1, ClashHeld
    <3>3. QED
      BY <2>2, <3>1, <3>2, PostingAssumption
  <2>5. CASE ReadNumber(w)
    <3>1. /\ requests'[w] # Idle /\ requests'[w].op = "save number"
          /\ \A v \in Workers \ {w} : requests'[v] = requests[v]
      BY <2>5, ReadNumberType DEF Inv1
    <3>2. Asking
      BY <3>1 DEF Asking, Asked
    <3>3. UNCHANGED <<rr, orphans>>
          /\ harm' \subseteq harm \cup {"numbered together"}
      BY <2>5 DEF ReadNumber
    <3>4. Held(r)' \subseteq Held(r) \cup {}
      BY <3>3 DEF Held, Live
    <3>5. Disjoint' /\ Free' /\ Alone'
      BY <1>0, <3>2, <3>3, <3>4, TakeNothing
    <3>6. QED
      BY <1>0, <3>3, <3>5 DEF Unrefused, Without
  <2>6. CASE SaveNumber(w)
    <3>1. /\ requests[w] # Idle /\ requests[w].op = "save number"
          /\ requests[w].op \in Stages /\ UNCHANGED <<orphans, harm>>
      BY <2>6 DEF SaveNumber, At, Stages
    <3>2. PICK n \in Nat : requests[w].local = n
      BY <1>0, <3>1, RequestFields
    <3>3. Live(r)
      BY <2>1, <3>1 DEF At, Inv1, CreationInv
    <3>4. /\ \A s \in Requests \ {r} : rr'[s] = rr[s]
          /\ Held(r)' = Held(r) /\ (End(w) \/ Go(w, "draft"))
      BY <2>1, <2>6, <3>2, <3>3, SaveNumberType DEF Inv1
    <3>5. Asking
      <4>1. CASE End(w)
        BY <1>0, <4>1, EndFewer, FewerAsking
      <4>2. CASE Go(w, "draft")
        <5>1. /\ requests'[w].op = "draft"
              /\ \A v \in Workers \ {w} : requests'[v] = requests[v]
          BY <1>0, <3>1, <4>2, GoType DEF Stages
        <5>2. QED
          BY <5>1 DEF Asking, Asked
      <4>3. QED
        BY <3>4, <4>1, <4>2
    <3>6. Held(r)' \subseteq Held(r) \cup {}
      BY <3>4
    <3>7. Disjoint' /\ Free' /\ Alone'
      BY <1>0, <3>4, <3>5, <3>6, TakeNothing
    <3>8. QED
      BY <1>0, <3>1, <3>7 DEF Unrefused, Without
  <2>7. CASE CreateDraft(w)
    <3>1. /\ Edits(r, {}) /\ End(w)
      BY <2>1, <2>7, CreateDraftType DEF Inv1
    <3>2. UNCHANGED <<orphans, harm>>
      BY <2>7 DEF CreateDraft
    <3>3. Disjoint' /\ Free' /\ Alone'
      BY <1>0, <3>1, EndFewer, FewerAsking, TakeNothing DEF Edits
    <3>4. QED
      BY <1>0, <3>2, <3>3 DEF Unrefused, Without
  <2>8. CASE Die(w)
    <3>1. UNCHANGED <<rr, orphans>> /\ End(w) /\ harm' = harm \cup {"died"}
      BY <2>8 DEF Die
    <3>2. Held(r)' \subseteq Held(r) \cup {}
      BY <3>1 DEF Held, Live
    <3>3. Disjoint' /\ Free' /\ Alone'
      BY <1>0, <3>1, <3>2, EndFewer, FewerAsking, TakeNothing
    <3>4. QED
      BY <1>0, <3>1, <3>3 DEF Unrefused, Without
  <2>9. CASE SaveDraft(w)
    <3>1. At(w, "edit") /\ c \in Commits /\ UNCHANGED <<orphans, harm>>
      BY <1>0, <2>1, <2>9, RequestFields DEF SaveDraft, At
    <3>2. Edits(r, {c}) /\ End(w)
      BY <2>1, <2>9, <3>1, SaveDraftType DEF Inv1
    <3>3. Asking /\ ~Asked(w)'
      BY <1>0, <3>2, EndFewer, FewerAsking, EndType DEF Asked
    <3>4. \A s \in Requests \ {r} : {c} \cap Held(s) = {}
      BY <2>2, <3>1, PostingAssumption
    <3>5. \A v \in Workers : Asked(v)' /\ requests[v].r # r =>
                               requests[v].c \notin {c}
      <4>1. SUFFICES ASSUME NEW v \in Workers, Asked(v)'
                     PROVE  requests[v].c # c
        OBVIOUS
      <4>2. v # w /\ Asked(v) /\ Asked(w)
        BY <2>1, <3>1, <3>3, <4>1, PostingAssumption DEF Asking, Asked, At
      <4>3. QED
        BY <1>0, <2>1, <4>2 DEF Alone
    <3>6. Disjoint' /\ Free' /\ Alone'
      BY <1>0, <3>2, <3>3, <3>4, <3>5, TakeClaims DEF Edits
    <3>7. QED
      BY <1>0, <3>1, <3>6 DEF Unrefused, Without
  <2>10. QED
    BY <1>3, <2>3, <2>4, <2>5, <2>6, <2>7, <2>8, <2>9 DEF Works
<1>4. ASSUME NEW r \in Requests, Handles(r)
      PROVE  Disjoint' /\ Free' /\ Alone' /\ Unrefused'
  <2>1. Asking
    <3>1. DraftGoes(r) \/ UNCHANGED requests
      BY <1>4 DEF Handles, DiscardDraft, Publish, Discard, Reopen, View,
                  Delete, Reassociate
    <3>2. QED
      BY <1>0, <3>1, GoesFewer, SameFewer, FewerAsking
  <2>2. ASSUME NEW c \in Commits \cup {None, NoDraft}, Live(r),
               c \in {rr[r].draft, rr[r].number}, c # NoDraft
        PROVE  ~Clash(c, r)
    <3>1. SUFFICES ASSUME Clash(c, r)
                   PROVE  FALSE
      OBVIOUS
    <3>2. c \in Commits /\ \E s \in Requests \ {r} : c \in Held(s)
      BY <1>0, <2>2, <3>1, ClashHeld
    <3>3. c \in Held(r)
      BY <2>2, <3>2 DEF Held
    <3>4. QED
      BY <1>0, <3>2, <3>3 DEF Disjoint
  <2>3. UNCHANGED orphans
    BY <1>4 DEF Handles, DiscardDraft, Publish, Discard, Reopen, View, Delete,
                Reassociate
  <2>4. "view refused" \notin harm' /\ "publication refused" \notin harm'
    <3>1. CASE Publish(r)
      <4>1. ~Clash(rr[r].draft, r)
        BY <2>2, <3>1, RowFields DEF Publish, Addressed
      <4>2. QED
        BY <1>0, <3>1, <4>1 DEF Publish, Unrefused, Without
    <3>2. CASE View(r)
      <4>1. ~Clash(rr[r].number, r)
        BY <2>2, <3>2, RowFields, PostingAssumption DEF View
      <4>2. QED
        BY <1>0, <3>2, <4>1 DEF View, Unrefused, Without
    <3>3. CASE \E c \in Numbers : Reassociate(r, c)
      BY <1>0, <3>3 DEF Reassociate, Met, Unrefused, Without
    <3>4. CASE DiscardDraft(r) \/ Discard(r) \/ Reopen(r) \/ Delete(r)
      BY <1>0, <3>4 DEF DiscardDraft, Discard, Reopen, Delete, Unrefused,
                        Without
    <3>5. QED
      BY <1>4, <3>1, <3>2, <3>3, <3>4 DEF Handles
  <2>5. Disjoint' /\ Free' /\ Alone'
    <3>1. CASE Edits(r, {})
      BY <1>0, <2>1, <3>1, TakeNothing DEF Edits
    <3>2. ASSUME NEW c \in Numbers, Reassociate(r, c)
          PROVE  Disjoint' /\ Free' /\ Alone'
      <4>1. Edits(r, {c}) /\ c \in Commits /\ UNCHANGED requests
        BY <3>2, ReassociateType, PostingAssumption DEF Inv1, Reassociate
      <4>2. /\ Claiming(c) = {} /\ Holders(c, r) = {} /\ Drafted(c, r) = {}
            /\ Numbered(c, r) = {}
        BY <3>2, <4>1, PostingAssumption
           DEF Reassociate, Met, Clean, Without
      <4>3. \A s \in Requests \ {r} : {c} \cap Held(s) = {}
        BY <1>0, <4>1, <4>2, NotHeld
      <4>4. \A v \in Workers : Asked(v)' /\ requests[v].r # r =>
                                 requests[v].c \notin {c}
        BY <4>1, <4>2 DEF Claiming, Asked
      <4>5. QED
        BY <1>0, <2>1, <4>1, <4>3, <4>4, TakeClaims DEF Edits
    <3>3. QED
      BY <1>4, <3>1, <3>2, DiscardDraftType, PublishType, DiscardType,
         ReopenType, ViewType, DeleteType DEF Handles, Inv1
  <2>6. QED
    BY <2>3, <2>4, <2>5, <1>0 DEF Unrefused, Without
<1>5. QED
  BY <1>1, <1>2, <1>3, <1>4, NextCases

LEMMA ClaimCorrect == Spec => []ClaimInv
<1>1. Init => ClaimInv
  BY PostingAssumption DEF Init, ClaimInv, Disjoint, Free, Alone, Unrefused,
     Asked, Held, Live, Without
<1>2. Inv1 /\ ClaimInv /\ [Next]_vars => ClaimInv'
  BY ClaimStep
<1>3. QED
  BY <1>1, <1>2, Inv1Correct, PTL DEF Spec

(* No two review requests or drafts claim one commit ID, for any number of *)
(* review requests and of requests that are served at the same time.       *)
THEOREM OneClaimEach == Spec => []OneClaim
<1>1. ClaimInv => OneClaim
  <2>1. SUFFICES ASSUME Disjoint, NEW c \in Commits
                 PROVE  Cardinality({r \in Requests :
                          Live(r) /\ c \in {rr[r].commit, rr[r].draft}}) <= 1
    BY DEF ClaimInv, OneClaim, Clean
  <2> DEFINE S == {r \in Requests : Live(r) /\ c \in {rr[r].commit, rr[r].draft}}
  <2>2. \A r, s \in S : r = s
    BY <2>1 DEF Disjoint, Held
  <2> HIDE DEF S
  <2>3. CASE S = {}
    BY <2>3, FS_EmptySet DEF S
  <2>4. CASE S # {}
    <3>1. PICK r \in S : S = {r}
      BY <2>2, <2>4
    <3>2. Cardinality(S) = 1
      BY <3>1, FS_Singleton
    <3>3. QED
      BY <3>2 DEF S
  <2>5. QED
    BY <2>3, <2>4
<1>2. QED
  BY <1>1, ClaimCorrect, PTL

(* No publication and no answer is refused by an index.                    *)
THEOREM NothingRefused == Spec => []NeverRefused
<1>1. ClaimInv => NeverRefused
  BY DEF ClaimInv, NeverRefused, Clean, Unrefused
<1>2. QED
  BY <1>1, ClaimCorrect, PTL

(* No refused creation leaves a diff set history behind.                   *)
THEOREM NothingIsLeft == Spec => []NothingLeft
<1>1. ClaimInv => NothingLeft
  BY DEF ClaimInv, NothingLeft, Clean, Unrefused
<1>2. QED
  BY <1>1, ClaimCorrect, PTL
=============================================================================
