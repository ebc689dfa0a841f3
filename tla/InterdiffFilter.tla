---------------------------- MODULE InterdiffFilter ----------------------------
(***************************************************************************)
(* The difference between two revisions of a diff, for one file: the       *)
(* opcodes from the file as patched by the first (lines i) to the file as  *)
(* patched by the second (lines j), and the filter that turns those which  *)
(* neither diff made into "filtered-equal".                                *)
(*                                                                         *)
(* One step is one turn of the main loop of filter_interdiff_opcodes().    *)
(* Which lines the differ finds modified is its input: the lines that the  *)
(* two files do not share, and the lines of each that its own diff wrote.  *)
(***************************************************************************)
EXTENDS Integers, Sequences, FiniteSets

CONSTANT MaxLines  \* bound on the lines of a file

ASSUME LinesAssumption == MaxLines \in Nat

VARIABLES
  lines,  \* the two files: their lengths, and what differs
  todo,   \* the opcodes left, the one put back for another turn first
  orig,   \* the ranges that the first diff wrote, and where the loop is
  new,    \* the same of the second diff
  out     \* the opcodes yielded

filterVars == <<lines, todo, orig, new, out>>

None == <<>>

Op(tag, i1, i2, j1, j2) ==
  [tag |-> tag, i1 |-> i1, i2 |-> i2, j1 |-> j1, j2 |-> j2]

Smaller(x, y) == IF x < y THEN x ELSE y
Larger(x, y) == IF x < y THEN y ELSE x

-----------------------------------------------------------------------------
(* The input *)

(* The line that ends the run of lines of S that x is in. *)
RunEnd(S, x) ==
  CHOOSE e \in x..MaxLines :
    (\A y \in x..e - 1 : y \in S) /\ e \notin S

(* get_opcodes(), from lines i and j on.  A run of modified lines gives a  *)
(* replace as long as both have lines, then an insert or a delete.         *)
OpcodeAt(d, i, j) ==
  LET a == RunEnd(d.aModified, i) - i
      b == RunEnd(d.bModified, j) - j
      same == CHOOSE n \in 1..MaxLines + 1 :
                /\ \A k \in 0..n - 1 : /\ i + k < d.aLen
                                       /\ i + k \notin d.aModified
                                       /\ j + k \notin d.bModified
                /\ \/ i + n = d.aLen
                   \/ i + n \in d.aModified
                   \/ j + n \in d.bModified
  IN IF a > 0 /\ b > 0
     THEN Op("replace", i, i + Smaller(a, b), j, j + Smaller(a, b))
     ELSE IF a > 0 THEN Op("delete", i, i + a, j, j)
     ELSE IF b > 0 THEN Op("insert", i, i, j, j + b)
     ELSE Op("equal", i, i + same, j, j + same)

Opcodes(d) ==
  LET from[n \in 0..2 * MaxLines] ==
        IF n = 0 THEN <<>>
        ELSE LET s == from[n - 1]
                 i == IF s = <<>> THEN 0 ELSE s[Len(s)].i2
                 j == IF s = <<>> THEN 0 ELSE s[Len(s)].j2
             IN IF i = d.aLen /\ j = d.bLen THEN s
                ELSE Append(s, OpcodeAt(d, i, j))
  IN from[2 * MaxLines]

(* _get_interdiff_change_ranges(): the runs of the lines that were written *)
ChangeRanges(S) ==
  LET after[x \in 0..MaxLines] ==
        IF x = MaxLines THEN <<>>
        ELSE IF x \in S /\ x - 1 \notin S
        THEN <<<<x, RunEnd(S, x)>>>> \o after[x + 1]
        ELSE after[x + 1]
  IN after[0]

Side(S) ==
  [ranges |-> ChangeRanges(S), prev |-> None,
   entered |-> FALSE, prevEntered |-> FALSE]

Inputs(a, b) ==
  {d \in [aLen : {a}, bLen : {b},
          aModified : SUBSET (0..a - 1), bModified : SUBSET (0..b - 1),
          aWritten : SUBSET (0..a - 1), bWritten : SUBSET (0..b - 1)] :
     a - Cardinality(d.aModified) = b - Cardinality(d.bModified)}

FilterInit ==
  /\ \E a, b \in 0..MaxLines : lines \in Inputs(a, b)
  /\ todo = Opcodes(lines)
  /\ orig = Side(lines.aWritten)
  /\ new = Side(lines.bWritten)
  /\ out = <<>>

-----------------------------------------------------------------------------
(* The turn of an opcode *)

Has(side) == side.ranges # <<>>
Lo(side) == side.ranges[1][1]
Hi(side) == side.ranges[1][2]

(* Leave the ranges that end at or before line x. *)
AdvancePast(side, x) ==
  IF Has(side) /\ Hi(side) < x
  THEN [ranges |-> Tail(side.ranges), prev |-> side.ranges[1],
        entered |-> FALSE, prevEntered |-> side.entered]
  ELSE side

Advance(side, x) ==
  LET k == Cardinality({r \in DOMAIN side.ranges : side.ranges[r][2] <= x})
  IN IF k = 0 THEN side
     ELSE [ranges |-> SubSeq(side.ranges, k + 1, Len(side.ranges)),
           prev |-> side.ranges[k],
           entered |-> FALSE,
           prevEntered |-> IF k = 1 THEN side.entered ELSE FALSE]

(* Some diff wrote a line, and an opcode is left to filter. *)
Filtered == lines.aWritten \cup lines.bWritten # {}
Turn == Filtered /\ todo # <<>>

Cur == todo[1]
O == Advance(orig, Cur.i1)
N == Advance(new, Cur.j1)

Within(side, from, to) ==
  from # to /\ Has(side) /\ Lo(side) <= from /\ from < Hi(side)
OrigValid == Within(O, Cur.i1, Cur.i2)
NewValid == Within(N, Cur.j1, Cur.j2)

AtEndOf(side, x) ==
  side.prev # None /\ ~side.prevEntered /\ x = side.prev[2] /\ Has(side)

Enter(side, valid) ==
  IF valid /\ Cur.tag # "equal" THEN [side EXCEPT !.entered = TRUE] ELSE side

Yield(op) == out' = Append(out, op)

(* Phase 1: an opcode that starts before a range and reaches into it. *)
OrigStraddlesAtStart ==
  /\ Has(O) /\ Cur.tag \in {"replace", "delete"}
  /\ Cur.i1 <= Lo(O) /\ Lo(O) < Cur.i2
OrigStraddles ==
  /\ Has(O) /\ Cur.tag \in {"replace", "delete"}
  /\ Cur.i1 < Lo(O) /\ Lo(O) < Cur.i2
NewStraddles ==
  /\ Has(N) /\ Cur.tag \in {"replace", "insert"}
  /\ Cur.j1 < Lo(N) /\ Lo(N) < Cur.j2
Straddles ==
  IF Cur.tag = "replace" THEN OrigStraddles /\ NewStraddles
                         ELSE OrigStraddles \/ NewStraddles

(* How many lines of each file come before the split. *)
SplitLength ==
  CASE Cur.tag = "insert" -> <<0, Lo(N) - Cur.j1>>
    [] Cur.tag = "delete" -> <<Lo(O) - Cur.i1, 0>>
    [] OTHER -> LET delta == Larger(Lo(O) - Cur.i1, Lo(N) - Cur.j1)
                IN <<delta, delta>>

PrefixIsBoundary ==
  \/ Cur.tag = "insert" /\ AtEndOf(N, Cur.j1)
  \/ Cur.tag = "delete" /\ AtEndOf(O, Cur.i1)

SplitBefore ==
  /\ Turn
  /\ Straddles
  /\ LET i == Cur.i1 + SplitLength[1]
         j == Cur.j1 + SplitLength[2]
     IN /\ Yield(Op(IF PrefixIsBoundary THEN Cur.tag ELSE "filtered-equal",
                    Cur.i1, i, Cur.j1, j))
        /\ todo' = <<Op(Cur.tag, i, Cur.i2, j, Cur.j2)>> \o Tail(todo)
  /\ orig' = O /\ new' = N
  /\ UNCHANGED lines

(* Phase 2: an opcode outside of the ranges, which may still be one that   *)
(* the differ moved past the end of a range.                               *)
OrigBoundary ==
  /\ Cur.tag = "delete" /\ Has(O) /\ O.prev # None /\ ~O.prevEntered
  /\ \/ Cur.i1 = O.prev[2]
     \/ /\ Cur.i1 > O.prev[2]
        /\ N.prev # None /\ Has(N)
        /\ N.prev[2] < Cur.j1 /\ Cur.j1 < Lo(N)

NewBoundary == Cur.tag = "insert" /\ AtEndOf(N, Cur.j1)

Outside == Turn /\ ~Straddles /\ ~OrigValid /\ ~NewValid

KeepAtBoundary ==
  /\ Outside
  /\ OrigBoundary \/ NewBoundary
  /\ LET i == IF OrigBoundary THEN Smaller(Cur.i2, Lo(O)) ELSE Cur.i2
         j == IF NewBoundary THEN Smaller(Cur.j2, Lo(N)) ELSE Cur.j2
     IN /\ Yield(Op(Cur.tag, Cur.i1, i, Cur.j1, j))
        /\ todo' = IF i = Cur.i2 /\ j = Cur.j2 THEN Tail(todo)
                   ELSE <<Op(Cur.tag,
                             IF OrigBoundary THEN i ELSE Cur.i1, Cur.i2,
                             IF NewBoundary THEN j ELSE Cur.j1, Cur.j2)>>
                        \o Tail(todo)
  /\ orig' = O /\ new' = N
  /\ UNCHANGED lines

FilterOut ==
  /\ Outside
  /\ ~OrigBoundary /\ ~NewBoundary
  /\ Yield([Cur EXCEPT !.tag = "filtered-equal"])
  /\ todo' = Tail(todo)
  /\ orig' = O /\ new' = N
  /\ UNCHANGED lines

(* Phase 2: an opcode that starts in a range, capped at its end. *)
CapNone(side, end) == end
Cap(side, end) == IF Has(side) THEN Hi(side) ELSE end
ValidEnd(side, valid, end) ==
  IF valid THEN Smaller(end, Cap(side, end)) ELSE end

OrigEnd == ValidEnd(O, OrigValid, Cur.i2)
NewEnd == ValidEnd(N, NewValid, Cur.j2)

(* The length of an equal or a replace, the same in both files. *)
EvenLength ==
  LET i == OrigEnd - Cur.i1
      j == NewEnd - Cur.j1
      most == IF OrigEnd > Cap(O, Cur.i2) THEN j
              ELSE IF NewEnd > Cap(N, Cur.j2) THEN i
              ELSE Larger(i, j)
  IN Smaller(most, Smaller(Cur.i2 - Cur.i1, Cur.j2 - Cur.j1))

EvenReplace == Cur.tag = "replace"
Even == Cur.tag \in {"equal", "replace"}

(* Where the rest of the opcode starts. *)
RestStart(side, start, end, valid, cap) ==
  IF Has(side) /\ end + 1 > cap THEN cap
  ELSE IF ~Has(side) /\ valid < end THEN valid
  ELSE start

InRange == Turn /\ ~Straddles /\ (OrigValid \/ NewValid)

Keep ==
  /\ InRange
  /\ LET i == IF Even THEN Cur.i1 + EvenLength ELSE OrigEnd
         j == IF Even THEN Cur.j1 + EvenLength ELSE NewEnd
         iCap == IF Even THEN i ELSE Cap(O, Cur.i2)
         jCap == IF Even THEN j ELSE Cap(N, Cur.j2)
     IN /\ Yield(Op(Cur.tag, Cur.i1, i, Cur.j1, j))
        /\ todo' = IF i = Cur.i2 /\ j = Cur.j2 THEN Tail(todo)
                   ELSE <<Op(Cur.tag,
                             RestStart(O, Cur.i1, Cur.i2, i, iCap), Cur.i2,
                             RestStart(N, Cur.j1, Cur.j2, j, jCap), Cur.j2)>>
                        \o Tail(todo)
  /\ orig' = Enter(O, OrigValid) /\ new' = Enter(N, NewValid)
  /\ UNCHANGED lines

(* Neither diff wrote a line: nothing is filtered. *)
Unfiltered ==
  /\ ~Filtered
  /\ todo # <<>>
  /\ out' = out \o todo
  /\ todo' = <<>>
  /\ UNCHANGED <<lines, orig, new>>

FilterNext == Unfiltered \/ SplitBefore \/ KeepAtBoundary \/ FilterOut \/ Keep

FilterSpec == FilterInit /\ [][FilterNext]_filterVars

-----------------------------------------------------------------------------
(* Properties *)

(* An equal and a replace are as long in one file as in the other wherever *)
(* they were split, and the assertion made on the way (processors.py:687)  *)
(* never fails.                                                            *)
EvenOpcodes ==
  /\ LET all == out \o todo IN
     \A k \in DOMAIN all :
       all[k].tag \in {"equal", "replace"} =>
         all[k].i2 - all[k].i1 = all[k].j2 - all[k].j1
  /\ InRange /\ Even /\ OrigEnd > Cap(O, Cur.i2)
       => NewEnd <= Cap(N, Cur.j2)

(* However often opcodes are split and put back, what was yielded and what *)
(* is left cover both files from their first line to their last, in order  *)
(* and without a line lost or shown twice, and stay aligned.               *)
Tiled ==
  /\ EvenOpcodes
  /\ LET all == out \o todo IN
     /\ all # <<>> => /\ all[1].i1 = 0 /\ all[1].j1 = 0
                      /\ all[Len(all)].i2 = lines.aLen
                      /\ all[Len(all)].j2 = lines.bLen
     /\ \A k \in 1..Len(all) - 1 :
          all[k].i2 = all[k + 1].i1 /\ all[k].j2 = all[k + 1].j1

(* The loop ends, which nothing in it counts: every turn moves past some   *)
(* line, and what is put back is never where the opcode taken was.         *)
Left == IF todo = <<>> THEN 0
        ELSE (lines.aLen - todo[1].i1) + (lines.bLen - todo[1].j1)
Progress == [][Left' < Left]_filterVars

(* The lines of an opcode that its own diff wrote. *)
WrittenDeleted(op) ==
  (op.i1..op.i2 - 1) \cap lines.aWritten \cap lines.aModified
WrittenInserted(op) ==
  (op.j1..op.j2 - 1) \cap lines.bWritten \cap lines.bModified

(* A line that a diff wrote and the other does not have is never filtered  *)
(* from an insert or a delete, and what is filtered of a replace hides no  *)
(* more than one of the diffs.                                             *)
ChangesKept ==
  \A k \in DOMAIN out :
    out[k].tag = "filtered-equal" =>
      /\ WrittenDeleted(out[k]) = {} \/ WrittenInserted(out[k]) = {}
      /\ out[k].i1 = out[k].i2 \/ out[k].j1 = out[k].j2 =>
           WrittenDeleted(out[k]) = {} /\ WrittenInserted(out[k]) = {}

(* Of an insert or a delete, what no diff wrote is only kept in between of *)
(* two ranges: nothing before the first or after the last.                 *)
Between(S, from, to) ==
  \/ from..to - 1 \subseteq S
  \/ (\E x \in S : x < from) /\ (\E y \in S : y >= to)

UpstreamFiltered ==
  Filtered =>
    \A k \in DOMAIN out :
      /\ out[k].tag = "delete" =>
           Between(lines.aWritten, out[k].i1, out[k].i2)
      /\ out[k].tag = "insert" =>
           Between(lines.bWritten, out[k].j1, out[k].j2)

(* Nothing that a diff wrote is filtered: "It will only output            *)
(* non-"equal" opcodes if it falls into the ranges of lines dictated in    *)
(* the uploaded diff files."                                               *)
NothingHidden ==
  \A k \in DOMAIN out :
    out[k].tag = "filtered-equal" =>
      WrittenDeleted(out[k]) = {} /\ WrittenInserted(out[k]) = {}
=============================================================================
