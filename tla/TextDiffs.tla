------------------------------ MODULE TextDiffs ------------------------------
(***************************************************************************)
(* How two texts of the wiki differ: the line diff that the reviewer of a  *)
(* draft sees beside the published version, and the unified diff that the  *)
(* agent's tool prints of its input and its output.                        *)
(*                                                                         *)
(*   apps/server/src/api/wiki-draft-review.ts   computeLineDiff            *)
(*   apps/worker/src/autolearn-cli.ts           computeUnifiedDiff         *)
(*                                                                         *)
(* Texts are sequences of lines, split as JavaScript splits them: they     *)
(* hold at least one, the empty one.  The loops over tables and lists are  *)
(* recursive functions over the indices they run through.                  *)
(***************************************************************************)
EXTENDS Naturals, FiniteSets, Sequences, SequencesExt

-----------------------------------------------------------------------------
(* What both have in common: the table and the walk back through it.  The  *)
(* review calls the kinds of lines unchanged, added and removed.           *)

Larger(a, b) == IF a > b THEN a ELSE b

Cells(b, a) == (0..Len(b)) \X (0..Len(a))

\* One cell of dp, from those filled before it.
Cell(dp, b, a, i, j) ==
  IF i = 0 \/ j = 0 THEN 0
  ELSE IF b[i] = a[j] THEN dp[<<i - 1, j - 1>>] + 1
  ELSE Larger(dp[<<i - 1, j>>], dp[<<i, j - 1>>])

\* dp: the length of the longest common subsequence of the first i and the first j lines.
Common(b, a) ==
  LET dp[c \in Cells(b, a)] == Cell(dp, b, a, c[1], c[2]) IN dp

\* A line of a diff, and the cell at which the walk met it: the places of the line in the
\* texts that hold it.
Edit(type, line, i, j) == [type |-> type, line |-> line, at |-> i, to |-> j]

\* The choice of the walk when the lines differ, with the cells swapped.
PrefersAddedWrong(dp, i, j) == j > 0 /\ (i = 0 \/ dp[<<i, j - 1>>] <= dp[<<i - 1, j>>])

PrefersAdded(dp, i, j) == j > 0 /\ (i = 0 \/ dp[<<i, j - 1>>] >= dp[<<i - 1, j>>])

\* What the walk makes of the cell i, j, after what it makes of the cells before it.
Steps(ops, dp, b, a, i, j) ==
  IF i = 0 /\ j = 0 THEN <<>>
  ELSE IF i > 0 /\ j > 0 /\ b[i] = a[j] THEN Append(ops[<<i - 1, j - 1>>], Edit("equal", b[i], i, j))
  ELSE IF PrefersAdded(dp, i, j) THEN Append(ops[<<i, j - 1>>], Edit("insert", a[j], i, j))
  ELSE Append(ops[<<i - 1, j>>], Edit("delete", b[i], i, j))

\* The walk back from the last cell, already in the order of the texts.
Script(b, a) ==
  LET dp == Common(b, a)
      ops[c \in Cells(b, a)] == Steps(ops, dp, b, a, c[1], c[2])
  IN ops[<<Len(b), Len(a)>>]

-----------------------------------------------------------------------------
(* computeLineDiff and classifyMateriality: the first MaxLines lines.      *)

CONSTANTS
  Lines,       \* lines a text may hold, Blank among them
  Blank,       \* the empty line
  Notice,      \* the line that says where the diff was truncated
  Longest,     \* bound: lines of a text
  MaxLines,    \* maxLines
  Threshold    \* MATERIALITY_THRESHOLD, in percent

ASSUME DiffAssumption ==
  Blank \in Lines /\ {Longest, MaxLines} \subseteq Nat \ {0} /\ Threshold \in 0..100

VARIABLES before, after   \* the published text and the draft

diffVars == <<before, after>>

Texts == UNION {[1..n -> Lines] : n \in 1..Longest}
Empty == <<Blank>>

Cut(s) == SubSeq(s, 1, IF Len(s) > MaxLines THEN MaxLines ELSE Len(s))

\* A diff of texts longer than that ends with a notice, as one more unchanged line.
Noticed(ops, p, d) ==
  IF Len(p) > MaxLines \/ Len(d) > MaxLines THEN Append(ops, Edit("equal", Notice, 0, 0)) ELSE ops

\* Nothing published: every line of the draft is added, without a comparison.
Diff(p, d) ==
  IF p = Empty THEN IF d = Empty THEN <<>> ELSE [i \in DOMAIN d |-> Edit("insert", d[i], 0, i)]
  ELSE Noticed(Script(Cut(p), Cut(d)), p, d)

Changed(ops) == Cardinality({i \in DOMAIN ops : ops[i].type # "equal"})

LineCount(p) == IF p = Empty THEN 0 ELSE Len(p)

\* classifyMateriality: of everything when nothing is published.
IsMaterial(p, d) ==
  100 * (IF LineCount(p) = 0 THEN 1 ELSE Changed(Diff(p, d)))
      > Threshold * (IF LineCount(p) = 0 THEN 1 ELSE LineCount(p))

-----------------------------------------------------------------------------
DiffInit == before = <<>> /\ after = <<>>

\* A reviewer opens a draft.
Compare ==
  /\ before = <<>>
  /\ before' \in Texts /\ after' \in Texts

DiffNext == Compare

DiffSpec == DiffInit /\ [][DiffNext]_diffVars

-----------------------------------------------------------------------------
(* computeUnifiedDiff: the hunks that show the changes of the script with  *)
(* some lines of context.                                                  *)

CONSTANTS
  WikiLines,    \* lines a text may hold
  MaxLength,    \* bound: lines of a text
  Context       \* context: unchanged lines around a change

ASSUME ContextAssumption == {MaxLength, Context} \subseteq Nat \ {0}

VARIABLES old, new   \* the input and the output wiki

udVars == <<old, new>>

WikiTexts == UNION {[1..n -> WikiLines] : n \in 1..MaxLength}

\* The kinds of edits that have a line of the old text, and of the new one.
OfOld == {"equal", "delete"}
OfNew == {"equal", "insert"}

\* The lines that the edits of some kinds have.
TextOf(ops, kinds) ==
  LET text[k \in 0..Len(ops)] ==
        IF k = 0 THEN <<>>
        ELSE IF ops[k].type \in kinds THEN Append(text[k - 1], ops[k].line) ELSE text[k - 1]
  IN text[Len(ops)]

\* The window of the change k: it and at most Context unchanged lines on either side, up
\* to the next change; the end is the first one after it.
Window(ops, k) ==
  [start |-> Min({s \in 1..k : k <= s + Context /\ \A l \in s..(k - 1) : ops[l].type = "equal"}),
   end   |-> 1 + Max({e \in k..Len(ops) :
                        e <= k + Context /\ \A l \in (k + 1)..e : ops[l].type = "equal"})]

\* A window that meets the last range extends it.
Joined(rs, r) ==
  IF rs # <<>> /\ r.start <= rs[Len(rs)].end
    THEN [rs EXCEPT ![Len(rs)].end = Larger(@, r.end)]
    ELSE Append(rs, r)

\* The ranges of edits to show, change by change.
Ranges(ops) ==
  LET ranges[k \in 0..Len(ops)] ==
        IF k = 0 THEN <<>>
        ELSE IF ops[k].type = "equal" THEN ranges[k - 1]
        ELSE Joined(ranges[k - 1], Window(ops, k))
  IN ranges[Len(ops)]

\* The edits of a range that have a line of the text meant.
Having(ops, r, kinds) == {k \in r.start..(r.end - 1) : ops[k].type \in kinds}

\* A hunk: where its first line is in either text, zero when it has none there, and how
\* many lines of either it has.
HunkOf(ops, r) ==
  LET edits == SubSeq(ops, r.start, r.end - 1)
      first(kinds) == Min(Having(ops, r, kinds))
  IN [beforeStart |-> IF Having(ops, r, OfOld) = {} THEN 0 ELSE ops[first(OfOld)].at,
      beforeCount |-> Len(TextOf(edits, OfOld)),
      afterStart  |-> IF Having(ops, r, OfNew) = {} THEN 0 ELSE ops[first(OfNew)].to,
      afterCount  |-> Len(TextOf(edits, OfNew)),
      edits       |-> edits]

Unified(b, a) ==
  IF b = a THEN <<>>
  ELSE LET ops == Script(b, a)
           rs  == Ranges(ops)
       IN  [i \in DOMAIN rs |-> HunkOf(ops, rs[i])]

-----------------------------------------------------------------------------
UdInit == old = <<>> /\ new = <<>>

\* A run of the tool rewrites a wiki.
Rewrite ==
  /\ old = <<>>
  /\ old' \in WikiTexts /\ new' \in WikiTexts

UdNext == Rewrite

UdSpec == UdInit /\ [][UdNext]_udVars

-----------------------------------------------------------------------------
\* The lengths of the common subsequences of two texts.
CommonLengths(b, a) ==
  {Cardinality(S) : S \in {S \in SUBSET DOMAIN b :
     \E f \in [S -> DOMAIN a] :
        \A i, j \in S : b[i] = a[f[i]] /\ (i < j => f[i] < f[j])}}

\* What the reviewer is shown is the whole difference and the least one: the lines not
\* added are the published text, those not removed are the draft, as far as they are
\* compared, with a notice if and only if lines of either are left out; no diff keeps more
\* lines unchanged; and a draft equal to what is published is never a material change.
DiffSound ==
  before # <<>> =>
    LET h == Diff(before, after)
        p == IF before = Empty THEN <<>> ELSE Cut(before)
        d == IF before # Empty THEN Cut(after) ELSE IF after = Empty THEN <<>> ELSE after
        notice == IF before # Empty /\ ~(p = before /\ d = after) THEN <<Notice>> ELSE <<>>
    IN  /\ TextOf(h, OfOld) = p \o notice
        /\ TextOf(h, OfNew) = d \o notice
        /\ \A n \in CommonLengths(p, d) : n + Len(notice) <= Len(TextOf(h, {"equal"}))
        /\ (before = after /\ before # Empty) => ~IsMaterial(before, after)

\* A patch tool at work: the text written after the first i hunks of a diff.
Patched(b, hs) ==
  LET end(i) == IF i = 0 THEN 0 ELSE hs[i].beforeStart + hs[i].beforeCount - 1
      out[i \in 0..Len(hs)] ==
        IF i = 0 THEN <<>>
        ELSE out[i - 1] \o SubSeq(b, end(i - 1) + 1, hs[i].beforeStart - 1)
                        \o TextOf(hs[i].edits, OfNew)
  IN out[Len(hs)] \o SubSeq(b, end(Len(hs)) + 1, Len(b))

\* The diff is a patch: applied to the input wiki at the places its headers give, over
\* lines that are there, it makes the output wiki; it is empty only for equal texts; its
\* hunks follow each other with at least a line between them; and it changes no more
\* lines than it must.
UnifiedSound ==
  old # <<>> =>
    LET hs == Unified(old, new)
    IN  /\ Patched(old, hs) = new
        /\ (hs = <<>>) <=> (old = new)
        /\ \A i \in DOMAIN hs :
             /\ TextOf(hs[i].edits, OfOld) =
                  SubSeq(old, hs[i].beforeStart, hs[i].beforeStart + hs[i].beforeCount - 1)
             /\ TextOf(hs[i].edits, OfNew) =
                  SubSeq(new, hs[i].afterStart, hs[i].afterStart + hs[i].afterCount - 1)
             /\ i > 1 => /\ hs[i].beforeStart > hs[i - 1].beforeStart + hs[i - 1].beforeCount
                         /\ hs[i].afterStart > hs[i - 1].afterStart + hs[i - 1].afterCount
        /\ \A n \in CommonLengths(old, new) : n <= Len(TextOf(Script(old, new), {"equal"}))
=============================================================================
