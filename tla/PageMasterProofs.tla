------------------------- MODULE PageMasterProofs -------------------------
(***************************************************************************)
(* The two stacks of snapshots of PageItemModel implement UndoTimeline:    *)
(* the line is the undo stack, the workspace and the redo stack from its   *)
(* top, for all files, workspaces and limits.  What the operations make of *)
(* a workspace does not matter.                                            *)
(* The thumbnails of PagePreview: a page is rendered through a context     *)
(* that lives, and a pending request is served, for every list of pages,   *)
(* number of threads and documents.                                        *)
(* The workspace of PageItemModel: every operation leaves it well-formed,  *)
(* a drop is a splice and the splits of an export partition the pages.     *)
(***************************************************************************)
EXTENDS PageItemModel, PagePreview, DataInduction

\* What Timeline substitutes for its line.
LineOf(u, s, r) == u \o <<s>> \o Reverse(r)

\* The stacks and the workspace hold elements of S.
Holds(S, u, s, r) == u \in Seq(S) /\ s \in S /\ r \in Seq(S)

\* They hold something, and no more than the limit allows.
IInv ==
    /\ \E S : Holds(S, undo, state, redo)
    /\ Len(undo) <= MaxSteps /\ Len(redo) <= MaxSteps

-----------------------------------------------------------------------------
(* The line of states, element by element. *)

LEMMA Reversed ==
    ASSUME NEW S, NEW r \in Seq(S)
    PROVE  /\ Reverse(r) \in Seq(S) /\ Len(Reverse(r)) = Len(r)
           /\ \A i \in 1 .. Len(r) : Reverse(r)[i] = r[Len(r) - i + 1]
<1>1. Len(r) \in Nat /\ r \in [1 .. Len(r) -> S]
  BY LenProperties
<1>2. \A i \in 1 .. Len(r) : Len(r) - i + 1 \in 1 .. Len(r)
  BY <1>1
<1>3. [i \in 1 .. Len(r) |-> r[Len(r) - i + 1]] \in [1 .. Len(r) -> S]
  BY <1>1, <1>2
<1>4. Reverse(r) = [i \in 1 .. Len(r) |-> r[Len(r) - i + 1]]
  BY DEF Reverse
<1> QED
  BY <1>1, <1>3, <1>4

LEMMA LineElements ==
    ASSUME NEW S, NEW u, NEW s, NEW r, Holds(S, u, s, r)
    PROVE  /\ Len(u) \in Nat /\ Len(r) \in Nat
           /\ LineOf(u, s, r) \in Seq(S) /\ Len(LineOf(u, s, r)) = Len(u) + 1 + Len(r)
           /\ \A i \in 1 .. Len(u) : LineOf(u, s, r)[i] = u[i]
           /\ LineOf(u, s, r)[Len(u) + 1] = s
           /\ \A i \in Len(u) + 2 .. Len(u) + 1 + Len(r) :
                 LineOf(u, s, r)[i] = r[Len(u) + Len(r) + 2 - i]
<1> DEFINE z == u \o <<s>>
           y == Reverse(r)
           n == Len(u)
           m == Len(r)
           w == z \o y
<1>1. u \in Seq(S) /\ <<s>> \in Seq(S) /\ Len(<<s>>) = 1 /\ <<s>>[1] = s /\ r \in Seq(S)
  BY DEF Holds
<1>2. n \in Nat /\ m \in Nat
  BY <1>1, LenProperties
<1>3. y \in Seq(S) /\ Len(y) = m /\ \A i \in 1 .. m : y[i] = r[m - i + 1]
  BY <1>1, Reversed
<1>4. /\ z \in Seq(S) /\ Len(z) = n + 1
      /\ \A i \in 1 .. n + 1 : z[i] = IF i <= n THEN u[i] ELSE s
  <2>1. /\ z \in Seq(S) /\ Len(z) = Len(u) + Len(<<s>>)
        /\ \A i \in 1 .. Len(u) + Len(<<s>>) : z[i] = IF i <= Len(u) THEN u[i] ELSE <<s>>[i - Len(u)]
    BY <1>1, ConcatProperties, Zenon
  <2> HIDE DEF z
  <2>2. Len(z) = n + 1
    BY <1>1, <2>1
  <2>3. ASSUME NEW i \in 1 .. n + 1 PROVE z[i] = IF i <= n THEN u[i] ELSE s
    <3>1. z[i] = IF i <= n THEN u[i] ELSE <<s>>[i - n]
      BY <1>1, <2>1
    <3>2. CASE i <= n
      BY <3>1, <3>2
    <3>3. CASE ~(i <= n)
      <4>1. i - n = 1
        BY <1>2, <3>3
      <4> QED
        BY <1>1, <3>1, <3>3, <4>1
    <3> QED
      BY <3>2, <3>3
  <2> QED
    BY <2>1, <2>2, <2>3
<1>5. LineOf(u, s, r) = w
  BY DEF LineOf
<1> HIDE DEF y, z, n, m
<1>6. /\ w \in Seq(S) /\ Len(w) = n + 1 + m
      /\ \A i \in 1 .. n + 1 + m : w[i] = IF i <= n + 1 THEN z[i] ELSE y[i - (n + 1)]
  <2>1. /\ w \in Seq(S) /\ Len(w) = Len(z) + Len(y)
        /\ \A i \in 1 .. Len(z) + Len(y) : w[i] = IF i <= Len(z) THEN z[i] ELSE y[i - Len(z)]
    BY <1>3, <1>4, ConcatProperties, Zenon
  <2> QED
    BY <1>3, <1>4, <2>1, Zenon
<1> HIDE DEF w
<1>7. \A i \in 1 .. n : w[i] = u[i]
  BY <1>2, <1>4, <1>6
<1>8. w[n + 1] = s
  BY <1>2, <1>4, <1>6
<1>9. ASSUME NEW i \in n + 2 .. n + 1 + m PROVE w[i] = r[n + m + 2 - i]
  <2> DEFINE j == i - (n + 1)
  <2>1. /\ j \in 1 .. m /\ i \in 1 .. n + 1 + m /\ ~(i <= n + 1)
        /\ m - j + 1 = n + m + 2 - i
    BY <1>2
  <2>2. w[i] = y[j]
    BY <1>6, <2>1
  <2> HIDE DEF j
  <2>3. y[j] = r[m - j + 1]
    BY <1>3, <2>1
  <2> QED
    BY <2>1, <2>2, <2>3
<1> QED
  BY <1>2, <1>5, <1>6, <1>7, <1>8, <1>9 DEF n, m

\* There is only one such line.
LEMMA OneLine ==
    ASSUME NEW S, NEW u, NEW s, NEW r, Holds(S, u, s, r), NEW line \in Seq(S),
           Len(line) = Len(u) + 1 + Len(r),
           \A i \in 1 .. Len(u) : line[i] = u[i],
           line[Len(u) + 1] = s,
           \A i \in Len(u) + 2 .. Len(u) + 1 + Len(r) : line[i] = r[Len(u) + Len(r) + 2 - i]
    PROVE  LineOf(u, s, r) = line
<1> DEFINE w == LineOf(u, s, r)
           n == Len(u)
           m == Len(r)
<1>1. /\ n \in Nat /\ m \in Nat /\ w \in Seq(S) /\ Len(w) = n + 1 + m
      /\ \A i \in 1 .. n : w[i] = u[i]
      /\ w[n + 1] = s
      /\ \A i \in n + 2 .. n + 1 + m : w[i] = r[n + m + 2 - i]
  BY LineElements
<1>2. /\ Len(line) = n + 1 + m
      /\ \A i \in 1 .. n : line[i] = u[i]
      /\ line[n + 1] = s
      /\ \A i \in n + 2 .. n + 1 + m : line[i] = r[n + m + 2 - i]
  OBVIOUS
<1> HIDE DEF w, n, m
<1>3. ASSUME NEW i \in 1 .. Len(w) PROVE w[i] = line[i]
  <2>1. i \in 1 .. n \/ i = n + 1 \/ i \in n + 2 .. n + 1 + m
    BY <1>1
  <2> QED
    BY <1>1, <1>2, <2>1
<1>4. w = line
  BY <1>1, <1>2, <1>3, SeqEqual
<1> QED
  BY <1>4 DEF w

-----------------------------------------------------------------------------
(* What undo, redo and the limit do to the line. *)

\* updateUndoRedoSteps keeps the newest snapshots.
LEMMA ClampedSteps ==
    ASSUME NEW S, NEW x \in Seq(S)
    PROVE  /\ Clamped(x) \in Seq(S) /\ Len(x) \in Nat
           /\ Len(Clamped(x)) = IF Len(x) > MaxSteps THEN MaxSteps ELSE Len(x)
           /\ \A i \in 1 .. Len(Clamped(x)) : Clamped(x)[i] = x[Len(x) - Len(Clamped(x)) + i]
<1> DEFINE n == Len(x)
           c == Clamped(x)
<1>1. n \in Nat /\ MaxSteps \in Nat \ {0}
  BY LenProperties, MaxStepsAssumption
<1>2. CASE n > MaxSteps
  <2> DEFINE a == SubSeq(x, n - MaxSteps + 1, n)
  <2>1. c = a
    BY <1>2 DEF Clamped
  <2>2. /\ n - MaxSteps + 1 \in Int /\ n \in Int
        /\ \A i \in n - MaxSteps + 1 .. n : x[i] \in S
    <3>1. \A i \in n - MaxSteps + 1 .. n : i \in 1 .. n
      BY <1>1, <1>2
    <3> QED
      BY <1>1, <3>1, ElementOfSeq
  <2> HIDE DEF n
  <2>3. /\ a \in Seq(S)
        /\ Len(a) = (IF n - MaxSteps + 1 <= n THEN n - (n - MaxSteps + 1) + 1 ELSE 0)
        /\ \A i \in 1 .. n - (n - MaxSteps + 1) + 1 : a[i] = x[n - MaxSteps + 1 + i - 1]
    BY <2>2, SubSeqProperties
  <2> HIDE DEF a, c
  <2>4. Len(a) = MaxSteps
    BY <1>1, <2>3
  <2>5. ASSUME NEW i \in 1 .. MaxSteps PROVE a[i] = x[n - MaxSteps + i]
    <3>1. i \in 1 .. n - (n - MaxSteps + 1) + 1 /\ n - MaxSteps + 1 + i - 1 = n - MaxSteps + i
      BY <1>1
    <3> QED
      BY <2>3, <3>1
  <2> QED
    BY <1>1, <1>2, <2>1, <2>3, <2>4, <2>5 DEF n, c
<1>3. CASE ~(n > MaxSteps)
  <2>1. c = x
    BY <1>3 DEF Clamped
  <2>2. \A i \in 1 .. n : n - n + i = i
    BY <1>1
  <2> QED
    BY <1>1, <1>3, <2>1, <2>2
<1> QED
  BY <1>2, <1>3

\* What the limit leaves of both stacks is a window of the line.
LEMMA KeptLine ==
    ASSUME NEW S, NEW u, NEW s, NEW r, Holds(S, u, s, r)
    PROVE  LineOf(Clamped(u), s, Clamped(r)) =
               SubSeq(LineOf(u, s, r), Len(u) + 1 - Len(Clamped(u)), Len(u) + 1 + Len(Clamped(r)))
<1> DEFINE n == Len(u)
           m == Len(r)
           cu == Clamped(u)
           cr == Clamped(r)
           a == Len(cu)
           b == Len(cr)
           w == LineOf(u, s, r)
           lo == n + 1 - a
           hi == n + 1 + b
           v == SubSeq(w, lo, hi)
<1>1. u \in Seq(S) /\ s \in S /\ r \in Seq(S) /\ MaxSteps \in Nat \ {0}
  BY MaxStepsAssumption DEF Holds
<1>2. /\ cu \in Seq(S) /\ n \in Nat /\ a = (IF n > MaxSteps THEN MaxSteps ELSE n)
      /\ \A i \in 1 .. a : cu[i] = u[n - a + i]
  BY <1>1, ClampedSteps
<1>3. /\ cr \in Seq(S) /\ m \in Nat /\ b = (IF m > MaxSteps THEN MaxSteps ELSE m)
      /\ \A i \in 1 .. b : cr[i] = r[m - b + i]
  BY <1>1, ClampedSteps
<1>4. /\ w \in Seq(S) /\ Len(w) = n + 1 + m
      /\ \A i \in 1 .. n : w[i] = u[i]
      /\ w[n + 1] = s
      /\ \A i \in n + 2 .. n + 1 + m : w[i] = r[n + m + 2 - i]
  BY LineElements
<1> HIDE DEF n, m, a, b, w
<1>5. a \in Nat /\ a <= n /\ b \in Nat /\ b <= m
  BY <1>1, <1>2, <1>3
<1>6. lo \in Int /\ hi \in Int /\ lo <= hi /\ hi - lo + 1 = a + 1 + b
  BY <1>2, <1>3, <1>5
<1>7. \A i \in lo .. hi : i \in 1 .. n + 1 + m
  BY <1>2, <1>3, <1>5
<1>8. \A i \in 1 .. a + 1 + b : lo + i - 1 = n - a + i
  BY <1>2, <1>3, <1>5
<1> HIDE DEF lo, hi
<1>9. \A i \in lo .. hi : w[i] \in S
  BY <1>4, <1>7, ElementOfSeq
<1>10. /\ v \in Seq(S) /\ Len(v) = (IF lo <= hi THEN hi - lo + 1 ELSE 0)
       /\ \A i \in 1 .. hi - lo + 1 : v[i] = w[lo + i - 1]
  BY <1>6, <1>9, SubSeqProperties
<1> HIDE DEF v
<1>11. Len(v) = a + 1 + b
  BY <1>6, <1>10
<1>12. ASSUME NEW i \in 1 .. a + 1 + b PROVE v[i] = w[n - a + i]
  BY <1>6, <1>8, <1>10
<1>13. ASSUME NEW i \in 1 .. a PROVE v[i] = cu[i]
  <2>1. i \in 1 .. a + 1 + b /\ n - a + i \in 1 .. n
    BY <1>2, <1>5
  <2> QED
    BY <1>2, <1>4, <1>12, <2>1
<1>14. v[a + 1] = s
  <2>1. a + 1 \in 1 .. a + 1 + b /\ n - a + (a + 1) = n + 1
    BY <1>2, <1>5
  <2>2. v[a + 1] = w[n - a + (a + 1)]
    BY <1>12, <2>1
  <2> QED
    BY <1>4, <2>1, <2>2
<1>15. ASSUME NEW i \in a + 2 .. a + 1 + b PROVE v[i] = cr[a + b + 2 - i]
  <2> DEFINE j == n - a + i
             k == a + b + 2 - i
  <2>1. /\ i \in 1 .. a + 1 + b /\ j \in n + 2 .. n + 1 + m /\ k \in 1 .. b
        /\ n + m + 2 - j = m - b + k
    BY <1>2, <1>3, <1>5
  <2>2. v[i] = w[j]
    BY <1>12, <2>1
  <2> HIDE DEF j, k
  <2>3. w[j] = r[n + m + 2 - j] /\ cr[k] = r[m - b + k]
    BY <1>3, <1>4, <2>1
  <2>4. v[i] = cr[k]
    BY <2>1, <2>2, <2>3
  <2> QED
    BY <2>4 DEF k
<1>16. Holds(S, cu, s, cr)
  BY <1>1, <1>2, <1>3 DEF Holds
<1>17. LineOf(cu, s, cr) = v
  <2> HIDE DEF cu, cr
  <2> QED
    BY <1>10, <1>11, <1>13, <1>14, <1>15, <1>16, OneLine DEF a, b
<1> QED
  BY <1>17 DEF v, w, lo, hi, n, a, b

\* All but the last element, and the last.
LEMMA FrontAndLast ==
    ASSUME NEW S, NEW x \in Seq(S), x # <<>>
    PROVE  /\ Len(x) \in Nat \ {0} /\ Last(x) = x[Len(x)] /\ Last(x) \in S
           /\ Front(x) \in Seq(S) /\ Len(Front(x)) = Len(x) - 1
           /\ \A i \in 1 .. Len(x) - 1 : Front(x)[i] = x[i]
<1> DEFINE n == Len(x)
           f == SubSeq(x, 1, n - 1)
<1>1. n \in Nat \ {0} /\ x[n] \in S
  BY EmptySeq, ElementOfSeq
<1>2. 1 \in Int /\ n - 1 \in Int /\ \A i \in 1 .. n - 1 : x[i] \in S
  BY <1>1, ElementOfSeq
<1>3. Front(x) = f /\ Last(x) = x[n]
  BY DEF Front, Last
<1> HIDE DEF n
<1>4. /\ f \in Seq(S) /\ Len(f) = (IF 1 <= n - 1 THEN n - 1 - 1 + 1 ELSE 0)
      /\ \A i \in 1 .. n - 1 - 1 + 1 : f[i] = x[1 + i - 1]
  BY <1>2, SubSeqProperties
<1> HIDE DEF f
<1>5. Len(f) = n - 1 /\ \A i \in 1 .. n - 1 : f[i] = x[i]
  BY <1>1, <1>4
<1> QED
  BY <1>1, <1>3, <1>4, <1>5 DEF n

\* Moving the present state from the top of one stack to the top of the other
\* leaves the line as it is.
LEMMA MovedLine ==
    ASSUME NEW S, NEW u, NEW s, NEW r, Holds(S, u, s, r), NEW t \in S
    PROVE  LineOf(u, s, Append(r, t)) = LineOf(Append(u, s), t, r)
<1> DEFINE n == Len(u)
           m == Len(r)
           a == Append(u, s)
           b == Append(r, t)
           w == LineOf(a, t, r)
<1>1. u \in Seq(S) /\ s \in S /\ r \in Seq(S)
  BY DEF Holds
<1>2. /\ n \in Nat /\ a \in Seq(S) /\ Len(a) = n + 1 /\ a[n + 1] = s
      /\ \A i \in 1 .. n : a[i] = u[i]
  BY <1>1, AppendProperties, LenProperties
<1>3. /\ m \in Nat /\ b \in Seq(S) /\ Len(b) = m + 1 /\ b[m + 1] = t
      /\ \A i \in 1 .. m : b[i] = r[i]
  BY <1>1, AppendProperties, LenProperties
<1>4. Holds(S, a, t, r) /\ Holds(S, u, s, b)
  BY <1>1, <1>2, <1>3 DEF Holds
<1> HIDE DEF a, b
<1>5. /\ w \in Seq(S) /\ Len(w) = Len(a) + 1 + Len(r)
      /\ \A i \in 1 .. Len(a) : w[i] = a[i]
      /\ w[Len(a) + 1] = t
      /\ \A i \in Len(a) + 2 .. Len(a) + 1 + Len(r) : w[i] = r[Len(a) + Len(r) + 2 - i]
  BY <1>4, LineElements
<1> HIDE DEF w
<1>6. /\ w \in Seq(S) /\ Len(w) = n + 1 + Len(b)
      /\ \A i \in 1 .. n : w[i] = u[i]
      /\ w[n + 1] = s
  BY <1>2, <1>3, <1>5
<1>7. ASSUME NEW i \in n + 2 .. n + 1 + Len(b) PROVE w[i] = b[n + Len(b) + 2 - i]
  <2>1. CASE i = n + 2
    <3>1. n + Len(b) + 2 - i = m + 1 /\ i = Len(a) + 1
      BY <1>2, <1>3, <2>1
    <3> QED
      BY <1>3, <1>5, <3>1
  <2>2. CASE i # n + 2
    <3> DEFINE k == n + Len(b) + 2 - i
    <3>1. k \in 1 .. m /\ i \in Len(a) + 2 .. Len(a) + 1 + Len(r) /\ Len(a) + Len(r) + 2 - i = k
      <4> HIDE DEF m
      <4>1. Len(r) = m /\ n \in Nat
        BY <1>2 DEF m
      <4> QED
        BY <1>2, <1>3, <2>2, <4>1
    <3> HIDE DEF k
    <3>2. w[i] = r[k] /\ b[k] = r[k]
      BY <1>3, <1>5, <3>1
    <3>3. w[i] = b[k]
      BY <3>2
    <3> QED
      BY <3>3 DEF k
  <2> QED
    BY <2>1, <2>2
<1>8. LineOf(u, s, b) = w
  BY <1>4, <1>6, <1>7, OneLine
<1> QED
  BY <1>8 DEF w, a, b

\* A stack is its front and its last element.
LEMMA Rebuilt ==
    ASSUME NEW S, NEW x \in Seq(S), x # <<>>
    PROVE  Append(Front(x), Last(x)) = x
<1> DEFINE f == Front(x)
           l == Last(x)
           a == Append(f, l)
           n == Len(x)
<1>1. /\ n \in Nat \ {0} /\ l = x[n] /\ l \in S /\ f \in Seq(S) /\ Len(f) = n - 1
      /\ \A i \in 1 .. n - 1 : f[i] = x[i]
  BY FrontAndLast
<1> HIDE DEF f, l
<1>2. /\ a \in Seq(S) /\ Len(a) = Len(f) + 1 /\ a[Len(f) + 1] = l
      /\ \A i \in 1 .. Len(f) : a[i] = f[i]
  BY <1>1, AppendProperties
<1> HIDE DEF a, n
<1>3. Len(a) = n /\ a[n] = l
  BY <1>1, <1>2
<1>4. ASSUME NEW i \in 1 .. Len(a) PROVE a[i] = x[i]
  <2>1. i = n \/ i \in 1 .. n - 1
    BY <1>1, <1>3
  <2> QED
    BY <1>1, <1>2, <1>3, <2>1
<1>5. a = x
  BY <1>2, <1>3, <1>4, SeqEqual DEF n
<1> QED
  BY <1>5 DEF a, f, l

-----------------------------------------------------------------------------
(* What a modification does to the line. *)

\* x is u, s and all of the new states but the last.
Extends(x, u, s, new) ==
    /\ Len(x) = Len(u) + Len(new)
    /\ \A i \in 1 .. Len(u) : x[i] = u[i]
    /\ x[Len(u) + 1] = s
    /\ \A i \in 1 .. Len(new) - 1 : x[Len(u) + 1 + i] = new[i]

\* The new states come where the ones undone were.
LEMMA ChangedLine ==
    ASSUME NEW S, NEW u, NEW s, NEW r, Holds(S, u, s, r), NEW new \in Seq(S), new # <<>>,
           NEW x \in Seq(S), Extends(x, u, s, new)
    PROVE  LineOf(x, new[Len(new)], <<>>) = SubSeq(LineOf(u, s, r), 1, Len(u) + 1) \o new
<1> DEFINE n == Len(u)
           m == Len(r)
           k == Len(new)
           w == LineOf(u, s, r)
           h == SubSeq(w, 1, n + 1)
           v == h \o new
<1>1. /\ n \in Nat /\ m \in Nat /\ w \in Seq(S) /\ Len(w) = n + 1 + m
      /\ \A i \in 1 .. n : w[i] = u[i]
      /\ w[n + 1] = s
  BY LineElements
<1>2. k \in Nat \ {0} /\ new[k] \in S
  BY EmptySeq, ElementOfSeq
<1>3. /\ Len(x) = n + k /\ \A i \in 1 .. n : x[i] = u[i]
      /\ x[n + 1] = s
      /\ \A i \in 1 .. k - 1 : x[n + 1 + i] = new[i]
  BY DEF Extends
<1> HIDE DEF n, m, k, w
<1>4. h \in Seq(S) /\ Len(h) = n + 1 /\ \A i \in 1 .. n + 1 : h[i] = w[i]
  <2>1. \A i \in 1 .. n + 1 : i \in 1 .. Len(w)
    BY <1>1
  <2>2. \A i \in 1 .. n + 1 : w[i] \in S
    BY <1>1, <2>1, ElementOfSeq
  <2>3. 1 \in Int /\ n + 1 \in Int /\ 1 <= n + 1
    BY <1>1
  <2> QED
    BY <1>1, <2>2, <2>3, SubSeqProperties
<1> HIDE DEF h
<1>5. /\ v \in Seq(S) /\ Len(v) = n + 1 + k
      /\ \A i \in 1 .. n + 1 + k : v[i] = IF i <= n + 1 THEN h[i] ELSE new[i - (n + 1)]
  <2>1. /\ v \in Seq(S) /\ Len(v) = Len(h) + Len(new)
        /\ \A i \in 1 .. Len(h) + Len(new) : v[i] = IF i <= Len(h) THEN h[i] ELSE new[i - Len(h)]
    BY <1>4, ConcatProperties, Zenon
  <2>2. Len(new) = k
    BY DEF k
  <2> QED
    BY <1>4, <2>1, <2>2, Zenon
<1> HIDE DEF v
<1>6. Len(v) = Len(x) + 1 + Len(<<>>)
  <2>1. Len(<<>>) = 0
    BY EmptySeq
  <2> QED
    BY <1>1, <1>2, <1>3, <1>5, <2>1
<1>7. ASSUME NEW i \in 1 .. Len(x) PROVE v[i] = x[i]
  <2>1. i \in 1 .. n + 1 + k /\ (i \in 1 .. n \/ i = n + 1 \/ i > n + 1)
    BY <1>1, <1>2, <1>3
  <2>2. CASE i \in 1 .. n
    BY <1>1, <1>3, <1>4, <1>5, <2>1, <2>2
  <2>3. CASE i = n + 1
    BY <1>1, <1>3, <1>4, <1>5, <2>1, <2>3
  <2>4. CASE i > n + 1
    <3> DEFINE j == i - (n + 1)
    <3>1. j \in 1 .. k - 1 /\ i = n + 1 + j /\ ~(i <= n + 1)
      <4>1. Len(x) = n + k
        BY <1>3
      <4> QED
        BY <1>1, <1>2, <2>4, <4>1
    <3>2. v[i] = new[j]
      BY <1>5, <2>1, <3>1
    <3> HIDE DEF j
    <3> QED
      BY <1>3, <3>1, <3>2
  <2> QED
    BY <2>1, <2>2, <2>3, <2>4
<1>8. v[Len(x) + 1] = new[k]
  <2> DEFINE j == n + k + 1
  <2>1. j \in 1 .. n + 1 + k /\ ~(j <= n + 1) /\ j - (n + 1) = k
    <3>1. n \in Nat /\ k \in Nat /\ k >= 1
      BY <1>1, <1>2
    <3> QED
      BY <3>1
  <2>2. Len(x) + 1 = j
    BY <1>3
  <2> HIDE DEF j
  <2>3. v[j] = new[j - (n + 1)]
    BY <1>5, <2>1
  <2> QED
    BY <2>1, <2>2, <2>3
<1>9. ASSUME NEW i \in Len(x) + 2 .. Len(x) + 1 + Len(<<>>) PROVE FALSE
  <2>1. Len(<<>>) = 0 /\ Len(x) \in Nat
    BY EmptySeq, LenProperties
  <2> QED
    BY <2>1
<1>10. Holds(S, x, new[k], <<>>)
  BY <1>2, EmptySeq DEF Holds
<1>11. LineOf(x, new[k], <<>>) = v
  BY <1>5, <1>6, <1>7, <1>8, <1>9, <1>10, OneLine
<1> QED
  BY <1>11 DEF v, h, w, n, k

\* The limit leaves the new states at the end of the line, if they are no more
\* than the limit and one.
LEMMA NewEnd ==
    ASSUME NEW S, NEW u, NEW s, NEW r, Holds(S, u, s, r), NEW new \in Seq(S), new # <<>>,
           NEW x \in Seq(S), Extends(x, u, s, new), Len(new) <= MaxSteps + 1,
           NEW line, line = LineOf(Clamped(x), new[Len(new)], <<>>)
    PROVE  /\ Len(line) \in Nat /\ Len(new) \in Nat /\ Len(line) >= Len(new)
           /\ SubSeq(line, Len(line) - Len(new) + 1, Len(line)) = new
<1> DEFINE n == Len(u)
           k == Len(new)
           c == Clamped(x)
           a == Len(c)
<1>1. n \in Nat /\ k \in Nat \ {0} /\ new[k] \in S /\ MaxSteps \in Nat \ {0}
  BY LineElements, EmptySeq, ElementOfSeq, MaxStepsAssumption
<1>2. /\ Len(x) = n + k
      /\ \A i \in 1 .. k - 1 : x[n + 1 + i] = new[i]
  BY DEF Extends
<1>3. /\ c \in Seq(S) /\ a = IF Len(x) > MaxSteps THEN MaxSteps ELSE Len(x)
      /\ \A i \in 1 .. a : c[i] = x[Len(x) - a + i]
  BY ClampedSteps
<1>4. Holds(S, c, new[k], <<>>) /\ Len(<<>>) = 0 /\ line = LineOf(c, new[k], <<>>)
  BY <1>1, <1>3, EmptySeq DEF Holds
<1>5. k <= MaxSteps + 1
  OBVIOUS
<1> HIDE DEF n, k, c
<1>6. /\ line \in Seq(S) /\ Len(line) = a + 1 + 0
      /\ \A i \in 1 .. a : line[i] = c[i]
      /\ line[a + 1] = new[k]
  BY <1>4, LineElements
<1> HIDE DEF a
<1>7. a \in Nat /\ a + 1 >= k /\ a <= n + k
  BY <1>1, <1>2, <1>3, <1>5
<1>8. Len(line) = a + 1
  BY <1>6, <1>7
<1> DEFINE lo == a + 1 - k + 1
           hi == a + 1
           v == SubSeq(line, lo, hi)
<1>9. lo \in Int /\ hi \in Int /\ lo <= hi /\ hi - lo + 1 = k /\ \A i \in lo .. hi : i \in 1 .. Len(line)
  BY <1>1, <1>7, <1>8
<1>10. \A i \in 1 .. k : lo + i - 1 = a + 1 - k + i
  BY <1>1, <1>7
<1> HIDE DEF lo, hi
<1>11. \A i \in lo .. hi : line[i] \in S
  BY <1>6, <1>9, ElementOfSeq
<1>12. /\ v \in Seq(S) /\ Len(v) = (IF lo <= hi THEN hi - lo + 1 ELSE 0)
       /\ \A i \in 1 .. hi - lo + 1 : v[i] = line[lo + i - 1]
  BY <1>9, <1>11, SubSeqProperties
<1> HIDE DEF v
<1>13. Len(v) = k /\ \A i \in 1 .. k : v[i] = line[a + 1 - k + i]
  BY <1>9, <1>10, <1>12
<1>14. ASSUME NEW i \in 1 .. k PROVE v[i] = new[i]
  <2>1. CASE i = k
    <3>1. a + 1 - k + i = a + 1
      BY <1>1, <1>7, <2>1
    <3> QED
      BY <1>6, <1>13, <2>1, <3>1
  <2>2. CASE i # k
    <3> DEFINE j == a + 1 - k + i
    <3>1. j \in 1 .. a /\ Len(x) - a + j = n + 1 + i /\ i \in 1 .. k - 1
      BY <1>1, <1>2, <1>7, <2>2
    <3>2. v[i] = line[j]
      BY <1>13
    <3> HIDE DEF j
    <3>3. line[j] = x[Len(x) - a + j]
      BY <1>3, <1>6, <3>1 DEF a
    <3> QED
      BY <1>2, <3>1, <3>2, <3>3
  <2> QED
    BY <2>1, <2>2
<1>15. v = new
  BY <1>12, <1>13, <1>14, SeqEqual DEF k
<1>16. Len(line) \in Nat /\ k \in Nat /\ Len(line) >= k /\ Len(line) - k + 1 = lo
  BY <1>1, <1>7, <1>8 DEF lo
<1> QED
  BY <1>8, <1>15, <1>16 DEF v, k, hi

-----------------------------------------------------------------------------
(* The steps of the model are steps of the line. *)

Line == LineOf(undo, state, redo)

\* How many states are kept before position n + 1.
LEMMA BeforeIs ==
    ASSUME NEW n \in Nat, NEW limit \in Nat
    PROVE  Timeline!Before(n + 1, limit) = IF n > limit THEN limit ELSE n
<1>1. n + 1 - 1 = n
  OBVIOUS
<1> QED
  BY <1>1 DEF Timeline!Before

\* What a step of the line keeps, as UndoTimeline says it.
LEMMA KeepIs ==
    ASSUME NEW line, NEW p,
           Len(undo') = Timeline!Before(p, MaxSteps),
           Line' = SubSeq(line, p - Timeline!Before(p, MaxSteps),
                          IF Len(line) - p > MaxSteps THEN p + MaxSteps ELSE Len(line))
    PROVE  Timeline!Keep(line, p)
<1>1. (undo \o <<state>> \o Reverse(redo))'
              = SubSeq(line, p - Timeline!Before(p, MaxSteps),
                       IF Len(line) - p > MaxSteps THEN p + MaxSteps ELSE Len(line))
  BY DEF Line, LineOf
<1> QED
  BY <1>1 DEF Timeline!Keep

\* A line of which the limit leaves the present stacks.
LEMMA KeptStep ==
    ASSUME NEW S, NEW u, NEW r, Holds(S, u, state', r),
           undo' = Clamped(u), redo' = Clamped(r),
           NEW line, line = LineOf(u, state', r), NEW p, p = Len(u) + 1
    PROVE  IInv' /\ Timeline!Keep(line, p)
<1> DEFINE n == Len(u)
           m == Len(r)
           a == Len(Clamped(u))
           b == Len(Clamped(r))
<1>1. u \in Seq(S) /\ r \in Seq(S) /\ state' \in S /\ MaxSteps \in Nat
  BY MaxStepsAssumption DEF Holds
<1>2. /\ Clamped(u) \in Seq(S) /\ n \in Nat /\ a = (IF n > MaxSteps THEN MaxSteps ELSE n)
      /\ Clamped(r) \in Seq(S) /\ m \in Nat /\ b = (IF m > MaxSteps THEN MaxSteps ELSE m)
  BY <1>1, ClampedSteps
<1>3. Len(line) = n + 1 + m
  BY LineElements
<1>4. LineOf(Clamped(u), state', Clamped(r)) = SubSeq(line, n + 1 - a, n + 1 + b)
  BY KeptLine
<1>5. p = n + 1
  OBVIOUS
<1> HIDE DEF n, m, a, b
<1>6. IInv'
  <2>1. Holds(S, undo', state', redo')
    BY <1>1, <1>2 DEF Holds
  <2>2. a <= MaxSteps /\ b <= MaxSteps
    BY <1>1, <1>2
  <2> QED
    BY <2>1, <2>2 DEF IInv, a, b
<1>7. Timeline!Before(p, MaxSteps) = a
  BY <1>1, <1>2, <1>5, BeforeIs
<1>8. (IF Len(line) - p > MaxSteps THEN p + MaxSteps ELSE Len(line)) = n + 1 + b
  <2>1. b = (IF m > MaxSteps THEN MaxSteps ELSE m) /\ n \in Nat /\ m \in Nat
    BY <1>2
  <2>2. Len(line) - p = m
    BY <1>3, <1>5, <2>1
  <2>3. CASE m > MaxSteps
    BY <1>5, <2>1, <2>2, <2>3
  <2>4. CASE ~(m > MaxSteps)
    BY <1>3, <2>1, <2>2, <2>4
  <2> QED
    BY <2>3, <2>4
<1>9. Line' = SubSeq(line, p - a, n + 1 + b)
  <2>1. Line' = LineOf(Clamped(u), state', Clamped(r))
    BY DEF Line, LineOf
  <2>2. n + 1 - a = p - a
    <3>1. n \in Nat /\ a \in Int
      BY <1>1, <1>2
    <3> QED
      BY <1>5, <3>1
  <2> QED
    BY <1>4, <2>1, <2>2
<1>10. Len(undo') = Timeline!Before(p, MaxSteps)
  BY <1>7 DEF a
<1>11. Line' = SubSeq(line, p - Timeline!Before(p, MaxSteps),
                      IF Len(line) - p > MaxSteps THEN p + MaxSteps ELSE Len(line))
  BY <1>7, <1>8, <1>9
<1> QED
  BY <1>6, <1>10, <1>11, KeepIs

\* A stack within the limit is left as it is.
LEMMA WithinLimit ==
    ASSUME NEW x, ~(Len(x) > MaxSteps)
    PROVE  Clamped(x) = x
BY DEF Clamped

-----------------------------------------------------------------------------
(* Each operation. *)

\* undo moves the position back on the same line.
LEMMA UndoStep == IInv /\ Undo => IInv' /\ Timeline!Undo
<1> SUFFICES ASSUME IInv, Undo PROVE IInv' /\ Timeline!Undo
  OBVIOUS
<1> DEFINE f == Front(undo)
           l == Last(undo)
           q == Append(redo, state)
<1>1. PICK S : Holds(S, undo, state, redo)
  BY DEF IInv
<1>2. undo \in Seq(S) /\ redo \in Seq(S) /\ state \in S /\ Len(undo) <= MaxSteps
  BY <1>1 DEF Holds, IInv
<1>3. undo # <<>> /\ state' = l /\ undo' = f /\ redo' = Clamped(q)
  BY DEF Undo
<1>4. l \in S /\ f \in Seq(S) /\ Len(undo) \in Nat \ {0} /\ Len(f) = Len(undo) - 1
  BY <1>2, <1>3, FrontAndLast
<1>5. q \in Seq(S)
  BY <1>2, AppendProperties
<1>6. Append(f, l) = undo
  BY <1>2, <1>3, Rebuilt
<1> HIDE DEF f, l
<1>7. Holds(S, f, l, redo)
  BY <1>2, <1>4 DEF Holds
<1>8. LineOf(f, l, q) = Line
  <2>1. LineOf(f, l, Append(redo, state)) = LineOf(Append(f, l), state, redo)
    BY <1>2, <1>7, MovedLine, SMT
  <2> QED
    BY <1>6, <2>1 DEF Line
<1>9. undo' = Clamped(f)
  <2>1. ~(Len(f) > MaxSteps)
    BY <1>2, <1>4, MaxStepsAssumption
  <2> QED
    BY <1>3, <2>1, WithinLimit
<1> HIDE DEF q
<1>10. Holds(S, f, state', q)
  BY <1>3, <1>4, <1>5 DEF Holds
<1>11. PICK line, p : line = Line /\ p = Len(undo) + 1 - 1
  OBVIOUS
<1>12. p = Len(f) + 1 /\ Len(undo) + 1 > 1
  BY <1>4, <1>11
<1>13. IInv' /\ Timeline!Keep(line, p)
  BY <1>3, <1>8, <1>9, <1>10, <1>11, <1>12, KeptStep
<1>14. Timeline!Undo
  <2>1. Len(undo) + 1 > 1
    BY <1>12
  <2>2. Timeline!Keep(line, p)
    BY <1>13
  <2>3. line = undo \o <<state>> \o Reverse(redo) /\ p = (Len(undo) + 1) - 1
    BY <1>11 DEF Line, LineOf
  <2>4. Timeline!Keep(undo \o <<state>> \o Reverse(redo), (Len(undo) + 1) - 1)
    BY <2>2, <2>3, Zenon
  <2> QED
    BY <2>1, <2>4 DEF Timeline!Undo
<1> QED
  BY <1>13, <1>14

\* redo moves it on.
LEMMA RedoStep == IInv /\ Redo => IInv' /\ Timeline!Redo
<1> SUFFICES ASSUME IInv, Redo PROVE IInv' /\ Timeline!Redo
  OBVIOUS
<1> DEFINE f == Front(redo)
           l == Last(redo)
           a == Append(undo, state)
<1>1. PICK S : Holds(S, undo, state, redo)
  BY DEF IInv
<1>2. undo \in Seq(S) /\ redo \in Seq(S) /\ state \in S /\ Len(redo) <= MaxSteps
  BY <1>1 DEF Holds, IInv
<1>3. redo # <<>> /\ state' = l /\ redo' = f /\ undo' = Clamped(a)
  BY DEF Redo
<1>4. l \in S /\ f \in Seq(S) /\ Len(redo) \in Nat \ {0} /\ Len(f) = Len(redo) - 1
  BY <1>2, <1>3, FrontAndLast
<1>5. a \in Seq(S) /\ Len(a) = Len(undo) + 1 /\ Len(undo) \in Nat
  BY <1>2, AppendProperties, LenProperties
<1>6. Append(f, l) = redo
  BY <1>2, <1>3, Rebuilt
<1> HIDE DEF f, l
<1>7. Holds(S, undo, state, f)
  BY <1>2, <1>4 DEF Holds
<1>8. LineOf(a, l, f) = Line
  <2>1. LineOf(undo, state, Append(f, l)) = LineOf(Append(undo, state), l, f)
    BY <1>4, <1>7, MovedLine, SMT
  <2> QED
    BY <1>6, <2>1 DEF Line
<1>9. redo' = Clamped(f)
  <2>1. ~(Len(f) > MaxSteps)
    BY <1>2, <1>4, MaxStepsAssumption
  <2> QED
    BY <1>3, <2>1, WithinLimit
<1> HIDE DEF a
<1>10. Holds(S, a, state', f)
  BY <1>3, <1>4, <1>5 DEF Holds
<1>11. PICK line, p : line = Line /\ p = Len(undo) + 1 + 1
  OBVIOUS
<1>12. p = Len(a) + 1
  BY <1>5, <1>11
<1>13. IInv' /\ Timeline!Keep(line, p)
  BY <1>3, <1>8, <1>9, <1>10, <1>11, <1>12, KeptStep
<1>14. Len(undo) + 1 < Len(Line)
  <2>1. Len(Line) = Len(undo) + 1 + Len(redo)
    BY <1>1, LineElements DEF Line
  <2> QED
    BY <1>4, <1>5, <2>1
<1> QED
  BY <1>11, <1>13, <1>14 DEF Timeline!Redo, Timeline!Keep, Line, LineOf

\* An operation that leaves one or two snapshots and forgets what was undone.
LEMMA ChangeStep ==
    ASSUME NEW S, Holds(S, undo, state, redo),
           NEW new \in Seq(S), new # <<>>, Len(new) \in 1 .. 2,
           NEW x \in Seq(S), Extends(x, undo, state, new),
           state' = new[Len(new)], undo' = Clamped(x), redo' = <<>>
    PROVE  IInv' /\ Timeline!Next
<1> DEFINE k == Len(new)
           t == SubSeq(Line, 1, Len(undo) + 1) \o new
<1>1. k \in 1 .. 2 /\ MaxSteps \in Nat \ {0} /\ k <= MaxSteps + 1
  BY MaxStepsAssumption
<1>2. new[k] \in S
  BY EmptySeq, ElementOfSeq
<1>3. <<>> \in Seq(S) /\ redo' = Clamped(<<>>)
  <2>1. <<>> \in Seq(S) /\ Len(<<>>) = 0
    BY EmptySeq
  <2>2. ~(Len(<<>>) > MaxSteps)
    BY <1>1, <2>1
  <2> QED
    BY <2>1, <2>2, WithinLimit
<1>4. LineOf(x, new[k], <<>>) = t
  BY ChangedLine DEF Line
<1>5. /\ Len(Line') >= k
      /\ SubSeq(Line', Len(Line') - k + 1, Len(Line')) = new
  <2>1. Line' = LineOf(Clamped(x), new[k], <<>>)
    BY DEF Line, LineOf
  <2> QED
    BY <1>1, <2>1, NewEnd
<1>6. Len(undo) \in Nat /\ Len(x) = Len(undo) + k
  BY LineElements DEF Extends
<1>7. state' = new[k]
  OBVIOUS
<1> HIDE DEF k, t
<1>8. PICK line, p : line = t /\ p = Len(undo) + 1 + k
  OBVIOUS
<1>9. p = Len(x) + 1
  BY <1>1, <1>6, <1>8
<1>10. Holds(S, x, state', <<>>)
  BY <1>2, <1>3, <1>7 DEF Holds
<1>11. IInv' /\ Timeline!Keep(line, p)
  BY <1>3, <1>4, <1>7, <1>8, <1>9, <1>10, KeptStep
<1>12. Timeline!Change(k)
  <2>1. t = SubSeq(undo \o <<state>> \o Reverse(redo), 1, Len(undo) + 1)
              \o SubSeq(Line', Len(Line') - k + 1, Len(Line'))
    BY <1>5 DEF t, Line, LineOf
  <2>2. Line' = (undo \o <<state>> \o Reverse(redo))'
    BY DEF Line, LineOf
  <2> QED
    BY <1>5, <1>8, <1>11, <2>1, <2>2 DEF Timeline!Change, Timeline!Keep
<1> QED
  BY <1>1, <1>11, <1>12 DEF Timeline!Next

\* The Modifier leaves a snapshot if something changed.
LEMMA ModifyStep ==
    ASSUME IInv, NEW new, Modify(new)
    PROVE  IInv' /\ [Timeline!Next]_(Timeline!vars)
<1>1. PICK S : Holds(S, undo, state, redo)
  BY DEF IInv
<1>2. CASE new = state
  <2>1. UNCHANGED <<state, undo, redo>>
    BY <1>2 DEF Modify
  <2> QED
    BY <2>1 DEF IInv, Timeline!vars
<1>3. CASE new # state
  <2> DEFINE T == S \cup {new}
             x == Append(undo, state)
             n == <<new>>
  <2>1. undo \in Seq(T) /\ redo \in Seq(T) /\ state \in T
    BY <1>1, SeqMonotonic DEF Holds
  <2>2. n \in Seq(T) /\ n # <<>> /\ Len(n) = 1 /\ n[1] = new
    OBVIOUS
  <2> HIDE DEF T
  <2>3. /\ x \in Seq(T) /\ Len(x) = Len(undo) + 1 /\ x[Len(undo) + 1] = state
        /\ \A i \in 1 .. Len(undo) : x[i] = undo[i]
    BY <2>1, AppendProperties
  <2>4. state' = n[Len(n)] /\ undo' = Clamped(x) /\ redo' = <<>>
    BY <1>3, <2>2 DEF Modify
  <2> HIDE DEF x, n
  <2>5. Extends(x, undo, state, n)
    BY <2>2, <2>3 DEF Extends
  <2>6. Holds(T, undo, state, redo)
    BY <2>1 DEF Holds
  <2>7. Len(n) \in 1 .. 2
    BY <2>2
  <2> QED
    BY <2>2, <2>3, <2>4, <2>5, <2>6, <2>7, ChangeStep
<1> QED
  BY <1>2, <1>3

\* Replacing the selection leaves one snapshot, or two if the file is inserted.
LEMMA ReplaceSelectionStep == IInv /\ ReplaceSelection => IInv' /\ Timeline!Next
<1> SUFFICES ASSUME IInv, ReplaceSelection PROVE IInv' /\ Timeline!Next
  OBVIOUS
<1>1. PICK S : Holds(S, undo, state, redo)
  BY DEF IInv
<1>2. PICK s, new :
        /\ state' = new /\ redo' = <<>>
        /\ undo' = Clamped(undo \o IF s = state THEN <<state>> ELSE <<state, s>>)
  BY DEF ReplaceSelection
<1> DEFINE T == S \cup {s, new}
           y == IF s = state THEN <<state>> ELSE <<state, s>>
           n == IF s = state THEN <<new>> ELSE <<s, new>>
           x == undo \o y
<1>3. undo \in Seq(T) /\ redo \in Seq(T) /\ state \in T /\ s \in T /\ new \in T
  BY <1>1, SeqMonotonic DEF Holds
<1> HIDE DEF T
<1>4. /\ y \in Seq(T) /\ n \in Seq(T) /\ Len(y) = Len(n) /\ Len(n) \in 1 .. 2 /\ n # <<>>
      /\ n[Len(n)] = new /\ y[1] = state
      /\ \A i \in 1 .. Len(n) - 1 : y[1 + i] = n[i]
  <2>1. CASE s = state
    BY <1>3, <2>1
  <2>2. CASE s # state
    BY <1>3, <2>2
  <2> QED
    BY <2>1, <2>2
<1>5. undo' = Clamped(x)
  BY <1>2
<1> HIDE DEF y, n
<1>6. /\ x \in Seq(T) /\ Len(x) = Len(undo) + Len(y)
      /\ \A i \in 1 .. Len(undo) + Len(y) : x[i] = IF i <= Len(undo) THEN undo[i] ELSE y[i - Len(undo)]
  BY <1>3, <1>4, ConcatProperties, Zenon
<1>7. Len(undo) \in Nat
  BY <1>3, LenProperties
<1> HIDE DEF x
<1>8. Extends(x, undo, state, n)
  <2> DEFINE u == Len(undo)
             k == Len(n)
  <2>1. /\ u \in Nat /\ k \in 1 .. 2 /\ Len(x) = u + k
        /\ \A i \in 1 .. u + k : x[i] = IF i <= u THEN undo[i] ELSE y[i - u]
    BY <1>4, <1>6, <1>7
  <2> HIDE DEF u, k
  <2>2. \A i \in 1 .. u : x[i] = undo[i]
    BY <2>1
  <2>3. x[u + 1] = state
    <3>1. u + 1 \in 1 .. u + k /\ ~(u + 1 <= u) /\ u + 1 - u = 1
      BY <2>1
    <3> QED
      BY <1>4, <2>1, <3>1
  <2>4. ASSUME NEW i \in 1 .. k - 1 PROVE x[u + 1 + i] = n[i]
    <3> DEFINE j == u + 1 + i
    <3>1. j \in 1 .. u + k /\ ~(j <= u) /\ j - u = 1 + i
      BY <2>1
    <3> HIDE DEF j
    <3>2. x[j] = y[1 + i]
      BY <2>1, <3>1
    <3>3. x[j] = n[i]
      BY <1>4, <3>2 DEF k
    <3> QED
      BY <3>3 DEF j
  <2> QED
    BY <2>1, <2>2, <2>3, <2>4 DEF Extends, u, k
<1>9. Holds(T, undo, state, redo)
  BY <1>3 DEF Holds
<1> QED
  BY <1>2, <1>4, <1>5, <1>6, <1>8, <1>9, ChangeStep

\* A line without a history.
LEMMA FreshLine ==
    ASSUME NEW s
    PROVE  Len(LineOf(<<>>, s, <<>>)) = 1
<1>1. PICK u, r, S : u = <<>> /\ r = <<>> /\ S = {s}
  OBVIOUS
<1>2. Holds(S, u, s, r)
  BY <1>1, EmptySeq DEF Holds
<1>3. Len(LineOf(u, s, r)) = Len(u) + 1 + Len(r)
  BY <1>2, LineElements
<1>4. Len(u) = 0 /\ Len(r) = 0
  BY <1>1, EmptySeq
<1>5. Len(LineOf(u, s, r)) = 1
  BY <1>3, <1>4
<1> QED
  BY <1>1, <1>5

\* Another workspace starts a line of its own.
LEMMA ReplaceStep ==
    ASSUME NEW new, Replace(new)
    PROVE  IInv' /\ Timeline!Next
<1>1. state' = new /\ undo' = <<>> /\ redo' = <<>>
  BY DEF Replace
<1>2. Holds({new}, <<>>, new, <<>>) /\ Len(<<>>) = 0
  BY EmptySeq DEF Holds
<1>3. IInv'
  BY <1>1, <1>2, MaxStepsAssumption DEF IInv
<1>4. Len(LineOf(<<>>, new, <<>>)) = 1
  BY FreshLine
<1>5. Len(Line') = 1 /\ Len(undo') + 1 = 1
  BY <1>1, <1>2, <1>4 DEF Line, LineOf
<1>6. Timeline!Restart
  BY <1>5 DEF Timeline!Restart, Line, LineOf
<1> QED
  BY <1>3, <1>6 DEF Timeline!Next

\* What an action does to the history, whatever else it does.
Historic ==
    \/ \E new : Modify(new) \/ Replace(new)
    \/ ReplaceSelection \/ Undo \/ Redo
    \/ UNCHANGED <<state, undo, redo>>

LEMMA EditsAreHistoric ==
    InsertDocument \/ InsertImage \/ InsertEmptyPage \/ Clone \/ Rotate \/ Drop \/ Paste => Historic
<1>1. InsertDocument => Historic
  BY Zenon DEF InsertDocument, Historic
<1>2. InsertImage => Historic
  BY Zenon DEF InsertImage, Historic
<1>3. InsertEmptyPage => Historic
  BY Zenon DEF InsertEmptyPage, Rearrange, Historic
<1>4. Clone => Historic
  BY Zenon DEF Clone, Rearrange, Historic
<1>5. Rotate => Historic
  BY Zenon DEF Rotate, Rearrange, Historic
<1>6. Drop => Historic
  BY Zenon DEF Drop, Rearrange, Historic
<1>7. Paste => Historic
  BY Zenon DEF Paste, Rearrange, Historic
<1> QED
  BY <1>1, <1>2, <1>3, <1>4, <1>5, <1>6, <1>7

LEMMA RearrangingIsHistoric == Rearranging => Historic
<1>1. Group => Historic
  BY Zenon DEF Group, Rearrange, Historic
<1>2. Ungroup => Historic
  BY Zenon DEF Ungroup, Rearrange, Historic
<1>3. Regroup => Historic
  BY Zenon DEF Regroup, Rearrange, Historic
<1>4. RemoveSelection => Historic
  BY Zenon DEF RemoveSelection, Historic
<1>5. RestoreRemovedItems => Historic
  BY Zenon DEF RestoreRemovedItems, Historic
<1>6. ReverseItems => Historic
  BY Zenon DEF ReverseItems, Rearrange, Historic
<1>7. SortItems => Historic
  BY Zenon DEF SortItems, Rearrange, Historic
<1> QED
  BY <1>1, <1>2, <1>3, <1>4, <1>5, <1>6, <1>7 DEF Rearranging

LEMMA NextIsHistoric == [Next]_vars => Historic
<1>1. CutOrCopy \/ SaveCheckpoint \/ SaveWorkspace => Historic
  BY DEF CutOrCopy, SaveCheckpoint, SaveWorkspace, Historic
<1>2. Clear => Historic
  BY Zenon DEF Clear, Historic
<1>3. LoadCheckpoint => Historic
  BY Zenon DEF LoadCheckpoint, Historic
<1>4. OpenWorkspace => Historic
  BY Zenon DEF OpenWorkspace, Historic
<1>5. UNCHANGED vars => Historic
  BY DEF vars, Historic
<1>6. ReplaceSelection \/ Undo \/ Redo => Historic
  BY Zenon DEF Historic
<1> QED
  BY <1>1, <1>2, <1>3, <1>4, <1>5, <1>6, EditsAreHistoric, RearrangingIsHistoric DEF Next

-----------------------------------------------------------------------------
LEMMA Initially == Init => IInv /\ Timeline!Init
<1> SUFFICES ASSUME Init PROVE IInv /\ Timeline!Init
  OBVIOUS
<1>1. undo = <<>> /\ redo = <<>>
  BY DEF Init
<1>2. Holds({state}, <<>>, state, <<>>) /\ Len(<<>>) = 0
  BY EmptySeq DEF Holds
<1>3. IInv
  BY <1>1, <1>2, MaxStepsAssumption DEF IInv
<1>4. Len(LineOf(<<>>, state, <<>>)) = 1
  BY FreshLine
<1>5. Len(undo \o <<state>> \o Reverse(redo)) = 1 /\ Len(undo) + 1 = 1
  BY <1>1, <1>2, <1>4 DEF LineOf
<1> QED
  BY <1>3, <1>5, MaxStepsAssumption DEF Timeline!Init

LEMMA StepImplements == IInv /\ [Next]_vars => IInv' /\ [Timeline!Next]_(Timeline!vars)
<1> SUFFICES ASSUME IInv, Historic PROVE IInv' /\ [Timeline!Next]_(Timeline!vars)
  BY NextIsHistoric
<1>1. CASE \E new : Modify(new)
  BY <1>1, ModifyStep
<1>2. CASE \E new : Replace(new)
  BY <1>2, ReplaceStep
<1>3. CASE ReplaceSelection
  BY <1>3, ReplaceSelectionStep
<1>4. CASE Undo
  BY <1>4, UndoStep DEF Timeline!Next
<1>5. CASE Redo
  BY <1>5, RedoStep DEF Timeline!Next
<1>6. CASE UNCHANGED <<state, undo, redo>>
  BY <1>6 DEF IInv, Timeline!vars
<1> QED
  BY <1>1, <1>2, <1>3, <1>4, <1>5, <1>6 DEF Historic

\* The stacks of snapshots are a line of workspaces with a position on it:
\* undo and redo move along it, a modification replaces what lies after it,
\* and only what the limit excludes is forgotten.
THEOREM TimelineImplemented == Spec => ImplementsTimeline
<1> QED
  BY Initially, StepImplements, PTL DEF Spec, ImplementsTimeline, Timeline!Spec

-----------------------------------------------------------------------------
(* The previews: filtering and taking from the queue. *)

\* The function that Kept computes, step by step.
Filters(k, q, shown) ==
    /\ k[0] = <<>>
    /\ \A n \in 1 .. Len(q) : k[n] = IF q[n].row \in shown THEN Append(k[n - 1], q[n]) ELSE k[n - 1]

\* There is such a function, and the last of its values is what is kept.
LEMMA KeptByStep ==
    ASSUME NEW R, NEW q \in Seq(R), NEW shown
    PROVE  \E k : Filters(k, q, shown) /\ Kept(q, shown) = k[Len(q)]
<1> DEFINE V == Seq(R)
           N == 0 .. Len(q)
           e == <<>>
           H == [n \in Nat |-> [s \in V |-> IF n + 1 \in N /\ q[n + 1].row \in shown
                                            THEN Append(s, q[n + 1]) ELSE s]]
           Fits(u) == u = [n \in 0 .. Len(q) |->
                             IF n = 0 THEN <<>>
                             ELSE IF q[n].row \in shown THEN Append(u[n - 1], q[n]) ELSE u[n - 1]]
           kept == CHOOSE u : Fits(u)
<1>1. e \in V
  OBVIOUS
<1>2. H \in [Nat -> [V -> V]]
  <2>1. ASSUME NEW n \in Nat, NEW s \in V, n + 1 \in N PROVE Append(s, q[n + 1]) \in V
    <3>1. n + 1 \in 1 .. Len(q)
      BY <2>1
    <3>2. q[n + 1] \in R
      BY <3>1, ElementOfSeq
    <3> QED
      BY <3>2, AppendProperties
  <2> HIDE DEF V, N
  <2> QED
    BY <2>1
<1>3. PICK f \in [Nat -> V] : Computes(f, e, H)
  <2> HIDE DEF H, V, e
  <2> QED BY <1>1, <1>2, Recursion
<1>4. Len(q) \in Nat
  BY LenProperties
<1>5. f[0] = e /\ \A n \in Nat : f[n + 1] = H[n][f[n]]
  BY <1>3 DEF Computes
<1>6. ASSUME NEW n \in 1 .. Len(q)
      PROVE  f[n] = IF q[n].row \in shown THEN Append(f[n - 1], q[n]) ELSE f[n - 1]
  <2>1. n - 1 \in Nat /\ (n - 1) + 1 = n /\ n \in N
    BY <1>4
  <2>2. f[n - 1] \in V /\ f[n] = H[n - 1][f[n - 1]]
    <3> HIDE DEF H, V
    <3> QED BY <1>3, <1>5, <2>1
  <2> HIDE DEF V, N
  <2> QED
    BY <2>1, <2>2
<1>7. \E u : Fits(u)
  <2> DEFINE g == [n \in 0 .. Len(q) |-> f[n]]
  <2>1. ASSUME NEW n \in 0 .. Len(q)
        PROVE  g[n] = IF n = 0 THEN <<>>
                      ELSE IF q[n].row \in shown THEN Append(g[n - 1], q[n]) ELSE g[n - 1]
    <3>1. CASE n = 0
      BY <1>5, <3>1
    <3>2. CASE n # 0
      <4>1. n \in 1 .. Len(q) /\ n - 1 \in 0 .. Len(q) /\ n \in 0 .. Len(q)
        BY <1>4, <3>2
      <4>2. g[n] = f[n] /\ g[n - 1] = f[n - 1]
        BY <4>1
      <4> HIDE DEF g
      <4> QED
        BY <1>6, <3>2, <4>1, <4>2
    <3> QED
      BY <3>1, <3>2
  <2>2. g = [n \in 0 .. Len(q) |-> g[n]]
    OBVIOUS
  <2> HIDE DEF g
  <2>3. Fits(g)
    BY <2>1, <2>2
  <2> HIDE DEF Fits
  <2> QED
    BY <2>3
<1>8. Fits(kept)
  <2> HIDE DEF Fits
  <2> QED BY <1>7
<1>9. Kept(q, shown) = kept[Len(q)]
  BY DEF Kept
<1>10. ASSUME NEW n \in 1 .. Len(q)
       PROVE  kept[n] = IF q[n].row \in shown THEN Append(kept[n - 1], q[n]) ELSE kept[n - 1]
  <2>1. n \in 0 .. Len(q) /\ n # 0
    BY <1>4
  <2> HIDE DEF kept
  <2> QED
    BY <1>8, <2>1
<1>11. kept[0] = <<>>
  <2>1. 0 \in 0 .. Len(q)
    BY <1>4
  <2> HIDE DEF kept
  <2> QED
    BY <1>8, <2>1
<1> HIDE DEF kept
<1> QED
  BY <1>9, <1>10, <1>11 DEF Filters

\* The members of Q among the first n numbers.
Upto(n, Q) == {i \in 1 .. n : i \in Q}

\* One more number, one more member at most.
LEMMA OneMore ==
    ASSUME NEW n \in Nat, NEW Q
    PROVE  /\ Cardinality(Upto(n, Q)) \in Nat
           /\ Cardinality(Upto(n + 1, Q)) = IF n + 1 \in Q THEN Cardinality(Upto(n, Q)) + 1
                                            ELSE Cardinality(Upto(n, Q))
<1> DEFINE P == Upto(n, Q)
           P2 == Upto(n + 1, Q)
<1>1. IsFiniteSet(1 .. n)
  BY FS_Interval
<1>2. P \subseteq 1 .. n
  BY DEF Upto
<1>3. n + 1 \notin P
  BY <1>2
<1>4. P2 = IF n + 1 \in Q THEN P \cup {n + 1} ELSE P
  <2>1. \A i : i \in 1 .. n + 1 <=> i \in 1 .. n \/ i = n + 1
    OBVIOUS
  <2> QED
    BY <2>1 DEF Upto
<1> HIDE DEF P, P2
<1>5. IsFiniteSet(P) /\ Cardinality(P) \in Nat
  BY <1>1, <1>2, FS_Subset, FS_CardinalityType
<1>6. Cardinality(P2) = IF n + 1 \in Q THEN Cardinality(P) + 1 ELSE Cardinality(P)
  BY <1>3, <1>4, <1>5, FS_AddElement
<1> QED
  BY <1>5, <1>6 DEF P, P2

\* The value of the filter after n requests.
Filtered(s, n, q, shown) ==
    /\ \A i \in 1 .. Len(s) : \E j \in 1 .. n : s[i] = q[j] /\ q[j].row \in shown
    /\ \A j \in 1 .. n : q[j].row \in shown => \E i \in 1 .. Len(s) : s[i] = q[j]
    /\ Len(s) = Cardinality(Upto(n, {i \in DOMAIN q : q[i].row \in shown}))

\* One more request.
LEMMA FilterOne ==
    ASSUME NEW R, NEW q \in Seq(R), NEW shown, NEW n \in Nat, n + 1 \in 1 .. Len(q),
           NEW s \in Seq(R), Filtered(s, n, q, shown),
           NEW t, t = IF q[n + 1].row \in shown THEN Append(s, q[n + 1]) ELSE s
    PROVE  t \in Seq(R) /\ Filtered(t, n + 1, q, shown)
<1> DEFINE Q == {i \in DOMAIN q : q[i].row \in shown}
           x == q[n + 1]
           I == 1 .. Len(s)
           I2 == 1 .. Len(t)
           J == 1 .. n
           J2 == 1 .. n + 1
<1>1. Len(q) \in Nat /\ DOMAIN q = 1 .. Len(q) /\ Len(s) \in Nat
  BY LenProperties
<1>2. x \in R
  BY ElementOfSeq
<1>3. n + 1 \in Q <=> x.row \in shown
  BY <1>1
<1>4. \A j : j \in J2 <=> j \in J \/ j = n + 1
  OBVIOUS
<1>5. /\ \A i \in I : \E j \in J : s[i] = q[j] /\ q[j].row \in shown
      /\ \A j \in J : q[j].row \in shown => \E i \in I : s[i] = q[j]
      /\ Len(s) = Cardinality(Upto(n, Q))
  BY DEF Filtered
<1>6. Cardinality(Upto(n + 1, Q)) = IF n + 1 \in Q THEN Cardinality(Upto(n, Q)) + 1
                                    ELSE Cardinality(Upto(n, Q))
  <2> HIDE DEF Q
  <2> QED BY OneMore
<1>7. CASE x.row \in shown
  <2>1. /\ t \in Seq(R) /\ Len(t) = Len(s) + 1
        /\ \A i \in 1 .. Len(s) : t[i] = s[i]
        /\ t[Len(s) + 1] = x
    BY <1>2, <1>7, AppendProperties
  <2>2. \A i : i \in I2 <=> i \in I \/ i = Len(s) + 1
    BY <1>1, <2>1
  <2>3. \A i \in I : t[i] = s[i]
    BY <2>1
  <2>4. Len(t) = Cardinality(Upto(n + 1, Q))
    BY <1>3, <1>5, <1>6, <1>7, <2>1
  <2>5. t[Len(s) + 1] = q[n + 1] /\ q[n + 1].row \in shown
    BY <1>7, <2>1
  <2> HIDE DEF Q, I, I2, J, J2
  <2>6. ASSUME NEW i \in I2 PROVE \E j \in J2 : t[i] = q[j] /\ q[j].row \in shown
    <3>1. CASE i \in I
      <4>1. PICK j \in J : s[i] = q[j] /\ q[j].row \in shown
        BY <1>5, <3>1
      <4>2. j \in J2 /\ t[i] = s[i]
        BY <1>4, <2>3, <3>1
      <4> QED
        BY <4>1, <4>2
    <3>2. CASE i = Len(s) + 1
      <4>1. n + 1 \in J2
        BY <1>4
      <4> QED
        BY <2>5, <3>2, <4>1
    <3> QED
      BY <2>2, <3>1, <3>2
  <2>7. ASSUME NEW j \in J2, q[j].row \in shown PROVE \E i \in I2 : t[i] = q[j]
    <3>1. CASE j \in J
      <4>1. PICK i \in I : s[i] = q[j]
        BY <1>5, <2>7, <3>1
      <4>2. i \in I2 /\ t[i] = s[i]
        BY <2>2, <2>3
      <4> QED
        BY <4>1, <4>2
    <3>2. CASE j = n + 1
      <4>1. Len(s) + 1 \in I2
        BY <2>2
      <4> QED
        BY <2>5, <3>2, <4>1
    <3> QED
      BY <1>4, <3>1, <3>2
  <2> QED
    BY <2>1, <2>4, <2>6, <2>7 DEF Filtered, Q, I2, J2
<1>8. CASE x.row \notin shown
  <2>1. t = s /\ q[n + 1].row \notin shown
    BY <1>8
  <2>2. Len(t) = Cardinality(Upto(n + 1, Q))
    BY <1>3, <1>5, <1>6, <1>8, <2>1
  <2>3. I2 = I
    BY <2>1
  <2> HIDE DEF Q, I, I2, J, J2
  <2>4. \A i \in I2 : \E j \in J2 : t[i] = q[j] /\ q[j].row \in shown
    BY <1>4, <1>5, <2>1, <2>3
  <2>5. \A j \in J2 : q[j].row \in shown => \E i \in I2 : t[i] = q[j]
    BY <1>4, <1>5, <2>1, <2>3
  <2> QED
    BY <2>1, <2>2, <2>4, <2>5 DEF Filtered, Q, I2, J2
<1> QED
  BY <1>7, <1>8

\* What is kept are the requests for rows shown, all of them, each once.
LEMMA KeptIs ==
    ASSUME NEW R, NEW q \in Seq(R), NEW shown
    PROVE  Kept(q, shown) \in Seq(R) /\ Filtered(Kept(q, shown), Len(q), q, shown)
<1>1. PICK k : Filters(k, q, shown) /\ Kept(q, shown) = k[Len(q)]
  BY KeptByStep
<1>2. Len(q) \in Nat
  BY LenProperties
<1> DEFINE S == {n \in Nat : n <= Len(q) => k[n] \in Seq(R) /\ Filtered(k[n], n, q, shown)}
<1>3. 0 \in S
  <2> DEFINE s == k[0]
             Q == {i \in DOMAIN q : q[i].row \in shown}
  <2>1. s = <<>>
    BY <1>1 DEF Filters
  <2>2. Upto(0, Q) = {}
    BY DEF Upto
  <2>3. s \in Seq(R) /\ Len(s) = 0
    BY <2>1
  <2>4. \A i : i \notin 1 .. 0
    OBVIOUS
  <2> HIDE DEF Q, s
  <2>5. Cardinality(Upto(0, Q)) = 0
    BY <2>2, FS_EmptySet
  <2>6. Filtered(s, 0, q, shown)
    BY <2>3, <2>4, <2>5 DEF Filtered, Q
  <2> QED
    BY <2>3, <2>6 DEF s
<1>4. ASSUME NEW n \in Nat, n \in S PROVE n + 1 \in S
  <2> SUFFICES ASSUME n + 1 <= Len(q) PROVE k[n + 1] \in Seq(R) /\ Filtered(k[n + 1], n + 1, q, shown)
    OBVIOUS
  <2> DEFINE s == k[n]
             t == k[n + 1]
  <2>1. n <= Len(q) /\ n + 1 \in 1 .. Len(q) /\ (n + 1) - 1 = n
    BY <1>2
  <2>2. s \in Seq(R) /\ Filtered(s, n, q, shown)
    BY <1>4, <2>1
  <2>3. t = IF q[n + 1].row \in shown THEN Append(s, q[n + 1]) ELSE s
    BY <1>1, <2>1 DEF Filters
  <2> HIDE DEF s, t
  <2>4. t \in Seq(R) /\ Filtered(t, n + 1, q, shown)
    BY <2>1, <2>2, <2>3, FilterOne
  <2> QED
    BY <2>4 DEF t
<1>5. S = Nat
  <2>1. S \subseteq Nat
    OBVIOUS
  <2> HIDE DEF S
  <2> QED
    BY <1>3, <1>4, <2>1, SetInduction
<1>6. Len(q) \in S
  BY <1>2, <1>5
<1>7. k[Len(q)] \in Seq(R) /\ Filtered(k[Len(q)], Len(q), q, shown)
  BY <1>2, <1>6
<1> QED
  BY <1>1, <1>7

\* The requests and keys of a queue.
LEMMA RequestsAre ==
    ASSUME NEW q \in Seq(Requests)
    PROVE  /\ Len(q) \in Nat /\ DOMAIN q = 1 .. Len(q)
           /\ \A i \in DOMAIN q : /\ q[i] \in Requests /\ q[i].key \in Keys /\ q[i].row \in Positions
                                  /\ q[i].image \in {0} \cup Versions
           /\ KeysOf(q) \subseteq Keys
<1>1. Len(q) \in Nat /\ DOMAIN q = 1 .. Len(q) /\ \A i \in 1 .. Len(q) : q[i] \in Requests
  BY LenProperties, ElementOfSeq
<1>2. \A x \in Requests : x.key \in Keys /\ x.row \in Positions /\ x.image \in {0} \cup Versions
  BY DEF Requests
<1> QED
  BY <1>1, <1>2 DEF KeysOf

\* Every key of a queue is kept, or dropped with all of its requests.
LEMMA KeptKeys ==
    ASSUME NEW q \in Seq(Requests), NEW shown
    PROVE  /\ Kept(q, shown) \in Seq(Requests)
           /\ KeysOf(Kept(q, shown)) \subseteq KeysOf(q)
           /\ KeysOf(q) \subseteq KeysOf(Kept(q, shown)) \cup KeysDropped(q, shown)
<1> DEFINE z == Kept(q, shown)
<1>1. z \in Seq(Requests) /\ Filtered(z, Len(q), q, shown)
  BY KeptIs
<1>2. DOMAIN q = 1 .. Len(q) /\ DOMAIN z = 1 .. Len(z)
  BY <1>1, RequestsAre
<1> HIDE DEF z
<1>3. \A i \in DOMAIN z : \E j \in DOMAIN q : z[i] = q[j]
  BY <1>1, <1>2 DEF Filtered
<1>4. \A j \in DOMAIN q : q[j].row \in shown => \E i \in DOMAIN z : z[i] = q[j]
  BY <1>1, <1>2 DEF Filtered
<1>5. KeysOf(z) \subseteq KeysOf(q)
  BY <1>3 DEF KeysOf
<1>6. KeysOf(q) \subseteq KeysOf(z) \cup KeysDropped(q, shown)
  BY <1>4 DEF KeysOf, KeysDropped
<1> QED
  BY <1>1, <1>5, <1>6 DEF z

\* The queue is divided into what is taken and the rest,
Division(q, c, t, u) == t = SubSeq(q, 1, c) /\ u = SubSeq(q, c + 1, Len(q))

\* and so are the keys.
LEMMA Divides ==
    ASSUME NEW q \in Seq(Requests), NEW c \in 0 .. Len(q), NEW t, NEW u, Division(q, c, t, u)
    PROVE  /\ t \in Seq(Requests) /\ u \in Seq(Requests) /\ Len(t) = c
           /\ \A i \in 1 .. c : t[i] = q[i]
           /\ \A k : k \in KeysOf(q) <=> k \in KeysOf(t) \/ k \in KeysOf(u)
<1>1. /\ Len(q) \in Nat /\ DOMAIN q = 1 .. Len(q) /\ c \in Int /\ c + 1 \in Int /\ 1 \in Int /\ Len(q) \in Int
      /\ \A i \in 1 .. Len(q) : q[i] \in Requests
  BY RequestsAre
<1>0. t = SubSeq(q, 1, c) /\ u = SubSeq(q, c + 1, Len(q))
  BY DEF Division
<1>2. (\A i \in 1 .. c : i \in 1 .. Len(q)) /\ (\A i \in c + 1 .. Len(q) : i \in 1 .. Len(q))
  BY <1>1
<1>3. /\ t \in Seq(Requests) /\ Len(t) = IF 1 <= c THEN c - 1 + 1 ELSE 0
      /\ \A i \in 1 .. c - 1 + 1 : t[i] = q[1 + i - 1]
  <2>1. \A i \in 1 .. c : q[i] \in Requests
    BY <1>1, <1>2
  <2> QED
    BY <1>0, <1>1, <2>1, SubSeqProperties
<1>4. /\ u \in Seq(Requests) /\ Len(u) = IF c + 1 <= Len(q) THEN Len(q) - (c + 1) + 1 ELSE 0
      /\ \A i \in 1 .. Len(q) - (c + 1) + 1 : u[i] = q[(c + 1) + i - 1]
  <2> DEFINE b == c + 1
             e == Len(q)
  <2>1. \A i \in b .. e : q[i] \in Requests
    BY <1>1, <1>2
  <2>2. b \in Int /\ e \in Int /\ u = SubSeq(q, b, e)
    BY <1>0, <1>1
  <2> HIDE DEF b, e
  <2>3. /\ SubSeq(q, b, e) \in Seq(Requests) /\ Len(SubSeq(q, b, e)) = IF b <= e THEN e - b + 1 ELSE 0
        /\ \A i \in 1 .. e - b + 1 : SubSeq(q, b, e)[i] = q[b + i - 1]
    BY <2>1, <2>2, SubSeqProperties
  <2> QED
    BY <2>2, <2>3 DEF b, e
<1>5. Len(t) = c /\ Len(u) = Len(q) - c
  <2> DEFINE l == Len(q)
             m == Len(t)
             n == Len(u)
  <2>1. l \in Nat /\ c \in 0 .. l /\ m = (IF 1 <= c THEN c - 1 + 1 ELSE 0)
        /\ n = IF c + 1 <= l THEN l - (c + 1) + 1 ELSE 0
    BY <1>1, <1>3, <1>4
  <2> HIDE DEF l, m, n
  <2>2. m = c /\ n = l - c
    BY <2>1
  <2> QED
    BY <2>2 DEF l, m, n
<1>6. c - 1 + 1 = c /\ Len(q) - (c + 1) + 1 = Len(q) - c /\ \A i \in Int : 1 + i - 1 = i /\ (c + 1) + i - 1 = c + i
  BY <1>1
<1>7. \A i \in 1 .. c : t[i] = q[i]
  <2>1. \A i \in 1 .. c : i \in Int
    OBVIOUS
  <2> QED
    BY <1>3, <1>6, <2>1
<1>8. \A i \in 1 .. Len(q) - c : u[i] = q[c + i]
  <2>1. \A i \in 1 .. Len(q) - c : i \in Int
    OBVIOUS
  <2> QED
    BY <1>4, <1>6, <2>1
<1>9. DOMAIN t = 1 .. c /\ DOMAIN u = 1 .. Len(q) - c
  BY <1>3, <1>4, <1>5, RequestsAre
<1>10. \A i \in 1 .. Len(q) : i \in 1 .. c \/ (i - c \in 1 .. Len(q) - c /\ c + (i - c) = i)
  BY <1>1
<1>11. \A i \in 1 .. Len(q) - c : c + i \in 1 .. Len(q)
  BY <1>1
<1>12. KeysOf(t) \subseteq KeysOf(q)
  BY <1>1, <1>2, <1>7, <1>9 DEF KeysOf
<1>13. KeysOf(u) \subseteq KeysOf(q)
  BY <1>1, <1>8, <1>9, <1>11 DEF KeysOf
<1>14. KeysOf(q) \subseteq KeysOf(t) \cup KeysOf(u)
  <2>1. SUFFICES ASSUME NEW i \in 1 .. Len(q) PROVE q[i].key \in KeysOf(t) \cup KeysOf(u)
    BY <1>1 DEF KeysOf
  <2>2. CASE i \in 1 .. c
    BY <1>7, <1>9, <2>2 DEF KeysOf
  <2>3. CASE i \notin 1 .. c
    <3>1. i - c \in 1 .. Len(q) - c /\ c + (i - c) = i
      BY <1>10, <2>3
    <3>2. u[i - c] = q[i]
      BY <1>8, <3>1
    <3> QED
      BY <1>9, <3>1, <3>2 DEF KeysOf
  <2> QED
    BY <2>2, <2>3
<1> QED
  BY <1>3, <1>4, <1>5, <1>7, <1>12, <1>13, <1>14

\* As many requests are taken that no more rows are shown than a batch holds.
LEMMA TakenFits ==
    ASSUME NEW q \in Seq(Requests)
    PROVE  /\ TakeCount(q) \in 0 .. Len(q)
           /\ Cardinality(Upto(TakeCount(q), {i \in DOMAIN q : IsRowVisible(q[i].row)})) <= MaxBatch
<1> DEFINE Q == {i \in DOMAIN q : IsRowVisible(q[i].row)}
           C(n) == Cardinality(Upto(n, Q))
           full == {n \in DOMAIN q : Cardinality({i \in 1 .. n : IsRowVisible(q[i].row)}) = MaxBatch}
<1>1. Len(q) \in Nat /\ DOMAIN q = 1 .. Len(q) /\ MaxBatch \in Nat /\ MaxBatch > 0
  BY RequestsAre, ConstantsAssumption
<1>2. ASSUME NEW n \in DOMAIN q PROVE {i \in 1 .. n : IsRowVisible(q[i].row)} = Upto(n, Q)
  <2>1. \A i \in 1 .. n : i \in DOMAIN q
    BY <1>1
  <2> QED
    BY <2>1 DEF Upto
<1>3. full = {n \in DOMAIN q : C(n) = MaxBatch}
  BY <1>2
<1>4. TakeCount(q) = IF full = {} THEN Len(q) ELSE Min(full)
  BY DEF TakeCount
<1>5. CASE full # {}
  <2>1. full \subseteq Nat /\ full \subseteq 0 .. Len(q)
    BY <1>1
  <2> HIDE DEF full, C
  <2>2. \E n \in full : \A m \in full : n <= m
    BY <1>5, <2>1, LeastNumber
  <2>3. Min(full) \in full
    BY <2>2 DEF Min
  <2>4. TakeCount(q) \in full
    BY <1>4, <1>5, <2>3
  <2>5. C(TakeCount(q)) = MaxBatch
    BY <1>3, <2>4
  <2> QED
    <3>1. TakeCount(q) \in 0 .. Len(q)
      BY <2>1, <2>4
    <3>2. C(TakeCount(q)) <= MaxBatch
      BY <1>1, <2>5
    <3> QED
      BY <3>1, <3>2 DEF C
<1>6. CASE full = {}
  <2> DEFINE S == {n \in Nat : n <= Len(q) => C(n) \in Nat /\ C(n) <= MaxBatch}
  <2>1. 0 \in S
    <3>1. Upto(0, Q) = {}
      BY DEF Upto
    <3>2. C(0) = 0
      BY <3>1, FS_EmptySet
    <3> HIDE DEF C
    <3> QED
      BY <1>1, <3>2
  <2>2. ASSUME NEW n \in Nat, n \in S PROVE n + 1 \in S
    <3> SUFFICES ASSUME n + 1 <= Len(q) PROVE C(n + 1) \in Nat /\ C(n + 1) <= MaxBatch
      OBVIOUS
    <3>1. n <= Len(q) /\ n + 1 \in 1 .. Len(q)
      BY <1>1
    <3>2. C(n) \in Nat /\ C(n) <= MaxBatch
      BY <2>2, <3>1
    <3>3. C(n + 1) = IF n + 1 \in Q THEN C(n) + 1 ELSE C(n)
      <4> HIDE DEF Q
      <4> QED BY OneMore
    <3>4. C(n) # MaxBatch
      <4>1. CASE n = 0
        <5>1. Upto(0, Q) = {}
          BY DEF Upto
        <5>2. C(n) = 0
          BY <4>1, <5>1, FS_EmptySet
        <5> HIDE DEF C
        <5> QED
          BY <1>1, <5>2
      <4>2. CASE n # 0
        <5>1. n \in DOMAIN q
          BY <1>1, <3>1, <4>2
        <5> HIDE DEF C, full
        <5> QED
          BY <1>3, <1>6, <5>1
      <4> QED
        BY <4>1, <4>2
    <3> HIDE DEF C
    <3> QED
      BY <1>1, <3>2, <3>3, <3>4
  <2>3. S = Nat
    <3>1. S \subseteq Nat
      OBVIOUS
    <3> HIDE DEF S
    <3> QED
      BY <2>1, <2>2, <3>1, SetInduction
  <2>4. TakeCount(q) = Len(q)
    BY <1>4, <1>6
  <2> HIDE DEF C
  <2>5. C(Len(q)) <= MaxBatch
    BY <1>1, <2>3
  <2> QED
    BY <1>1, <2>4, <2>5 DEF C
<1> QED
  BY <1>5, <1>6

\* A batch of tasks none of which has begun, for keys that were queued.
Fresh(tasks, keys) ==
    /\ tasks \in Seq(Tasks) /\ Len(tasks) <= MaxBatch
    /\ \A i \in DOMAIN tasks : tasks[i].stage = "queued" /\ tasks[i].request.key \in keys

\* The tasks of the requests chosen.
LEMMA ChosenBatch ==
    ASSUME NEW z \in Seq(Requests), Len(z) <= MaxBatch, NEW tasks,
           tasks = [i \in DOMAIN z |-> tasks[i]],
           \A i \in DOMAIN z : tasks[i] = [request |-> z[i], current |-> TRUE, stage |-> "queued", image |-> 0]
    PROVE  /\ Fresh(tasks, KeysOf(z)) /\ {tasks[i].request.key : i \in DOMAIN tasks} = KeysOf(z)
<1>1. Len(z) \in Nat /\ DOMAIN z = 1 .. Len(z) /\ \A i \in DOMAIN z : z[i] \in Requests
  BY RequestsAre
<1> DEFINE T(x) == [request |-> x, current |-> TRUE, stage |-> "queued", image |-> 0]
<1>2. \A x \in Requests : T(x) \in Tasks /\ T(x).stage = "queued" /\ T(x).request = x
  BY DEF Tasks
<1>3. tasks = [i \in 1 .. Len(z) |-> T(z[i])]
  BY <1>1, Zenon
<1> HIDE DEF T
<1>4. tasks \in [1 .. Len(z) -> Tasks]
  BY <1>1, <1>2, <1>3
<1>5. tasks \in Seq(Tasks)
  BY <1>1, <1>4 DEF Seq
<1>6. Len(tasks) = Len(z) /\ DOMAIN tasks = DOMAIN z
  BY <1>1, <1>4, <1>5, LenProperties
<1>7. \A i \in DOMAIN z : tasks[i].stage = "queued" /\ tasks[i].request.key = z[i].key
  BY <1>1, <1>2, <1>3
<1>8. {tasks[i].request.key : i \in DOMAIN tasks} = KeysOf(z)
  BY <1>6, <1>7 DEF KeysOf
<1>9. \A i \in DOMAIN tasks : tasks[i].stage = "queued" /\ tasks[i].request.key \in KeysOf(z)
  BY <1>6, <1>7 DEF KeysOf
<1> QED
  BY <1>5, <1>6, <1>8, <1>9 DEF Fresh

\* startNextRequest: either no batch is started, and no key is lost; or a batch
\* of requests for rows shown is, if none was being rendered.
Started(q, p, busy, tasks, event) ==
    /\ queue' \in Seq(Requests) /\ KeysOf(queue') \subseteq KeysOf(q)
    /\ pending' \subseteq p
    /\ \/ /\ rendering' = busy /\ batch' = tasks /\ worker' = worker /\ finished' = event
          /\ p \cap KeysOf(q) \cap pending' \subseteq KeysOf(queue')
       \/ /\ ~busy /\ rendering' = TRUE /\ worker' = "starting" /\ finished' = FALSE
          /\ Fresh(batch', KeysOf(q))
          /\ p \cap KeysOf(q) \cap pending' \subseteq KeysOf(queue') \cup ResultKeys'

\* That is what it does.
LEMMA StartsNext ==
    ASSUME NEW q \in Seq(Requests), NEW p \in SUBSET Keys, NEW busy \in BOOLEAN, NEW tasks, NEW event \in BOOLEAN,
           StartNextRequest(q, p, busy, tasks, event)
    PROVE  Started(q, p, busy, tasks, event)
<1>0. PICK stays \in BOOLEAN : stays <=> scrolling' \/ busy
  <2>1. (scrolling' \/ busy) \in BOOLEAN
    OBVIOUS
  <2> QED
    BY <2>1
<1> DEFINE shown == {r \in Positions : IsRowVisible(r)}
           c == IF stays THEN 0 ELSE TakeCount(q)
           taken == IF stays THEN <<>> ELSE SubSeq(q, 1, TakeCount(q))
           chosen == Kept(taken, shown)
           rest == SubSeq(q, Len(taken) + 1, Len(q))
<1>1. /\ queue' = rest /\ pending' = p \ KeysDropped(taken, shown)
      /\ rendering' = (busy \/ chosen # <<>>)
      /\ batch' = IF chosen = <<>> THEN tasks
                  ELSE [i \in DOMAIN chosen |-> [request |-> chosen[i], current |-> TRUE,
                                                 stage |-> "queued", image |-> 0]]
      /\ worker' = IF chosen = <<>> THEN worker ELSE "starting"
      /\ finished' = (event /\ chosen = <<>>)
  BY <1>0 DEF StartNextRequest
<1>2. Len(q) \in Nat /\ TakeCount(q) \in 0 .. Len(q)
  BY RequestsAre, TakenFits
<1>3. c \in 0 .. Len(q)
  BY <1>2
<1>4. taken = SubSeq(q, 1, c)
  <2>1. SubSeq(q, 1, 0) = <<>>
    BY SubSeqEmpty
  <2> QED
    BY <2>1
<1> HIDE DEF shown, c, taken, chosen, rest
<1>5. Division(q, c, taken, SubSeq(q, c + 1, Len(q)))
  BY <1>4 DEF Division
<1>6. /\ taken \in Seq(Requests) /\ Len(taken) = c /\ \A i \in 1 .. c : taken[i] = q[i]
      /\ rest \in Seq(Requests) /\ KeysOf(q) = KeysOf(taken) \cup KeysOf(rest)
  <2> DEFINE u == SubSeq(q, c + 1, Len(q))
  <2>1. Division(q, c, taken, u)
    BY <1>5
  <2> HIDE DEF u
  <2>2. taken \in Seq(Requests) /\ Len(taken) = c /\ (\A i \in 1 .. c : taken[i] = q[i]) /\ u \in Seq(Requests)
    BY <1>3, <2>1, Divides
  <2>3. \A k : k \in KeysOf(q) <=> k \in KeysOf(taken) \/ k \in KeysOf(u)
    BY <1>3, <2>1, Divides
  <2>4. rest = u
    BY <2>2 DEF rest, u
  <2> QED
    BY <2>2, <2>3, <2>4
<1>7. /\ chosen \in Seq(Requests) /\ KeysOf(chosen) \subseteq KeysOf(taken)
      /\ KeysOf(taken) \subseteq KeysOf(chosen) \cup KeysDropped(taken, shown)
  BY <1>6, KeptKeys DEF chosen
<1>8. CASE chosen = <<>>
  <2>1. KeysOf(chosen) = {}
    BY <1>8 DEF KeysOf
  <2> QED
    BY <1>1, <1>6, <1>7, <1>8, <2>1 DEF Started
<1>9. CASE chosen # <<>>
  <2>1. ~busy
    <3> SUFFICES ASSUME busy PROVE FALSE
      OBVIOUS
    <3>1. c = 0
      BY <1>0 DEF c
    <3>2. KeysOf(taken) = {}
      <4>1. DOMAIN taken = 1 .. 0
        BY <1>6, <3>1, RequestsAre
      <4> QED
        BY <4>1 DEF KeysOf
    <3>3. KeysOf(chosen) = {}
      BY <1>7, <3>2
    <3>4. Len(chosen) = 0
      <4>1. Len(chosen) \in Nat /\ DOMAIN chosen = 1 .. Len(chosen)
        BY <1>7, RequestsAre
      <4>2. 1 \notin DOMAIN chosen
        BY <3>3 DEF KeysOf
      <4> QED
        BY <4>1, <4>2
    <3> QED
      BY <1>7, <1>9, <3>4, EmptySeq
  <2>2. Len(chosen) <= MaxBatch
    <3> DEFINE Q == {i \in DOMAIN q : IsRowVisible(q[i].row)}
               P == {i \in DOMAIN taken : taken[i].row \in shown}
    <3>1. Len(chosen) = Cardinality(Upto(Len(taken), P))
      <4>1. Filtered(chosen, Len(taken), taken, shown)
        BY <1>6, KeptIs DEF chosen
      <4> QED
        BY <4>1 DEF Filtered
    <3>2. DOMAIN taken = 1 .. c /\ DOMAIN q = 1 .. Len(q) /\ \A i \in 1 .. c : i \in 1 .. Len(q)
      BY <1>2, <1>3, <1>6, RequestsAre
    <3>3. \A i \in DOMAIN q : q[i].row \in Positions
      BY RequestsAre
    <3>4. \A i \in 1 .. c : i \in P <=> i \in Q
      BY <1>6, <3>2, <3>3 DEF shown
    <3>5. Upto(Len(taken), P) = Upto(c, Q)
      <4> HIDE DEF P, Q
      <4> QED
        BY <1>6, <3>4 DEF Upto
    <3>6. CASE c = TakeCount(q)
      BY <3>1, <3>5, <3>6, TakenFits
    <3>7. CASE c = 0
      <4>1. Upto(0, Q) = {}
        BY DEF Upto
      <4>2. Len(chosen) = 0
        BY <3>1, <3>5, <3>7, <4>1, FS_EmptySet
      <4> QED
        BY <4>2, ConstantsAssumption
    <3> QED
      BY <3>6, <3>7 DEF c
  <2>3. batch' = [i \in DOMAIN chosen |-> [request |-> chosen[i], current |-> TRUE,
                                           stage |-> "queued", image |-> 0]]
    BY <1>1, <1>9
  <2>4. Fresh(batch', KeysOf(chosen)) /\ {batch'[i].request.key : i \in DOMAIN batch'} = KeysOf(chosen)
    <3> DEFINE tasks2 == batch'
    <3>1. /\ tasks2 = [i \in DOMAIN chosen |-> tasks2[i]]
          /\ \A i \in DOMAIN chosen : tasks2[i] = [request |-> chosen[i], current |-> TRUE,
                                                   stage |-> "queued", image |-> 0]
      BY <2>3
    <3> HIDE DEF tasks2
    <3>2. Fresh(tasks2, KeysOf(chosen)) /\ {tasks2[i].request.key : i \in DOMAIN tasks2} = KeysOf(chosen)
      BY <1>7, <2>2, <3>1, ChosenBatch
    <3> QED
      BY <3>2 DEF tasks2
  <2>5. ResultKeys' = KeysOf(chosen)
    BY <2>4 DEF ResultKeys
  <2>6. Fresh(batch', KeysOf(q))
    BY <1>6, <1>7, <2>4 DEF Fresh
  <2> QED
    BY <1>1, <1>6, <1>7, <1>9, <2>1, <2>5, <2>6 DEF Started
<1> QED
  BY <1>8, <1>9

-----------------------------------------------------------------------------
(* The previews: contexts outlive their use, no request is stranded. *)

\* The types of the model, the view and the contexts, and those of the queue
\* and the batch.
ViewTyped ==
    /\ content \in [PageSources -> {0} \cup Versions] /\ item \in Lists(content)
    /\ visible \subseteq Positions /\ dirty \subseteq Positions
    /\ size \in Sizes /\ cache \in [Keys -> {0} \cup Versions] /\ scrolling \in BOOLEAN
    /\ contexts \in [Documents -> {0} \cup Versions] /\ locked \subseteq Documents
    /\ gui \in {"free", "resetting", "destroying", "gone"} /\ events \in 0 .. MaxEvents
BatchTyped ==
    /\ batch \in Seq(Tasks) /\ Len(batch) <= MaxBatch
    /\ worker \in {"idle", "starting", "rendering", "ended"}
    /\ rendering \in BOOLEAN /\ finished \in BOOLEAN
QueueTyped == queue \in Seq(Requests) /\ pending \subseteq Keys

\* A context is that of the document the model holds,
ContextsHold == \A d \in Documents : contexts[d] \in {0, content[d]}

\* and a task of the batch being rendered has it, unchanged while it is used.
Prepared ==
    \A i \in DOMAIN batch :
        LET d == SourceOfKey(batch[i].request.key)
        IN  IsRunning /\ d \in Documents =>
               /\ contexts[d] # 0
               /\ worker = "rendering" => d \in locked
               /\ batch[i].stage = "using" => contexts[d] = batch[i].image

\* So has a request that is queued.
QueuePrepared ==
    gui # "gone" =>
        \A k \in KeysOf(queue) : SourceOfKey(k) \in Documents => contexts[SourceOfKey(k)] # 0

\* No task is used before the batch begins; a batch being rendered is known to
\* be, and its event is not there yet; a batch known to be rendered has an event
\* or will have one.
Lifecycle ==
    /\ worker = "starting" => \A i \in DOMAIN batch : batch[i].stage = "queued"
    /\ finished => worker = "ended"
    /\ IsRunning => rendering
    /\ rendering /\ gui = "free" => IsRunning \/ finished

\* A pending key is that of a request.
Requested == gui = "free" => pending \subseteq KeysOf(queue) \cup (IF rendering THEN ResultKeys ELSE {})

\* The inductive invariant of the previews.
PreviewInv ==
    /\ ViewTyped /\ BatchTyped /\ QueueTyped
    /\ ContextsHold /\ Prepared /\ QueuePrepared /\ Lifecycle /\ Requested

\* It says the properties of the runs.
LEMMA PreviewImplies == PreviewInv => LiveContext /\ PendingIsServed
<1> SUFFICES ASSUME PreviewInv PROVE LiveContext /\ PendingIsServed
  OBVIOUS
<1>1. TypeOK
  BY DEF PreviewInv, ViewTyped, BatchTyped, QueueTyped, TypeOK
<1>2. PendingIsServed
  BY DEF PreviewInv, Requested, Lifecycle, PendingIsServed
<1>3. ASSUME NEW i \in DOMAIN batch, SourceOfKey(batch[i].request.key) \in Documents, IsRunning
      PROVE  LET d == SourceOfKey(batch[i].request.key)
             IN  /\ contexts[d] # 0
                 /\ batch[i].stage = "using" => contexts[d] = batch[i].image /\ d \in locked
  <2> DEFINE d == SourceOfKey(batch[i].request.key)
  <2>1. /\ contexts[d] # 0
        /\ worker = "rendering" => d \in locked
        /\ batch[i].stage = "using" => contexts[d] = batch[i].image
    BY <1>3 DEF PreviewInv, Prepared
  <2>2. batch[i].stage = "using" => worker # "starting"
    BY DEF PreviewInv, Lifecycle
  <2>3. worker = "starting" \/ worker = "rendering"
    BY <1>3 DEF IsRunning
  <2> QED
    BY <2>1, <2>2, <2>3
<1>4. LiveContext
  BY <1>1, <1>3 DEF LiveContext, PreviewInv, ContextsHold, QueuePrepared
<1> QED
  BY <1>2, <1>4

\* The same tasks, whether or not they are of the present epoch.
SameTasks(tasks) ==
    /\ DOMAIN tasks = DOMAIN batch
    /\ \A i \in DOMAIN batch : /\ tasks[i].request = batch[i].request /\ tasks[i].stage = batch[i].stage
                               /\ tasks[i].image = batch[i].image

\* What a task is.
LEMMA TasksAre ==
    ASSUME BatchTyped
    PROVE  /\ Len(batch) \in Nat /\ DOMAIN batch = 1 .. Len(batch)
           /\ \A i \in DOMAIN batch :
                 /\ batch[i] \in Tasks /\ batch[i].request \in Requests /\ batch[i].request.key \in Keys
                 /\ batch[i].request.row \in Positions
                 /\ batch[i].request.image \in {0} \cup Versions /\ batch[i].image \in {0} \cup Versions
           /\ ResultKeys \subseteq Keys
<1>1. Len(batch) \in Nat /\ DOMAIN batch = 1 .. Len(batch) /\ \A i \in 1 .. Len(batch) : batch[i] \in Tasks
  BY LenProperties, ElementOfSeq DEF BatchTyped
<1>2. \A x \in Tasks : x.request \in Requests /\ x.image \in {0} \cup Versions
  BY DEF Tasks
<1>3. \A x \in Requests : x.key \in Keys /\ x.row \in Positions /\ x.image \in {0} \cup Versions
  BY DEF Requests
<1> QED
  BY <1>1, <1>2, <1>3 DEF ResultKeys

\* A batch with one task changed is a batch.
LEMMA BatchChanged ==
    ASSUME BatchTyped, NEW tasks, DOMAIN tasks = DOMAIN batch,
           tasks = [i \in DOMAIN batch |-> tasks[i]], \A i \in DOMAIN batch : tasks[i] \in Tasks
    PROVE  tasks \in Seq(Tasks) /\ Len(tasks) = Len(batch)
<1>1. Len(batch) \in Nat /\ DOMAIN batch = 1 .. Len(batch)
  BY TasksAre
<1>2. tasks \in [1 .. Len(batch) -> Tasks]
  BY <1>1
<1>3. tasks \in Seq(Tasks)
  BY <1>1, <1>2 DEF Seq
<1> QED
  BY <1>1, <1>2, <1>3, LenProperties

\* Increasing the epoch keeps the tasks.
LEMMA Outdating ==
    ASSUME BatchTyped
    PROVE  OutdatedBatch \in Seq(Tasks) /\ Len(OutdatedBatch) = Len(batch) /\ SameTasks(OutdatedBatch)
<1> DEFINE b == OutdatedBatch
<1>1. \A x \in Tasks : /\ [x EXCEPT !.current = FALSE] \in Tasks
                       /\ [x EXCEPT !.current = FALSE].request = x.request
                       /\ [x EXCEPT !.current = FALSE].stage = x.stage
                       /\ [x EXCEPT !.current = FALSE].image = x.image
  BY DEF Tasks
<1>2. DOMAIN b = DOMAIN batch /\ \A i \in DOMAIN batch : b[i] = [batch[i] EXCEPT !.current = FALSE]
  BY DEF OutdatedBatch
<1>3. b = [i \in DOMAIN batch |-> b[i]]
  BY DEF OutdatedBatch
<1>4. \A i \in DOMAIN batch : batch[i] \in Tasks
  BY TasksAre
<1> HIDE DEF b
<1>5. \A i \in DOMAIN batch : b[i] \in Tasks
  BY <1>1, <1>2, <1>4
<1>6. SameTasks(b)
  BY <1>1, <1>2, <1>4 DEF SameTasks
<1>7. b \in Seq(Tasks) /\ Len(b) = Len(batch)
  BY <1>2, <1>3, <1>5, BatchChanged
<1> QED
  BY <1>6, <1>7 DEF b

\* While contexts and worker stay, the same tasks stay prepared.
LEMMA SamePrepared ==
    ASSUME Prepared, Lifecycle, SameTasks(batch'), contexts' = contexts, worker' = worker, locked' = locked
    PROVE  /\ Prepared' /\ ResultKeys' = ResultKeys
           /\ worker' = "starting" => \A i \in DOMAIN batch' : batch'[i].stage = "queued"
<1> DEFINE b == batch'
<1>1. DOMAIN b = DOMAIN batch
      /\ \A i \in DOMAIN batch : /\ b[i].request = batch[i].request /\ b[i].stage = batch[i].stage
                                 /\ b[i].image = batch[i].image
  BY DEF SameTasks
<1>2. ResultKeys' = ResultKeys
  BY <1>1 DEF ResultKeys
<1>3. Prepared'
  BY <1>1 DEF Prepared, IsRunning
<1>4. worker' = "starting" => \A i \in DOMAIN batch' : batch'[i].stage = "queued"
  BY <1>1 DEF Lifecycle
<1> QED
  BY <1>2, <1>3, <1>4

\* Without a change of batch, queue and contexts all is as it was.
LEMMA PreviewSame ==
    ASSUME PreviewInv, UNCHANGED <<requests, rendering, contexts, future, locked, gui>>,
           ViewTyped', ContextsHold'
    PROVE  PreviewInv'
<1>1. /\ pending' = pending /\ queue' = queue /\ rendering' = rendering /\ contexts' = contexts
      /\ batch' = batch /\ worker' = worker /\ finished' = finished /\ locked' = locked /\ gui' = gui
  BY DEF requests, future
<1>2. BatchTyped' /\ QueueTyped'
  BY <1>1 DEF PreviewInv, BatchTyped, QueueTyped
<1>3. Prepared' /\ QueuePrepared'
  BY <1>1 DEF PreviewInv, Prepared, QueuePrepared, KeysOf, IsRunning
<1>4. Lifecycle' /\ Requested'
  BY <1>1 DEF PreviewInv, Lifecycle, Requested, ResultKeys, KeysOf, IsRunning
<1> QED
  BY <1>2, <1>3, <1>4 DEF PreviewInv

\* Starting the next requests keeps the invariant, if the queue has its contexts
\* and the pending keys their requests.
LEMMA StartKeeps ==
    ASSUME BatchTyped, Prepared, Lifecycle, gui = "free", gui' = "free", locked' = locked,
           NEW q \in Seq(Requests), NEW p \in SUBSET Keys, NEW busy \in BOOLEAN, NEW event \in BOOLEAN,
           NEW tasks \in Seq(Tasks), Len(tasks) <= MaxBatch, SameTasks(tasks),
           StartNextRequest(q, p, busy, tasks, event),
           \A k \in KeysOf(q) : SourceOfKey(k) \in Documents => contexts'[SourceOfKey(k)] # 0,
           \A d \in Documents : contexts[d] # 0 => contexts'[d] = contexts[d],
           event => worker = "ended", IsRunning => busy, busy => IsRunning \/ event,
           p \subseteq KeysOf(q) \cup (IF busy THEN ResultKeys ELSE {})
    PROVE  BatchTyped' /\ QueueTyped' /\ Prepared' /\ QueuePrepared' /\ Lifecycle' /\ Requested'
<1>1. /\ queue' \in Seq(Requests) /\ KeysOf(queue') \subseteq KeysOf(q) /\ pending' \subseteq p
      /\ \/ /\ rendering' = busy /\ batch' = tasks /\ worker' = worker /\ finished' = event
            /\ p \cap KeysOf(q) \cap pending' \subseteq KeysOf(queue')
         \/ /\ ~busy /\ rendering' = TRUE /\ worker' = "starting" /\ finished' = FALSE
            /\ Fresh(batch', KeysOf(q))
            /\ p \cap KeysOf(q) \cap pending' \subseteq KeysOf(queue') \cup ResultKeys'
  <2>1. Started(q, p, busy, tasks, event)
    BY StartsNext, Zenon
  <2> QED
    BY <2>1, Zenon DEF Started
<1>2. QueueTyped'
  BY <1>1 DEF QueueTyped
<1>3. QueuePrepared'
  <2>1. KeysOf(queue)' = KeysOf(queue')
    BY DEF KeysOf
  <2> QED
    BY <1>1, <2>1 DEF QueuePrepared
<1>4. CASE /\ rendering' = busy /\ batch' = tasks /\ worker' = worker /\ finished' = event
           /\ p \cap KeysOf(q) \cap pending' \subseteq KeysOf(queue')
  <2>1. BatchTyped'
    BY <1>4 DEF BatchTyped
  <2>2. /\ DOMAIN batch' = DOMAIN batch
        /\ \A i \in DOMAIN batch : /\ batch'[i].request = batch[i].request /\ batch'[i].stage = batch[i].stage
                                   /\ batch'[i].image = batch[i].image
    BY <1>4 DEF SameTasks
  <2>3. ResultKeys' = ResultKeys
    BY <2>2 DEF ResultKeys
  <2>4. Prepared'
    <3> DEFINE D(i) == SourceOfKey(batch[i].request.key)
    <3>1. IsRunning' <=> IsRunning
      BY <1>4 DEF IsRunning
    <3>2. \A i \in DOMAIN batch : IsRunning /\ D(i) \in Documents =>
              contexts'[D(i)] # 0 /\ contexts'[D(i)] = contexts[D(i)]
      BY DEF Prepared
    <3>3. \A i \in DOMAIN batch : SourceOfKey(batch'[i].request.key) = D(i)
      BY <2>2
    <3>4. \A i \in DOMAIN batch : IsRunning /\ D(i) \in Documents =>
              /\ worker' = "rendering" => D(i) \in locked'
              /\ batch'[i].stage = "using" => contexts'[D(i)] = batch'[i].image
      BY <1>4, <2>2, <3>2 DEF Prepared
    <3> HIDE DEF D
    <3> QED
      BY <2>2, <3>1, <3>2, <3>3, <3>4 DEF Prepared
  <2>5. Lifecycle'
    BY <1>4, <2>2 DEF Lifecycle, IsRunning
  <2>6. Requested'
    <3>1. KeysOf(queue)' = KeysOf(queue')
      BY DEF KeysOf
    <3> QED
      BY <1>1, <1>4, <2>3, <3>1 DEF Requested
  <2> QED
    BY <1>2, <1>3, <2>1, <2>4, <2>5, <2>6
<1>5. CASE /\ ~busy /\ rendering' = TRUE /\ worker' = "starting" /\ finished' = FALSE
           /\ Fresh(batch', KeysOf(q))
           /\ p \cap KeysOf(q) \cap pending' \subseteq KeysOf(queue') \cup ResultKeys'
  <2>1. BatchTyped'
    BY <1>5 DEF BatchTyped, Fresh
  <2>2. \A i \in DOMAIN batch' : batch'[i].stage = "queued" /\ batch'[i].request.key \in KeysOf(q)
    BY <1>5 DEF Fresh
  <2>3. Prepared'
    <3>1. "queued" # "using" /\ "starting" # "rendering"
      OBVIOUS
    <3> QED
      BY <1>5, <2>2, <3>1 DEF Prepared
  <2>4. Lifecycle'
    BY <1>5, <2>2 DEF Lifecycle, IsRunning
  <2>5. Requested'
    <3>1. KeysOf(queue)' = KeysOf(queue')
      BY DEF KeysOf
    <3> QED
      BY <1>1, <1>5, <3>1 DEF Requested
  <2> QED
    BY <1>2, <1>3, <2>1, <2>3, <2>4, <2>5
<1> QED
  BY <1>1, <1>4, <1>5

\* Adding a request adds its key.
LEMMA KeysAppended ==
    ASSUME NEW q \in Seq(Requests), NEW x \in Requests, NEW z, z = Append(q, x)
    PROVE  z \in Seq(Requests) /\ KeysOf(z) = KeysOf(q) \cup {x.key}
<1>1. /\ z \in Seq(Requests) /\ Len(z) = Len(q) + 1
      /\ \A i \in 1 .. Len(q) : z[i] = q[i]
      /\ z[Len(q) + 1] = x
  BY AppendProperties
<1>2. Len(q) \in Nat /\ DOMAIN q = 1 .. Len(q) /\ DOMAIN z = 1 .. Len(z)
  BY <1>1, RequestsAre
<1> DEFINE I == 1 .. Len(q)
           I2 == 1 .. Len(z)
           l == Len(q) + 1
<1>3. \A i : i \in I2 <=> i \in I \/ i = l
  BY <1>1, <1>2
<1>4. DOMAIN q = I /\ DOMAIN z = I2 /\ (\A i \in I : z[i] = q[i]) /\ z[l] = x
  BY <1>1, <1>2
<1> HIDE DEF I, I2, l
<1>5. KeysOf(z) = KeysOf(q) \cup {x.key}
  BY <1>3, <1>4 DEF KeysOf
<1> QED
  BY <1>1, <1>5

\* What a row shows.
LEMMA RowsAre ==
    ASSUME ViewTyped, NEW r \in Positions, item[r] # NoItem
    PROVE  /\ item[r] \in Items /\ SourceOf[item[r]] \in PageSources /\ content[SourceOf[item[r]]] # 0
           /\ content[SourceOf[item[r]]] \in Versions /\ Key(r) \in Keys /\ SourceOfKey(Key(r)) = SourceOf[item[r]]
<1>1. item[r] \in Items /\ content[SourceOf[item[r]]] # 0
  BY DEF ViewTyped, Lists
<1>2. SourceOf[item[r]] \in PageSources
  BY <1>1, ConstantsAssumption
<1>3. content[SourceOf[item[r]]] \in Versions
  BY <1>1, <1>2 DEF ViewTyped
<1>4. Key(r) \in Keys /\ SourceOfKey(Key(r)) = SourceOf[item[r]]
  BY <1>1 DEF Key, Keys, SourceOfKey, ViewTyped
<1> QED
  BY <1>1, <1>2, <1>3, <1>4

\* Painting a row gives its document a context before its page is requested.
LEMMA PaintKeeps == ASSUME PreviewInv, NEW r \in Positions, Paint(r) PROVE PreviewInv'
<1>1. /\ gui = "free" /\ r \in dirty /\ IsRowVisible(r) /\ dirty' = dirty \ {r}
      /\ item' = item /\ content' = content /\ visible' = visible /\ size' = size /\ cache' = cache
      /\ scrolling' = scrolling /\ locked' = locked /\ gui' = gui /\ events' = events
  BY DEF Paint, model
<1>2. item[r] # NoItem
  BY <1>1 DEF IsRowVisible
<1>3. CASE ~Wanted(r)
  <2>1. UNCHANGED <<requests, rendering, contexts, future>>
    BY <1>3 DEF Paint
  <2>2. ViewTyped' /\ ContextsHold'
    BY <1>1, <2>1 DEF PreviewInv, ViewTyped, ContextsHold
  <2> QED
    BY <1>1, <2>1, <2>2, PreviewSame
<1>4. CASE Wanted(r)
  <2> DEFINE source == SourceOf[item[r]]
             x == [key |-> Key(r), row |-> r, image |-> IF source \in Images THEN content[source] ELSE 0]
             q == Append(queue, x)
             p == pending \cup {Key(r)}
  <2>1. /\ contexts' = IF source \in Documents THEN EnsureDocumentContext(source) ELSE contexts
        /\ StartNextRequest(q, p, rendering, batch, finished)
    BY <1>4 DEF Paint
  <2>2. /\ item[r] \in Items /\ source \in PageSources /\ content[source] # 0 /\ content[source] \in Versions
        /\ Key(r) \in Keys /\ SourceOfKey(Key(r)) = source
    BY <1>2, RowsAre DEF PreviewInv
  <2>3. x \in Requests /\ x.key = Key(r)
    BY <2>2 DEF Requests
  <2>4. /\ contexts' \in [Documents -> {0} \cup Versions]
        /\ source \in Documents => contexts'[source] # 0
        /\ \A d \in Documents : (contexts[d] # 0 => contexts'[d] = contexts[d]) /\ contexts'[d] \in {0, content[d]}
    <3>1. contexts \in [Documents -> {0} \cup Versions] /\ \A d \in Documents : contexts[d] \in {0, content[d]}
      BY DEF PreviewInv, ViewTyped, ContextsHold
    <3>2. CASE source \in Documents /\ contexts[source] = 0
      <4>1. contexts' = [contexts EXCEPT ![source] = content[source]]
        BY <2>1, <3>2 DEF EnsureDocumentContext
      <4> HIDE DEF source
      <4> QED
        BY <2>2, <3>1, <3>2, <4>1
    <3>3. CASE ~(source \in Documents /\ contexts[source] = 0)
      <4>1. contexts' = contexts
        BY <2>1, <3>3 DEF EnsureDocumentContext
      <4> QED
        BY <3>1, <3>3, <4>1
    <3> QED
      BY <3>2, <3>3
  <2>5. queue \in Seq(Requests) /\ pending \subseteq Keys
    BY DEF PreviewInv, QueueTyped
  <2> HIDE DEF x
  <2>6. q \in Seq(Requests) /\ KeysOf(q) = KeysOf(queue) \cup {Key(r)}
    BY <2>3, <2>5, KeysAppended
  <2>7. p \in SUBSET Keys
    BY <2>2, <2>5
  <2> HIDE DEF q, p
  <2>8. \A k \in KeysOf(q) : SourceOfKey(k) \in Documents => contexts'[SourceOfKey(k)] # 0
    <3>1. \A k \in KeysOf(queue) : SourceOfKey(k) \in Documents => contexts[SourceOfKey(k)] # 0
      BY <1>1 DEF PreviewInv, QueuePrepared
    <3>2. \A k \in KeysOf(queue) : SourceOfKey(k) \in Documents => contexts'[SourceOfKey(k)] # 0
      BY <2>4, <3>1
    <3>3. SourceOfKey(Key(r)) \in Documents => contexts'[SourceOfKey(Key(r))] # 0
      BY <2>2, <2>4
    <3> QED
      BY <2>6, <3>2, <3>3
  <2>9. p \subseteq KeysOf(q) \cup (IF rendering THEN ResultKeys ELSE {})
    BY <1>1, <2>6 DEF PreviewInv, Requested, p
  <2>10. BatchTyped /\ Prepared /\ Lifecycle /\ SameTasks(batch) /\ gui' = "free"
    BY <1>1 DEF PreviewInv, SameTasks
  <2>11. /\ rendering \in BOOLEAN /\ finished \in BOOLEAN /\ batch \in Seq(Tasks) /\ Len(batch) <= MaxBatch
         /\ finished => worker = "ended"
         /\ IsRunning => rendering
         /\ rendering => IsRunning \/ finished
    BY <1>1, <2>10 DEF BatchTyped, Lifecycle
  <2>12. \A d \in Documents : contexts[d] # 0 => contexts'[d] = contexts[d]
    BY <2>4
  <2>13. BatchTyped' /\ QueueTyped' /\ Prepared' /\ QueuePrepared' /\ Lifecycle' /\ Requested'
    BY <1>1, <2>1, <2>6, <2>7, <2>8, <2>9, <2>10, <2>11, <2>12, StartKeeps
  <2>14. ViewTyped' /\ ContextsHold'
    BY <1>1, <2>4 DEF PreviewInv, ViewTyped, ContextsHold
  <2> QED
    BY <2>13, <2>14 DEF PreviewInv
<1> QED
  BY <1>3, <1>4

\* Scrolling drops requests together with their keys.
LEMMA ScrollKeeps == ASSUME PreviewInv, Scroll PROVE PreviewInv'
<1>1. PICK seen \in SUBSET Positions : OnViewportChanged(seen)
  BY DEF Scroll
<1>2. /\ gui = "free" /\ gui' = gui /\ events < MaxEvents /\ events' = events + 1
      /\ item' = item /\ content' = content /\ size' = size /\ cache' = cache /\ rendering' = rendering
      /\ contexts' = contexts /\ worker' = worker /\ finished' = finished /\ locked' = locked
  BY DEF Scroll, Changed, model
<1> DEFINE shown == {r \in seen : item[r] # NoItem}
<1>3. /\ visible' = seen /\ dirty' = Positions /\ scrolling' = TRUE /\ batch' = OutdatedBatch
      /\ queue' = Kept(queue, shown) /\ pending' = pending \ KeysDropped(queue, shown)
  BY <1>1 DEF OnViewportChanged, PruneRequestQueue
<1> HIDE DEF shown
<1>4. queue \in Seq(Requests) /\ pending \subseteq Keys
  BY DEF PreviewInv, QueueTyped
<1>5. /\ queue' \in Seq(Requests) /\ KeysOf(queue') \subseteq KeysOf(queue)
      /\ KeysOf(queue) \subseteq KeysOf(queue') \cup KeysDropped(queue, shown)
  BY <1>3, <1>4, KeptKeys
<1>6. BatchTyped' /\ QueueTyped' /\ SameTasks(batch')
  BY <1>2, <1>3, <1>4, <1>5, Outdating DEF PreviewInv, BatchTyped, QueueTyped
<1>7. /\ Prepared' /\ ResultKeys' = ResultKeys
      /\ worker' = "starting" => \A i \in DOMAIN batch' : batch'[i].stage = "queued"
  BY <1>2, <1>6, SamePrepared DEF PreviewInv
<1>8. Lifecycle'
  BY <1>2, <1>7 DEF PreviewInv, Lifecycle, IsRunning
<1>9. KeysOf(queue)' = KeysOf(queue')
  BY DEF KeysOf
<1>10. QueuePrepared'
  BY <1>2, <1>5, <1>9 DEF PreviewInv, QueuePrepared
<1>11. Requested'
  BY <1>2, <1>3, <1>5, <1>7, <1>9 DEF PreviewInv, Requested
<1>12. ViewTyped' /\ ContextsHold'
  <2>1. events' \in 0 .. MaxEvents
    BY <1>2, ConstantsAssumption DEF PreviewInv, ViewTyped
  <2> QED
    BY <1>2, <1>3, <2>1 DEF PreviewInv, ViewTyped, ContextsHold
<1> QED
  BY <1>6, <1>7, <1>8, <1>10, <1>11, <1>12 DEF PreviewInv

\* Filtering changes what is visible only.
LEMMA FilterKeeps == ASSUME PreviewInv, Filter PROVE PreviewInv'
<1>1. /\ visible' \subseteq Positions /\ dirty' = Positions /\ events < MaxEvents /\ events' = events + 1
      /\ item' = item /\ content' = content /\ size' = size /\ cache' = cache /\ scrolling' = scrolling
      /\ contexts' = contexts /\ locked' = locked /\ gui' = gui
      /\ UNCHANGED <<requests, rendering, contexts, future, locked, gui>>
  BY DEF Filter, Changed, model
<1>2. events' \in 0 .. MaxEvents
  BY <1>1, ConstantsAssumption DEF PreviewInv, ViewTyped
<1>3. ViewTyped' /\ ContextsHold'
  BY <1>1, <1>2 DEF PreviewInv, ViewTyped, ContextsHold
<1> QED
  BY <1>1, <1>3, PreviewSame

\* A row that shows another page shows one of the same source.
LEMMA ItemChangedKeeps == ASSUME PreviewInv, NEW r \in Positions, ItemChanged(r) PROVE PreviewInv'
<1>1. /\ item[r] # NoItem /\ dirty' = dirty \cup {r} /\ events < MaxEvents /\ events' = events + 1
      /\ content' = content /\ visible' = visible /\ size' = size /\ cache' = cache /\ scrolling' = scrolling
      /\ contexts' = contexts /\ locked' = locked /\ gui' = gui
      /\ UNCHANGED <<requests, rendering, contexts, future, locked, gui>>
  BY DEF ItemChanged, Changed
<1>2. PICK i \in Items \ {item[r]} : SourceOf[i] = SourceOf[item[r]] /\ item' = [item EXCEPT ![r] = i]
  BY DEF ItemChanged
<1>3. item' \in Lists(content')
  <2>1. item \in [Positions -> Items \cup {NoItem}]
        /\ (\A s \in Positions \ {1} : item[s] # NoItem => item[s - 1] # NoItem)
        /\ (\A s \in Positions : item[s] # NoItem => content[SourceOf[item[s]]] # 0)
    BY DEF PreviewInv, ViewTyped, Lists
  <2>2. i # NoItem /\ i \in Items
    BY <1>2, ConstantsAssumption
  <2>3. /\ item' \in [Positions -> Items \cup {NoItem}] /\ item'[r] = i
        /\ \A s : s # r => (s \in Positions => item'[s] = item[s])
    BY <1>2, <2>1, <2>2
  <2>4. \A s \in Positions : item'[s] # NoItem <=> item[s] # NoItem
    BY <1>1, <2>2, <2>3
  <2>5. \A s \in Positions \ {1} : s - 1 \in Positions
    BY ConstantsAssumption DEF Positions
  <2>6. \A s \in Positions \ {1} : item'[s] # NoItem => item'[s - 1] # NoItem
    BY <2>1, <2>4, <2>5
  <2>7. \A s \in Positions : item'[s] # NoItem => content'[SourceOf[item'[s]]] # 0
    BY <1>1, <1>2, <2>1, <2>3, <2>4
  <2> QED
    BY <2>3, <2>6, <2>7 DEF Lists
<1>4. events' \in 0 .. MaxEvents
  BY <1>1, ConstantsAssumption DEF PreviewInv, ViewTyped
<1>5. ViewTyped' /\ ContextsHold'
  BY <1>1, <1>3, <1>4 DEF PreviewInv, ViewTyped, ContextsHold
<1> QED
  BY <1>1, <1>5, PreviewSame

\* Clearing leaves no request.
LEMMA Clearing ==
    ASSUME PreviewInv, ClearPreviewCache, worker' = worker, locked' = locked, finished' = finished,
           rendering' = rendering \/ (rendering' = FALSE /\ ~IsRunning), contexts' = contexts \/ ~IsRunning,
           rendering' = FALSE \/ gui' = gui \/ gui' # "free"
    PROVE  /\ cache' \in [Keys -> {0} \cup Versions]
           /\ BatchTyped' /\ QueueTyped' /\ Prepared' /\ QueuePrepared' /\ Lifecycle' /\ Requested'
<1>1. cache' = [k \in Keys |-> 0] /\ pending' = {} /\ queue' = <<>> /\ batch' = OutdatedBatch
  BY DEF ClearPreviewCache
<1>2. cache' \in [Keys -> {0} \cup Versions]
  BY <1>1
<1>3. queue' \in Seq(Requests) /\ KeysOf(queue)' = {}
  BY <1>1 DEF KeysOf
<1>4. BatchTyped' /\ QueueTyped' /\ SameTasks(batch')
  BY <1>1, <1>3, Outdating DEF PreviewInv, BatchTyped, QueueTyped
<1>5. IsRunning' <=> IsRunning
  BY DEF IsRunning
<1>6. Prepared'
  <2>1. CASE contexts' = contexts
    BY <1>4, <2>1, SamePrepared DEF PreviewInv
  <2>2. CASE ~IsRunning
    BY <1>5, <2>2 DEF Prepared
  <2> QED
    BY <2>1, <2>2
<1>7. Lifecycle'
  <2>1. \A i \in DOMAIN batch' : batch'[i].stage = batch[i].stage /\ i \in DOMAIN batch
    BY <1>4 DEF SameTasks
  <2>2. rendering' /\ gui' = "free" => IsRunning' \/ finished'
    BY <1>5 DEF PreviewInv, Lifecycle
  <2>3. IsRunning' => rendering'
    BY <1>5 DEF PreviewInv, Lifecycle
  <2> QED
    BY <2>1, <2>2, <2>3 DEF PreviewInv, Lifecycle
<1>8. QueuePrepared' /\ Requested'
  BY <1>1, <1>3 DEF QueuePrepared, Requested
<1> QED
  BY <1>2, <1>4, <1>6, <1>7, <1>8

\* Zooming clears.
LEMMA ZoomKeeps == ASSUME PreviewInv, Zoom PROVE PreviewInv'
<1>1. /\ ClearPreviewCache /\ size' \in Sizes /\ dirty' = Positions /\ events < MaxEvents /\ events' = events + 1
      /\ item' = item /\ content' = content /\ visible' = visible /\ scrolling' = scrolling
      /\ rendering' = rendering /\ contexts' = contexts /\ worker' = worker /\ finished' = finished
      /\ locked' = locked /\ gui' = gui
  BY DEF Zoom, Changed, model
<1>2. /\ cache' \in [Keys -> {0} \cup Versions]
      /\ BatchTyped' /\ QueueTyped' /\ Prepared' /\ QueuePrepared' /\ Lifecycle' /\ Requested'
  BY <1>1, Clearing
<1>3. events' \in 0 .. MaxEvents
  BY <1>1, ConstantsAssumption DEF PreviewInv, ViewTyped
<1>4. ViewTyped' /\ ContextsHold'
  BY <1>1, <1>2, <1>3 DEF PreviewInv, ViewTyped, ContextsHold
<1> QED
  BY <1>2, <1>4 DEF PreviewInv

\* A source that is inserted had no context.
LEMMA InsertKeeps == ASSUME PreviewInv, NEW r \in Positions, NEW i \in Items, Insert(r, i) PROVE PreviewInv'
<1> DEFINE s == SourceOf[i]
<1>1. /\ ClearPreviewCache /\ item' \in Lists(content') /\ scrolling' = TRUE /\ dirty' = Positions
      /\ events < MaxEvents /\ events' = events + 1
      /\ visible' = visible /\ size' = size
      /\ rendering' = rendering /\ contexts' = contexts /\ worker' = worker /\ finished' = finished
      /\ locked' = locked /\ gui' = gui
  BY DEF Insert, Changed
<1>2. PICK c \in (IF content[s] = 0 THEN Versions ELSE {content[s]}) : content' = [content EXCEPT ![s] = c]
  BY DEF Insert
<1>3. /\ cache' \in [Keys -> {0} \cup Versions]
      /\ BatchTyped' /\ QueueTyped' /\ Prepared' /\ QueuePrepared' /\ Lifecycle' /\ Requested'
  BY <1>1, Clearing
<1>4. events' \in 0 .. MaxEvents
  BY <1>1, ConstantsAssumption DEF PreviewInv, ViewTyped
<1>5. content' \in [PageSources -> {0} \cup Versions] /\ ContextsHold'
  <2>1. content \in [PageSources -> {0} \cup Versions] /\ \A d \in Documents : contexts[d] \in {0, content[d]}
    BY DEF PreviewInv, ViewTyped, ContextsHold
  <2>2. s \in PageSources /\ Documents \subseteq PageSources
    BY ConstantsAssumption DEF PageSources
  <2> HIDE DEF s
  <2>3. c \in {0} \cup Versions /\ (content[s] = 0 \/ c = content[s])
    BY <1>2, <2>1, <2>2
  <2>4. content' \in [PageSources -> {0} \cup Versions]
    BY <1>2, <2>1, <2>3
  <2>5. \A d \in Documents : content[d] = 0 \/ content'[d] = content[d]
    BY <1>2, <2>1, <2>2, <2>3
  <2>6. ContextsHold'
    BY <1>1, <2>1, <2>5 DEF ContextsHold
  <2> QED
    BY <2>4, <2>6
<1>6. ViewTyped'
  BY <1>1, <1>3, <1>4, <1>5 DEF PreviewInv, ViewTyped
<1> QED
  BY <1>3, <1>5, <1>6 DEF PreviewInv

\* Waiting for the batch being rendered.
LEMMA WaitKeeps ==
    ASSUME PreviewInv, NEW doing \in {"resetting", "destroying"}, WaitForCurrentRender(doing)
    PROVE  PreviewInv'
<1>1. /\ gui = "free" /\ gui' = doing /\ events < MaxEvents /\ events' = events + 1
      /\ item' = item /\ content' = content /\ visible' = visible /\ dirty' = dirty /\ size' = size
      /\ scrolling' = scrolling /\ rendering' = rendering /\ contexts' = contexts /\ worker' = worker
      /\ finished' = finished /\ locked' = locked
      /\ IF doing = "resetting" THEN ClearPreviewCache ELSE UNCHANGED <<cache, requests, batch>>
  BY DEF WaitForCurrentRender, Changed, model, view
<1>2. gui' # "free" /\ gui' # "gone"
  BY <1>1
<1>3. /\ cache' \in [Keys -> {0} \cup Versions]
      /\ BatchTyped' /\ QueueTyped' /\ Prepared' /\ QueuePrepared' /\ Lifecycle' /\ Requested'
  <2>1. CASE ClearPreviewCache
    BY <1>1, <1>2, <2>1, Clearing
  <2>2. CASE UNCHANGED <<cache, requests, batch>>
    <3>1. cache' = cache /\ pending' = pending /\ queue' = queue /\ batch' = batch
      BY <2>2 DEF requests
    <3>2. cache' \in [Keys -> {0} \cup Versions] /\ BatchTyped' /\ QueueTyped'
      BY <1>1, <3>1 DEF PreviewInv, ViewTyped, BatchTyped, QueueTyped
    <3>3. Prepared' /\ QueuePrepared'
      BY <1>1, <3>1 DEF PreviewInv, Prepared, QueuePrepared, KeysOf, IsRunning
    <3>4. Lifecycle' /\ Requested'
      BY <1>1, <1>2, <3>1 DEF PreviewInv, Lifecycle, Requested, IsRunning
    <3> QED
      BY <3>2, <3>3, <3>4
  <2> QED
    BY <1>1, <2>1, <2>2
<1>4. events' \in 0 .. MaxEvents
  BY <1>1, ConstantsAssumption DEF PreviewInv, ViewTyped
<1>5. ViewTyped' /\ ContextsHold'
  BY <1>1, <1>3, <1>4 DEF PreviewInv, ViewTyped, ContextsHold
<1> QED
  BY <1>3, <1>5 DEF PreviewInv

\* When the view has settled the requests for rows not shown are dropped.
LEMMA SettledKeeps == ASSUME PreviewInv, ViewportSettled PROVE PreviewInv'
<1> DEFINE shown == {r \in Positions : IsRowVisible(r)}
           q == Kept(queue, shown)
           p == pending \ KeysDropped(queue, shown)
<1>1. /\ gui = "free" /\ scrolling' = FALSE /\ dirty' = Positions
      /\ StartNextRequest(q, p, rendering, OutdatedBatch, finished)
      /\ item' = item /\ content' = content /\ visible' = visible /\ size' = size /\ cache' = cache
      /\ contexts' = contexts /\ locked' = locked /\ gui' = gui /\ events' = events
  BY DEF ViewportSettled, model
<1> HIDE DEF shown
<1>2. queue \in Seq(Requests) /\ pending \subseteq Keys
  BY DEF PreviewInv, QueueTyped
<1>3. /\ q \in Seq(Requests) /\ KeysOf(q) \subseteq KeysOf(queue)
      /\ KeysOf(queue) \subseteq KeysOf(q) \cup KeysDropped(queue, shown)
  BY <1>2, KeptKeys
<1>4. p \in SUBSET Keys /\ p \subseteq KeysOf(q) \cup (IF rendering THEN ResultKeys ELSE {})
  BY <1>1, <1>2, <1>3 DEF PreviewInv, Requested
<1> HIDE DEF q, p
<1>5. BatchTyped /\ Prepared /\ Lifecycle /\ gui' = "free"
  BY <1>1 DEF PreviewInv
<1>6. OutdatedBatch \in Seq(Tasks) /\ Len(OutdatedBatch) <= MaxBatch /\ SameTasks(OutdatedBatch)
  BY <1>5, Outdating DEF BatchTyped
<1>7. /\ rendering \in BOOLEAN /\ finished \in BOOLEAN
      /\ finished => worker = "ended"
      /\ IsRunning => rendering
      /\ rendering => IsRunning \/ finished
  BY <1>1, <1>5 DEF BatchTyped, Lifecycle
<1>8. \A k \in KeysOf(q) : SourceOfKey(k) \in Documents => contexts'[SourceOfKey(k)] # 0
  BY <1>1, <1>3 DEF PreviewInv, QueuePrepared
<1>9. \A d \in Documents : contexts[d] # 0 => contexts'[d] = contexts[d]
  BY <1>1
<1>10. BatchTyped' /\ QueueTyped' /\ Prepared' /\ QueuePrepared' /\ Lifecycle' /\ Requested'
  BY <1>1, <1>3, <1>4, <1>5, <1>6, <1>7, <1>8, <1>9, StartKeeps
<1>11. ViewTyped' /\ ContextsHold'
  BY <1>1 DEF PreviewInv, ViewTyped, ContextsHold
<1> QED
  BY <1>10, <1>11 DEF PreviewInv

\* The reset waits for the batch, so nobody uses the contexts it removes.
LEMMA ResetKeeps == ASSUME PreviewInv, ResetModel PROVE PreviewInv'
<1>1. /\ ~IsRunning /\ gui' = "free" /\ rendering' = FALSE /\ contexts' = [d \in Documents |-> 0]
      /\ content' \in [PageSources -> {0} \cup Versions] /\ item' \in Lists(content')
      /\ ClearPreviewCache /\ scrolling' = TRUE /\ dirty' = Positions
      /\ visible' = visible /\ size' = size /\ worker' = worker /\ finished' = finished
      /\ locked' = locked /\ events' = events
  BY DEF ResetModel
<1>2. /\ cache' \in [Keys -> {0} \cup Versions]
      /\ BatchTyped' /\ QueueTyped' /\ Prepared' /\ QueuePrepared' /\ Lifecycle' /\ Requested'
  BY <1>1, Clearing
<1>3. contexts' \in [Documents -> {0} \cup Versions] /\ ContextsHold'
  BY <1>1 DEF ContextsHold
<1>4. ViewTyped'
  BY <1>1, <1>2, <1>3 DEF PreviewInv, ViewTyped
<1> QED
  BY <1>2, <1>3, <1>4 DEF PreviewInv

\* So does the destructor.
LEMMA DestroyKeeps == ASSUME PreviewInv, Destroy PROVE PreviewInv'
<1>1. /\ ~IsRunning /\ gui' = "gone" /\ rendering' = FALSE /\ contexts' = [d \in Documents |-> 0]
      /\ finished' = FALSE
      /\ item' = item /\ content' = content /\ visible' = visible /\ dirty' = dirty /\ size' = size
      /\ cache' = cache /\ pending' = pending /\ queue' = queue /\ scrolling' = scrolling
      /\ batch' = batch /\ worker' = worker /\ locked' = locked /\ events' = events
  BY DEF Destroy, model, view, requests
<1>2. ~IsRunning'
  BY <1>1 DEF IsRunning
<1>3. contexts' \in [Documents -> {0} \cup Versions] /\ ContextsHold'
  BY <1>1 DEF ContextsHold
<1>4. ViewTyped' /\ BatchTyped' /\ QueueTyped'
  BY <1>1, <1>3 DEF PreviewInv, ViewTyped, BatchTyped, QueueTyped
<1>5. Prepared' /\ QueuePrepared' /\ Requested'
  BY <1>1, <1>2 DEF Prepared, QueuePrepared, Requested
<1>6. Lifecycle'
  BY <1>1, <1>2 DEF PreviewInv, Lifecycle
<1> QED
  BY <1>3, <1>4, <1>5, <1>6 DEF PreviewInv

\* A batch begins with the fonts of its documents kept.
LEMMA BeginsKeeps == ASSUME PreviewInv, BatchBegins PROVE PreviewInv'
<1>1. /\ worker = "starting" /\ worker' = "rendering"
      /\ locked' = {d \in Documents : contexts[d] # 0 /\
                        \E i \in DOMAIN batch : SourceOfKey(batch[i].request.key) = d}
      /\ item' = item /\ content' = content /\ visible' = visible /\ dirty' = dirty /\ size' = size
      /\ cache' = cache /\ pending' = pending /\ queue' = queue /\ scrolling' = scrolling
      /\ rendering' = rendering /\ contexts' = contexts /\ gui' = gui /\ events' = events
      /\ batch' = batch /\ finished' = finished
  BY DEF BatchBegins, Main, model, view, requests
<1>2. IsRunning /\ IsRunning'
  BY <1>1 DEF IsRunning
<1>3. ViewTyped' /\ BatchTyped' /\ QueueTyped' /\ ContextsHold'
  BY <1>1 DEF PreviewInv, ViewTyped, BatchTyped, QueueTyped, ContextsHold
<1>4. Prepared'
  <2>1. \A i \in DOMAIN batch : batch[i].stage = "queued"
    BY <1>1 DEF PreviewInv, Lifecycle
  <2>2. \A i \in DOMAIN batch : SourceOfKey(batch[i].request.key) \in Documents =>
            contexts[SourceOfKey(batch[i].request.key)] # 0
    BY <1>2 DEF PreviewInv, Prepared
  <2>3. \A i \in DOMAIN batch : SourceOfKey(batch[i].request.key) \in Documents =>
            SourceOfKey(batch[i].request.key) \in locked'
    BY <1>1, <2>2
  <2> QED
    BY <1>1, <2>1, <2>2, <2>3 DEF Prepared
<1>5. Lifecycle'
  BY <1>1, <1>2 DEF PreviewInv, Lifecycle
<1>6. QueuePrepared' /\ Requested'
  BY <1>1 DEF PreviewInv, QueuePrepared, Requested, KeysOf, ResultKeys
<1> QED
  BY <1>3, <1>4, <1>5, <1>6 DEF PreviewInv

\* The end of a batch is announced.
LEMMA EndsKeeps == ASSUME PreviewInv, BatchEnds PROVE PreviewInv'
<1>1. /\ worker = "rendering" /\ worker' = "ended" /\ locked' = {} /\ finished' = TRUE
      /\ item' = item /\ content' = content /\ visible' = visible /\ dirty' = dirty /\ size' = size
      /\ cache' = cache /\ pending' = pending /\ queue' = queue /\ scrolling' = scrolling
      /\ rendering' = rendering /\ contexts' = contexts /\ gui' = gui /\ events' = events
      /\ batch' = batch
  BY DEF BatchEnds, Main, model, view, requests
<1>2. ~IsRunning'
  BY <1>1 DEF IsRunning
<1>3. ViewTyped' /\ BatchTyped' /\ QueueTyped' /\ ContextsHold'
  BY <1>1 DEF PreviewInv, ViewTyped, BatchTyped, QueueTyped, ContextsHold
<1>4. Prepared' /\ Lifecycle'
  BY <1>1, <1>2 DEF Prepared, Lifecycle
<1>5. QueuePrepared' /\ Requested'
  BY <1>1 DEF PreviewInv, QueuePrepared, Requested, KeysOf, ResultKeys
<1> QED
  BY <1>3, <1>4, <1>5 DEF PreviewInv

\* A step of a task that leaves the others alone.
LEMMA TaskKeeps ==
    ASSUME PreviewInv, UNCHANGED <<Main, worker, finished, locked>>, worker = "rendering",
           NEW i \in DOMAIN batch, NEW t \in Tasks, batch' = [batch EXCEPT ![i] = t],
           t.request = batch[i].request,
           t.stage = "using" => (SourceOfKey(t.request.key) \in Documents =>
                                    t.image = contexts[SourceOfKey(t.request.key)])
    PROVE  PreviewInv'
<1>1. /\ item' = item /\ content' = content /\ visible' = visible /\ dirty' = dirty /\ size' = size
      /\ cache' = cache /\ pending' = pending /\ queue' = queue /\ scrolling' = scrolling
      /\ rendering' = rendering /\ contexts' = contexts /\ gui' = gui /\ events' = events
      /\ worker' = worker /\ finished' = finished /\ locked' = locked
  BY DEF Main, model, view, requests
<1> DEFINE b == batch'
<1>2. /\ DOMAIN b = DOMAIN batch /\ b[i] = t /\ \A j \in DOMAIN batch : j # i => b[j] = batch[j]
      /\ b = [j \in DOMAIN batch |-> b[j]]
  OBVIOUS
<1>3. b \in Seq(Tasks) /\ Len(b) = Len(batch)
  <2>1. \A j \in DOMAIN batch : b[j] \in Tasks
    BY <1>2, TasksAre DEF PreviewInv
  <2> HIDE DEF b
  <2> QED
    BY <1>2, <2>1, BatchChanged DEF PreviewInv
<1>4. \A j \in DOMAIN batch : b[j].request = batch[j].request
  BY <1>2
<1>5. ViewTyped' /\ BatchTyped' /\ QueueTyped' /\ ContextsHold'
  BY <1>1, <1>3 DEF PreviewInv, ViewTyped, BatchTyped, QueueTyped, ContextsHold
<1>6. IsRunning /\ IsRunning'
  BY <1>1 DEF IsRunning
<1>7. Prepared'
  <2>1. ASSUME NEW j \in DOMAIN batch, SourceOfKey(b[j].request.key) \in Documents
        PROVE  LET d == SourceOfKey(b[j].request.key)
               IN  contexts[d] # 0 /\ d \in locked /\ (b[j].stage = "using" => contexts[d] = b[j].image)
    <3> DEFINE d == SourceOfKey(b[j].request.key)
    <3>1. d = SourceOfKey(batch[j].request.key) /\ d \in Documents
      BY <1>4, <2>1
    <3>2. contexts[d] # 0 /\ d \in locked /\ (batch[j].stage = "using" => contexts[d] = batch[j].image)
      BY <1>6, <3>1 DEF PreviewInv, Prepared
    <3>3. CASE j = i
      BY <1>2, <3>1, <3>2, <3>3
    <3>4. CASE j # i
      BY <1>2, <3>2, <3>4
    <3> QED
      BY <3>3, <3>4
  <2> QED
    BY <1>1, <1>2, <2>1 DEF Prepared
<1>8. Lifecycle'
  <2>1. worker' # "starting" /\ rendering'
    BY <1>1, <1>6 DEF PreviewInv, Lifecycle
  <2> QED
    BY <1>1, <1>6, <2>1 DEF PreviewInv, Lifecycle
<1>9. ResultKeys' = ResultKeys
  BY <1>2, <1>4 DEF ResultKeys
<1>10. QueuePrepared' /\ Requested'
  BY <1>1, <1>9 DEF PreviewInv, QueuePrepared, Requested, KeysOf
<1> QED
  BY <1>5, <1>7, <1>8, <1>10 DEF PreviewInv

\* The context is looked up, and found if it is that of a document.
LEMMA LookUpKeeps == ASSUME PreviewInv, NEW i \in DOMAIN batch, LookUp(i) PROVE PreviewInv'
<1> DEFINE source == SourceOfKey(batch[i].request.key)
           version == IF source \in Documents THEN contexts[source] ELSE batch[i].request.image
           t == [batch[i] EXCEPT !.stage = IF version = 0 THEN "done" ELSE "using", !.image = version]
<1>1. /\ worker = "rendering" /\ UNCHANGED <<Main, worker, finished, locked>>
      /\ batch' = [batch EXCEPT ![i].stage = IF version = 0 THEN "done" ELSE "using",
                                ![i].image = version]
  BY DEF LookUp
<1>2. batch' = [batch EXCEPT ![i] = t]
  BY <1>1
<1>3. batch[i] \in Tasks /\ batch[i].request.image \in {0} \cup Versions
  BY TasksAre DEF PreviewInv
<1>4. version \in {0} \cup Versions
  BY <1>3 DEF PreviewInv, ViewTyped
<1>5. t \in Tasks /\ t.request = batch[i].request /\ t.image = version
  <2> HIDE DEF version
  <2> QED
    BY <1>3, <1>4 DEF Tasks
<1>6. SourceOfKey(t.request.key) \in Documents => t.image = contexts[SourceOfKey(t.request.key)]
  BY <1>5
<1> HIDE DEF t
<1> QED
  BY <1>1, <1>2, <1>5, <1>6, TaskKeeps

\* A page is rendered, or cannot be.
LEMMA RenderKeeps == ASSUME PreviewInv, NEW i \in DOMAIN batch, Render(i) PROVE PreviewInv'
<1> DEFINE m == IF batch[i].request.key[1] \in Broken THEN 0 ELSE batch[i].image
           t == [batch[i] EXCEPT !.stage = "done", !.image = m]
<1>1. /\ worker = "rendering" /\ UNCHANGED <<Main, worker, finished, locked>>
      /\ batch' = [batch EXCEPT ![i].stage = "done",
                                ![i].image = IF batch[i].request.key[1] \in Broken THEN 0 ELSE @]
  BY DEF Render
<1>2. batch' = [batch EXCEPT ![i] = t]
  BY <1>1, TasksAre DEF PreviewInv, Tasks
<1>3. batch[i] \in Tasks /\ m \in {0} \cup Versions
  BY TasksAre DEF PreviewInv
<1>4. t \in Tasks /\ t.request = batch[i].request /\ t.stage = "done"
  <2> HIDE DEF m
  <2> QED
    BY <1>3 DEF Tasks
<1>5. t.stage # "using"
  BY <1>4
<1> HIDE DEF t
<1> QED
  BY <1>1, <1>2, <1>4, <1>5, TaskKeeps

\* The results of a batch, and the next one.
LEMMA FinishedKeeps == ASSUME PreviewInv, RenderFinished PROVE PreviewInv'
<1> DEFINE accepted == {i \in DOMAIN batch : Accepted(i)}
           new == {batch[i].request.key : i \in accepted}
           p == pending \ ResultKeys
<1>1. /\ gui = "free" /\ finished /\ dirty' = Positions /\ scrolling' = scrolling
      /\ StartNextRequest(queue, p, FALSE, batch, FALSE)
      /\ item' = item /\ content' = content /\ visible' = visible /\ size' = size
      /\ contexts' = contexts /\ locked' = locked /\ gui' = gui /\ events' = events
  BY DEF RenderFinished, model
<1>2. PICK evicted :
          cache' = [k \in Keys |->
                       IF k \in new
                       THEN batch[CHOOSE i \in accepted : batch[i].request.key = k].image
                       ELSE IF k \in evicted THEN 0 ELSE cache[k]]
  BY DEF RenderFinished
<1>3. cache' \in [Keys -> {0} \cup Versions]
  <2>1. \A i \in accepted : batch[i].image \in {0} \cup Versions
    BY TasksAre DEF PreviewInv
  <2>2. \A k \in new : (CHOOSE i \in accepted : batch[i].request.key = k) \in accepted
    OBVIOUS
  <2>3. cache \in [Keys -> {0} \cup Versions]
    BY DEF PreviewInv, ViewTyped
  <2> HIDE DEF accepted, new
  <2> QED
    BY <1>2, <2>1, <2>2, <2>3
<1>4. queue \in Seq(Requests) /\ p \in SUBSET Keys
  BY DEF PreviewInv, QueueTyped
<1>5. BatchTyped /\ Prepared /\ Lifecycle /\ gui' = "free" /\ SameTasks(batch)
      /\ batch \in Seq(Tasks) /\ Len(batch) <= MaxBatch
  BY <1>1 DEF PreviewInv, BatchTyped, SameTasks
<1>6. ~IsRunning
  BY <1>1, <1>5 DEF Lifecycle, IsRunning
<1>7. p \subseteq KeysOf(queue)
  BY <1>1 DEF PreviewInv, Requested
<1>8. \A k \in KeysOf(queue) : SourceOfKey(k) \in Documents => contexts'[SourceOfKey(k)] # 0
  BY <1>1 DEF PreviewInv, QueuePrepared
<1>9. \A d \in Documents : contexts[d] # 0 => contexts'[d] = contexts[d]
  BY <1>1
<1> HIDE DEF p
<1> DEFINE no == FALSE
           X == IF no THEN ResultKeys ELSE {}
<1>10. no \in BOOLEAN /\ (no => worker = "ended") /\ (IsRunning => no) /\ (no => IsRunning \/ no)
       /\ p \subseteq KeysOf(queue) \cup X /\ StartNextRequest(queue, p, no, batch, no)
  BY <1>1, <1>6, <1>7
<1> HIDE DEF no
<1>11. BatchTyped' /\ QueueTyped' /\ Prepared' /\ QueuePrepared' /\ Lifecycle' /\ Requested'
  BY <1>1, <1>4, <1>5, <1>8, <1>9, <1>10, StartKeeps
<1>12. ViewTyped' /\ ContextsHold'
  BY <1>1, <1>3 DEF PreviewInv, ViewTyped, ContextsHold
<1> QED
  BY <1>11, <1>12 DEF PreviewInv

\* At the start nothing is shown.
LEMMA PreviewInitially == PreviewInit => PreviewInv
<1> SUFFICES ASSUME PreviewInit PROVE PreviewInv
  OBVIOUS
<1>1. /\ content = [s \in PageSources |-> 0] /\ item = [r \in Positions |-> NoItem] /\ visible = Positions
      /\ dirty = Positions /\ cache = [k \in Keys |-> 0] /\ pending = {} /\ queue = <<>> /\ scrolling = TRUE
      /\ rendering = FALSE /\ contexts = [d \in Documents |-> 0] /\ batch = <<>> /\ worker = "idle"
      /\ finished = FALSE /\ locked = {} /\ gui = "free" /\ events = 0
  BY DEF PreviewInit
<1>2. size \in Sizes
  BY ConstantsAssumption DEF PreviewInit
<1>3. item \in Lists(content)
  BY <1>1 DEF Lists
<1>4. 0 \in 0 .. MaxEvents /\ Len(<< >>) <= MaxBatch
  <2>1. Len(<< >>) = 0
    BY EmptySeq
  <2> QED
    BY <2>1, ConstantsAssumption
<1>5. ViewTyped /\ BatchTyped /\ QueueTyped
  <2>1. content \in [PageSources -> {0} \cup Versions]
    BY <1>1
  <2>2. cache \in [Keys -> {0} \cup Versions]
    BY <1>1
  <2>3. contexts \in [Documents -> {0} \cup Versions]
    BY <1>1
  <2>4. ViewTyped
    BY <1>1, <1>2, <1>3, <1>4, <2>1, <2>2, <2>3, Zenon DEF ViewTyped
  <2>5. batch \in Seq(Tasks) /\ queue \in Seq(Requests)
    BY <1>1, EmptySeq
  <2>6. BatchTyped
    BY <1>1, <1>4, <2>5, Zenon DEF BatchTyped
  <2> QED
    BY <1>1, <2>4, <2>5, <2>6 DEF QueueTyped
<1>6. KeysOf(queue) = {} /\ DOMAIN batch = {}
  BY <1>1 DEF KeysOf
<1>7. ContextsHold /\ Prepared /\ QueuePrepared /\ Lifecycle /\ Requested
  BY <1>1, <1>6 DEF ContextsHold, Prepared, QueuePrepared, Lifecycle, Requested, IsRunning
<1> QED
  BY <1>5, <1>7 DEF PreviewInv

\* Every step keeps the invariant.
LEMMA PreviewStep == PreviewInv /\ [PreviewNext]_previewVars => PreviewInv'
<1> SUFFICES ASSUME PreviewInv, [PreviewNext]_previewVars PROVE PreviewInv'
  OBVIOUS
<1>1. CASE UNCHANGED previewVars
  <2>1. /\ UNCHANGED <<requests, rendering, contexts, future, locked, gui>>
        /\ item' = item /\ content' = content /\ visible' = visible /\ dirty' = dirty /\ size' = size
        /\ cache' = cache /\ scrolling' = scrolling /\ contexts' = contexts /\ locked' = locked
        /\ gui' = gui /\ events' = events
    BY <1>1 DEF previewVars, model, view
  <2>2. ViewTyped' /\ ContextsHold'
    BY <2>1 DEF PreviewInv, ViewTyped, ContextsHold
  <2> QED
    BY <2>1, <2>2, PreviewSame
<1>2. CASE PreviewNext
  BY <1>2, ScrollKeeps, FilterKeeps, ZoomKeeps, SettledKeeps, PaintKeeps, ItemChangedKeeps, InsertKeeps,
     WaitKeeps, ResetKeeps, DestroyKeeps, BeginsKeeps, EndsKeeps, LookUpKeeps, RenderKeeps, FinishedKeeps
     DEF PreviewNext
<1> QED
  BY <1>1, <1>2

\* For any list, number of threads and documents, it holds always.
LEMMA PreviewInvariance == PreviewSpec => []PreviewInv
<1> QED
  BY PreviewInitially, PreviewStep, PTL DEF PreviewSpec

\* A page is only rendered through a context that is still there, of the document
\* the model holds, with its fonts kept: the reset of the model and the destructor
\* wait for the batch, and painting makes the context before the request.
THEOREM ContextsLive == PreviewSpec => []LiveContext
<1>1. PreviewInv => LiveContext
  BY PreviewImplies
<1> QED
  BY <1>1, PreviewInvariance, PTL

\* A key that is pending is one of a request that is queued or in a batch whose
\* end is still to be handled, so that no thumbnail is given up for ever.
THEOREM PendingServed == PreviewSpec => []PendingIsServed
<1>1. PreviewInv => PendingIsServed
  BY PreviewImplies
<1> QED
  BY <1>1, PreviewInvariance, PTL

-----------------------------------------------------------------------------
(* The workspace: the pages taken out of rows, as extractItems goes. *)

\* f takes the pages out of the rows in the given order.
TakesOut(f, items, order, n, P) ==
    /\ f \in [0 .. n -> Seq(P)] /\ f[0] = <<>>
    /\ \A k \in 1 .. n : f[k] = items[order[k]] \o f[k - 1]

\* So does Extracted.
LEMMA ExtractedByStep ==
    ASSUME NEW P, NEW items \in Seq(Seq(P)), NEW rows, NEW n \in Nat, NEW order \in [1 .. n -> DOMAIN items],
           order = Descending(rows)
    PROVE  \E f : TakesOut(f, items, order, n, P) /\ Extracted(items, rows) = f[n]
<1> DEFINE o == order
           V == Seq(P)
           H == [k \in 1 .. n |-> [x \in V |-> items[o[k]] \o x]]
           Fits(u) == u = [s \in SUBSET DOMAIN o |->
                              IF s = {} THEN <<>> ELSE items[o[Max(s)]] \o u[s \ {Max(s)}]]
           w == CHOOSE u : Fits(u)
<1>1. Extracted(items, rows) = w[DOMAIN o]
  BY DEF Extracted, FoldLeft, MapThenFoldSet
<1>2. DOMAIN o = 1 .. n
  OBVIOUS
<1>3. \A k \in 1 .. n : items[o[k]] \in V
  BY ElementOfSeq, LenProperties
<1>4. H \in [1 .. n -> [V -> V]] /\ <<>> \in V
  <2>1. \A x, y \in V : x \o y \in V
    BY ConcatProperties
  <2> HIDE DEF V, o
  <2>2. \A k \in 1 .. n : [x \in V |-> items[o[k]] \o x] \in [V -> V]
    BY <1>3, <2>1
  <2>3. H \in [1 .. n -> [V -> V]]
    BY <2>2
  <2> QED
    BY <2>3, EmptySeq DEF V
<1> HIDE DEF V, o
<1>5. \A k \in 1 .. n : \A x \in V : H[k][x] = items[o[k]] \o x
  OBVIOUS
<1> HIDE DEF H
<1>6. PICK g : FoldOf(g, n, V, <<>>, H)
  BY <1>4, Folding
<1>7. \A s \in SUBSET (1 .. n) : s # {} => Max(s) \in 1 .. n /\ s \ {Max(s)} \in SUBSET (1 .. n)
  BY LargestOne
<1>8. Fits(g)
  <2>1. \A s \in SUBSET (1 .. n) : g[s] = IF s = {} THEN <<>> ELSE items[o[Max(s)]] \o g[s \ {Max(s)}]
    BY <1>5, <1>6, <1>7 DEF FoldOf
  <2> QED
    BY <1>2, <1>6, <2>1 DEF FoldOf
<1>9. w = CHOOSE u : Fits(u)
  OBVIOUS
<1>10. Fits(w)
  <2> HIDE DEF Fits, w
  <2> QED BY <1>8, <1>9
<1> HIDE DEF w
<1>11. FoldOf(w, n, V, <<>>, H)
  <2>1. w = [s \in SUBSET (1 .. n) |-> w[s]] /\ w[{}] = <<>>
    BY <1>2, <1>10
  <2>2. ASSUME NEW s \in SUBSET (1 .. n), s # {}, w[s \ {Max(s)}] \in V
        PROVE  w[s] = H[Max(s)][w[s \ {Max(s)}]]
    BY <1>2, <1>5, <1>7, <1>10, <2>2
  <2> HIDE DEF Fits
  <2>3. Accumulates(w, n, V, <<>>, H)
    BY <2>1, <2>2 DEF Accumulates
  <2> QED
    BY <1>4, <2>3, IsFold
<1>12. PICK f : Stepwise(w, f, n, V, <<>>, H)
  BY <1>4, <1>11, FoldSteps
<1>13. \A k \in 1 .. n : f[k] = items[o[k]] \o f[k - 1]
  <2>1. \A k \in 1 .. n : k - 1 \in 0 .. n
    OBVIOUS
  <2> QED
    BY <1>5, <1>12, <2>1 DEF Stepwise
<1>14. Extracted(items, rows) = f[n]
  BY <1>1, <1>2, <1>12 DEF Stepwise
<1> QED
  BY <1>12, <1>13, <1>14 DEF Stepwise, TakesOut, V, o

-----------------------------------------------------------------------------
(* The workspace: rows in their order, and what is at them. *)

\* Ascending lists the rows by rank.
LEMMA AscendingIs ==
    ASSUME NEW rows, rows \subseteq Nat, IsFiniteSet(rows)
    PROVE  /\ Cardinality(rows) \in Nat
           /\ Ascending(rows) \in [1 .. Cardinality(rows) -> rows]
           /\ \A k \in 1 .. Cardinality(rows) : Rank(rows, Ascending(rows)[k]) = k
           /\ \A r \in rows : Rank(rows, r) \in 1 .. Cardinality(rows) /\ Ascending(rows)[Rank(rows, r)] = r
           /\ \A k, l \in 1 .. Cardinality(rows) : k < l => Ascending(rows)[k] < Ascending(rows)[l]
<1> DEFINE n == Cardinality(rows)
           A == Ascending(rows)
<1>1. A = [k \in 1 .. n |-> CHOOSE r \in rows : Rank(rows, r) = k]
  BY DEF Ascending, Rank
<1>2. \A k \in 1 .. n : A[k] \in rows /\ Rank(rows, A[k]) = k
  BY <1>1, RankTaken
<1>3. n \in Nat /\ \A r \in rows : r \in Nat /\ Rank(rows, r) \in 1 .. n
  BY Ranks
<1>4. \A r, q \in rows : Rank(rows, r) = Rank(rows, q) => r = q
  <2> SUFFICES ASSUME NEW r \in rows, NEW q \in rows, Rank(rows, r) = Rank(rows, q), r # q PROVE FALSE
    OBVIOUS
  <2>1. r < q \/ q < r
    BY <1>3
  <2>2. Rank(rows, r) < Rank(rows, q) \/ Rank(rows, q) < Rank(rows, r)
    BY <2>1, Ranks
  <2>3. Rank(rows, r) \in Nat /\ Rank(rows, q) \in Nat
    BY <1>3
  <2> QED
    BY <2>2, <2>3
<1>5. A \in [1 .. n -> rows]
  BY <1>1, <1>2
<1> HIDE DEF A, n
<1>6. \A r \in rows : A[Rank(rows, r)] = r
  BY <1>2, <1>3, <1>4
<1>7. ASSUME NEW k \in 1 .. n, NEW l \in 1 .. n, k < l PROVE A[k] < A[l]
  <2>1. A[k] \in rows /\ A[l] \in rows /\ Rank(rows, A[k]) = k /\ Rank(rows, A[l]) = l
    BY <1>2
  <2>2. A[k] \in Nat /\ A[l] \in Nat
    BY <1>3, <2>1
  <2> SUFFICES ASSUME ~(A[k] < A[l]) PROVE FALSE
    OBVIOUS
  <2>3. A[l] < A[k] \/ A[l] = A[k]
    BY <2>2
  <2>4. l < k \/ l = k
    BY <2>1, <2>3, Ranks
  <2> QED
    BY <1>3, <1>7, <2>4
<1> QED
  BY <1>2, <1>3, <1>5, <1>6, <1>7 DEF n, A

\* The elements at some rows are elements, one for each row.
LEMMA AtIs ==
    ASSUME NEW R, NEW s \in Seq(R), NEW rows \in SUBSET DOMAIN s
    PROVE  /\ IsFiniteSet(rows) /\ rows \subseteq Nat /\ Cardinality(rows) \in Nat
           /\ At(s, rows) \in Seq(R) /\ Len(At(s, rows)) = Cardinality(rows)
           /\ Ascending(rows) \in [1 .. Cardinality(rows) -> rows]
           /\ \A k \in 1 .. Cardinality(rows) : At(s, rows)[k] = s[Ascending(rows)[k]]
           /\ rows # {} => At(s, rows) # <<>>
<1>1. Len(s) \in Nat /\ DOMAIN s = 1 .. Len(s) /\ \A i \in 1 .. Len(s) : s[i] \in R
  BY LenProperties, ElementOfSeq
<1>2. IsFiniteSet(rows) /\ rows \subseteq Nat
  <2>1. IsFiniteSet(1 .. Len(s))
    BY <1>1, FS_Interval
  <2> QED
    BY <1>1, <2>1, FS_Subset
<1> DEFINE n == Cardinality(rows)
           A == Ascending(rows)
<1>3. n \in Nat /\ A \in [1 .. n -> rows]
  BY <1>2, AscendingIs
<1>4. At(s, rows) = [k \in 1 .. n |-> s[A[k]]]
  <2>1. DOMAIN A = 1 .. n
    BY <1>3
  <2> QED
    BY <2>1 DEF At
<1> HIDE DEF n, A
<1>5. \A k \in 1 .. n : s[A[k]] \in R
  BY <1>1, <1>3
<1>6. [k \in 1 .. n |-> s[A[k]]] \in Seq(R) /\ Len([k \in 1 .. n |-> s[A[k]]]) = n
  BY <1>3, <1>5
<1>7. rows # {} => At(s, rows) # <<>>
  <2>1. rows # {} => n # 0
    BY <1>2, FS_EmptySet DEF n
  <2>2. Len(<<>>) = 0
    BY EmptySeq
  <2> QED
    BY <1>4, <1>6, <2>1, <2>2
<1> QED
  BY <1>2, <1>3, <1>4, <1>6, <1>7 DEF n, A

\* Splicing in elements gives elements.
LEMMA SpliceIs ==
    ASSUME NEW R, NEW items \in Seq(R), NEW before \in 0 .. Len(items), NEW new \in Seq(R)
    PROVE  /\ Splice(items, before, new) \in Seq(R)
           /\ Len(Splice(items, before, new)) = Len(items) + Len(new)
<1> DEFINE a == SubSeq(items, 1, before)
           b == SubSeq(items, before + 1, Len(items))
<1>1. Len(items) \in Nat /\ Len(new) \in Nat /\ before \in Nat /\ before <= Len(items)
  BY LenProperties
<1>2. a \in Seq(R) /\ Len(a) = before
  <2>1. \A i \in 1 .. before : items[i] \in R
    BY <1>1, ElementOfSeq
  <2>2. 1 \in Int /\ before \in Int
    BY <1>1
  <2>3. a \in Seq(R) /\ Len(a) = IF 1 <= before THEN before - 1 + 1 ELSE 0
    BY <2>1, <2>2, SubSeqProperties
  <2> QED
    BY <1>1, <2>3
<1>3. b \in Seq(R) /\ Len(b) = Len(items) - before
  <2>1. \A i \in before + 1 .. Len(items) : items[i] \in R
    BY <1>1, ElementOfSeq
  <2>2. before + 1 \in Int /\ Len(items) \in Int
    BY <1>1
  <2>3. b \in Seq(R) /\ Len(b) = IF before + 1 <= Len(items) THEN Len(items) - (before + 1) + 1 ELSE 0
    BY <2>1, <2>2, SubSeqProperties
  <2> QED
    BY <1>1, <2>3
<1>4. Splice(items, before, new) = (a \o new) \o b
  BY DEF Splice
<1> HIDE DEF a, b
<1>5. a \o new \in Seq(R) /\ Len(a \o new) = before + Len(new)
  BY <1>2, ConcatProperties
<1>6. (a \o new) \o b \in Seq(R) /\ Len((a \o new) \o b) = Len(a \o new) + Len(b)
  BY <1>3, <1>5, ConcatProperties
<1> QED
  BY <1>1, <1>3, <1>4, <1>5, <1>6

\* F flattens x element by element.
Flattens(F, x, P) ==
    /\ F \in [0 .. Len(x) -> Seq(P)]
    /\ F[0] = <<>>
    /\ \A k \in 1 .. Len(x) : F[k] = F[k - 1] \o x[k]

\* FlattenSeq does so,
LEMMA FlattenByStep ==
    ASSUME NEW P, NEW x \in Seq(Seq(P))
    PROVE  \E F : Flattens(F, x, P) /\ FlattenSeq(x) = F[Len(x)]
<1> DEFINE n == Len(x)
           V == Seq(P)
           H == [k \in Nat |-> [s \in V |-> IF k + 1 \in 1 .. n THEN s \o x[k + 1] ELSE s]]
<1>1. n \in Nat /\ \A k \in 1 .. n : x[k] \in V
  BY LenProperties, ElementOfSeq
<1>2. H \in [Nat -> [V -> V]] /\ <<>> \in V
  <2>1. \A s, t \in V : s \o t \in V
    BY ConcatProperties
  <2>2. <<>> \in V
    BY EmptySeq
  <2> HIDE DEF V, n
  <2>3. ASSUME NEW k \in Nat, NEW s \in V PROVE (IF k + 1 \in 1 .. n THEN s \o x[k + 1] ELSE s) \in V
    BY <1>1, <2>1
  <2> QED
    BY <2>2, <2>3
<1>3. PICK G \in [Nat -> V] : Computes(G, <<>>, H)
  <2> HIDE DEF V, H, n
  <2> QED BY <1>2, Recursion
<1> HIDE DEF n
<1>4. \A k \in 1 .. n : G[k] = G[k - 1] \o x[k]
  <2> SUFFICES ASSUME NEW k \in 1 .. n PROVE G[k] = G[k - 1] \o x[k]
    OBVIOUS
  <2>1. k - 1 \in Nat /\ (k - 1) + 1 = k
    BY <1>1
  <2>2. G[(k - 1) + 1] = H[k - 1][G[k - 1]]
    BY <1>3, <2>1 DEF Computes
  <2>3. G[k - 1] \in V
    BY <1>3, <2>1
  <2> HIDE DEF V
  <2>4. H[k - 1][G[k - 1]] = IF (k - 1) + 1 \in 1 .. n THEN G[k - 1] \o x[(k - 1) + 1] ELSE G[k - 1]
    BY <2>1, <2>3
  <2> QED
    BY <2>1, <2>2, <2>4
<1> DEFINE F == [k \in 0 .. n |-> G[k]]
<1>5. Flattens(F, x, P)
  <2>1. \A k \in 0 .. n : G[k] \in V
    BY <1>1, <1>3
  <2>2. F \in [0 .. n -> Seq(P)] /\ \A k \in 0 .. n : F[k] = G[k]
    BY <2>1
  <2>3. 0 \in 0 .. n /\ \A k \in 1 .. n : k \in 0 .. n /\ k - 1 \in 0 .. n
    BY <1>1
  <2>4. G[0] = <<>>
    BY <1>3 DEF Computes
  <2> HIDE DEF F
  <2> QED
    BY <1>4, <2>2, <2>3, <2>4 DEF Flattens, n
<1>6. FlattenSeq(x) = G[n]
  <2>1. CASE n = 0
    <3>1. FlattenSeq(x) = x
      BY <2>1 DEF FlattenSeq, n
    <3>2. x = <<>>
      BY <2>1, EmptySeq DEF n
    <3> QED
      BY <1>3, <2>1, <3>1, <3>2 DEF Computes
  <2>2. CASE n # 0
    <3> DEFINE Fits(u) == u = [i \in 1 .. n |-> IF i = 1 THEN x[i] ELSE u[i - 1] \o x[i]]
               w == CHOOSE u : Fits(u)
               g == [i \in 1 .. n |-> G[i]]
    <3>1. FlattenSeq(x) = w[n]
      BY <2>2 DEF FlattenSeq, n
    <3>2. G[1] = x[1]
      <4>1. 1 \in 1 .. n /\ 1 - 1 = 0
        BY <1>1, <2>2
      <4>2. G[1] = G[0] \o x[1] /\ x[1] \in Seq(P)
        BY <1>1, <1>4, <4>1
      <4>3. G[0] = <<>>
        BY <1>3 DEF Computes
      <4> QED
        BY <4>2, <4>3, ConcatEmptySeq
    <3>3. ASSUME NEW i \in 1 .. n, i # 1 PROVE i - 1 \in 1 .. n
      BY <1>1, <3>3
    <3>4. Fits(g)
      <4>1. \A i \in 1 .. n : g[i] = IF i = 1 THEN x[i] ELSE g[i - 1] \o x[i]
        BY <1>4, <3>2, <3>3
      <4> QED
        BY <4>1
    <3>5. w = CHOOSE u : Fits(u)
      OBVIOUS
    <3>6. Fits(w)
      <4> HIDE DEF Fits, w, g
      <4> QED BY <3>4, <3>5
    <3> HIDE DEF w
    <3>7. \A i \in 1 .. n : w[i] = IF i = 1 THEN x[i] ELSE w[i - 1] \o x[i]
      BY <3>6
    <3> HIDE DEF g, Fits
    <3> DEFINE S == {i \in Nat : i + 1 <= n => w[i + 1] = G[i + 1]}
    <3>8. 0 \in S
      <4>1. 1 \in 1 .. n
        BY <1>1, <2>2
      <4> QED
        BY <3>2, <3>7, <4>1
    <3>9. ASSUME NEW i \in Nat, i \in S PROVE i + 1 \in S
      <4> SUFFICES ASSUME (i + 1) + 1 <= n PROVE w[(i + 1) + 1] = G[(i + 1) + 1]
        OBVIOUS
      <4>1. (i + 1) + 1 \in 1 .. n /\ (i + 1) + 1 # 1 /\ ((i + 1) + 1) - 1 = i + 1 /\ i + 1 <= n
        BY <1>1
      <4>2. w[i + 1] = G[i + 1]
        BY <3>9, <4>1
      <4>3. w[(i + 1) + 1] = w[((i + 1) + 1) - 1] \o x[(i + 1) + 1]
        BY <3>7, <4>1
      <4>4. G[(i + 1) + 1] = G[((i + 1) + 1) - 1] \o x[(i + 1) + 1]
        BY <1>4, <4>1
      <4> QED
        BY <4>1, <4>2, <4>3, <4>4
    <3>10. S = Nat
      <4>1. S \subseteq Nat
        OBVIOUS
      <4> HIDE DEF S
      <4> QED BY <3>8, <3>9, <4>1, SetInduction
    <3>11. n - 1 \in Nat /\ (n - 1) + 1 = n
      BY <1>1, <2>2
    <3>12. w[n] = G[n]
      <4>1. n - 1 \in S
        BY <3>10, <3>11
      <4>2. (n - 1) + 1 <= n => w[(n - 1) + 1] = G[(n - 1) + 1]
        BY <4>1
      <4> QED
        BY <1>1, <3>11, <4>2
    <3> QED
      BY <3>1, <3>12
  <2> QED
    BY <2>1, <2>2
<1>7. F[n] = G[n]
  BY <1>1
<1> QED
  BY <1>5, <1>6, <1>7 DEF n

\* x and y have the same first n elements.
SameUpTo(x, y, n) ==
    /\ n <= Len(x) /\ n <= Len(y) /\ Len(x) \in Nat /\ Len(y) \in Nat
    /\ \A i \in 1 .. n : x[i] = y[i]

\* What is flattened so far depends on the elements so far.
LEMMA FlattensSame ==
    ASSUME NEW P, NEW x, NEW y, NEW F, NEW G, Flattens(F, x, P), Flattens(G, y, P),
           NEW n \in Nat, SameUpTo(x, y, n)
    PROVE  F[n] = G[n]
<1> USE DEF SameUpTo
<1> DEFINE S == {k \in Nat : k <= n => F[k] = G[k]}
<1>1. 0 \in S
  BY DEF Flattens
<1>2. ASSUME NEW k \in Nat, k \in S PROVE k + 1 \in S
  <2> SUFFICES ASSUME k + 1 <= n PROVE F[k + 1] = G[k + 1]
    OBVIOUS
  <2>1. k + 1 \in 1 .. n /\ k + 1 \in 1 .. Len(x) /\ k + 1 \in 1 .. Len(y) /\ (k + 1) - 1 = k /\ k <= n
    OBVIOUS
  <2>2. F[k + 1] = F[(k + 1) - 1] \o x[k + 1] /\ G[k + 1] = G[(k + 1) - 1] \o y[k + 1]
    BY <2>1 DEF Flattens
  <2>3. x[k + 1] = y[k + 1] /\ F[k] = G[k]
    BY <1>2, <2>1
  <2> QED
    BY <2>1, <2>2, <2>3
<1>3. S = Nat
  <2>1. S \subseteq Nat
    OBVIOUS
  <2> HIDE DEF S
  <2> QED BY <1>1, <1>2, <2>1, SetInduction
<1> QED
  BY <1>3

\* Flattened are the pages of the elements, and none is lost.
LEMMA FlattenIs ==
    ASSUME NEW P, NEW x \in Seq(Seq(P))
    PROVE  /\ FlattenSeq(x) \in Seq(P)
           /\ \A i \in 1 .. Len(x) : \A k \in 1 .. Len(x[i]) : x[i][k] \in ToSet(FlattenSeq(x))
           /\ \A i \in 1 .. Len(x) : x[i] # <<>> => FlattenSeq(x) # <<>>
<1> DEFINE n == Len(x)
<1>1. n \in Nat /\ \A k \in 1 .. n : x[k] \in Seq(P)
  BY LenProperties, ElementOfSeq
<1>2. PICK F : Flattens(F, x, P) /\ FlattenSeq(x) = F[n]
  BY FlattenByStep
<1> HIDE DEF n
<1>3. F \in [0 .. n -> Seq(P)] /\ \A k \in 1 .. n : F[k] = F[k - 1] \o x[k]
  BY <1>2 DEF Flattens, n
<1> DEFINE S == {k \in Nat : k <= n => \A i \in 1 .. k : \A l \in 1 .. Len(x[i]) :
                                            \E j \in 1 .. Len(F[k]) : F[k][j] = x[i][l]}
<1>4. 0 \in S
  OBVIOUS
<1>5. ASSUME NEW k \in Nat, k \in S PROVE k + 1 \in S
  <2> SUFFICES ASSUME k + 1 <= n, NEW i \in 1 .. k + 1, NEW l \in 1 .. Len(x[i])
               PROVE  \E j \in 1 .. Len(F[k + 1]) : F[k + 1][j] = x[i][l]
    OBVIOUS
  <2>1. k + 1 \in 1 .. n /\ k \in 0 .. n /\ (k + 1) - 1 = k /\ k <= n
    BY <1>1
  <2> DEFINE a == F[k]
             b == x[k + 1]
             c == F[k + 1]
  <2>2. c = a \o b /\ a \in Seq(P) /\ b \in Seq(P)
    <3>1. F[k + 1] = F[(k + 1) - 1] \o x[k + 1]
      BY <1>3, <2>1
    <3> QED
      BY <1>1, <1>3, <2>1, <3>1
  <2>3. /\ Len(c) = Len(a) + Len(b) /\ Len(a) \in Nat /\ Len(b) \in Nat
        /\ \A j \in 1 .. Len(a) + Len(b) : c[j] = IF j <= Len(a) THEN a[j] ELSE b[j - Len(a)]
    <3> HIDE DEF a, b, c
    <3> QED BY <2>2, ConcatProperties, LenProperties
  <2>4. CASE i <= k
    <3>1. i \in 1 .. k
      BY <2>4
    <3>2. PICK j \in 1 .. Len(a) : a[j] = x[i][l]
      BY <1>5, <2>1, <3>1
    <3> HIDE DEF a, b, c
    <3>3. j \in 1 .. Len(a) + Len(b) /\ j <= Len(a) /\ j \in 1 .. Len(c)
      BY <2>3
    <3>4. c[j] = x[i][l]
      BY <2>3, <3>2, <3>3
    <3> QED
      BY <3>3, <3>4 DEF c
  <2>5. CASE ~(i <= k)
    <3>1. i = k + 1
      BY <2>5
    <3>2. l \in 1 .. Len(b)
      BY <3>1
    <3>3. x[i][l] = b[l]
      BY <3>1
    <3> HIDE DEF a, b, c
    <3> DEFINE j == Len(a) + l
    <3>4. j \in 1 .. Len(a) + Len(b) /\ ~(j <= Len(a)) /\ j - Len(a) = l /\ j \in 1 .. Len(c)
      BY <2>3, <3>2
    <3>5. c[j] = b[l]
      <4> HIDE DEF j
      <4> QED BY <2>3, <3>4
    <3> QED
      BY <3>3, <3>4, <3>5 DEF c
  <2> QED
    BY <2>4, <2>5
<1>6. S = Nat
  <2>1. S \subseteq Nat
    OBVIOUS
  <2> HIDE DEF S
  <2> QED BY <1>4, <1>5, <2>1, SetInduction
<1>7. \A i \in 1 .. n : \A l \in 1 .. Len(x[i]) : \E j \in 1 .. Len(F[n]) : F[n][j] = x[i][l]
  <2>1. n \in S
    BY <1>1, <1>6
  <2> QED
    BY <1>1, <2>1
<1> HIDE DEF S
<1>8. F[n] \in Seq(P) /\ DOMAIN F[n] = 1 .. Len(F[n])
  <2>1. n \in 0 .. n
    BY <1>1
  <2>2. F[n] \in Seq(P)
    BY <1>3, <2>1
  <2> QED
    BY <2>2, LenProperties
<1>9. \A i \in 1 .. n : \A l \in 1 .. Len(x[i]) : x[i][l] \in ToSet(F[n])
  BY <1>7, <1>8 DEF ToSet
<1>10. ASSUME NEW i \in 1 .. n, x[i] # <<>> PROVE F[n] # <<>>
  <2>1. Len(x[i]) \in Nat \ {0}
    BY <1>1, <1>10, EmptySeq
  <2>2. 1 \in 1 .. Len(x[i])
    BY <2>1
  <2>3. PICK j \in 1 .. Len(F[n]) : TRUE
    BY <1>7, <2>2
  <2>4. Len(<<>>) = 0
    BY EmptySeq
  <2>5. Len(F[n]) # 0
    BY <2>3
  <2> QED
    BY <2>4, <2>5
<1> QED
  BY <1>2, <1>8, <1>9, <1>10 DEF n

\* Flattening the one and then the other.
LEMMA FlattenConcat ==
    ASSUME NEW P, NEW x \in Seq(Seq(P)), NEW y \in Seq(Seq(P))
    PROVE  FlattenSeq(x \o y) = FlattenSeq(x) \o FlattenSeq(y)
<1> DEFINE n == Len(x)
           m == Len(y)
           z == x \o y
<1>1. n \in Nat /\ m \in Nat
  BY LenProperties
<1>2. /\ z \in Seq(Seq(P)) /\ Len(z) = n + m
      /\ \A i \in 1 .. n + m : z[i] = IF i <= n THEN x[i] ELSE y[i - n]
  BY ConcatProperties
<1>3. PICK F : Flattens(F, x, P) /\ FlattenSeq(x) = F[n]
  BY FlattenByStep
<1>4. PICK G : Flattens(G, y, P) /\ FlattenSeq(y) = G[m]
  BY FlattenByStep
<1>5. PICK K : Flattens(K, z, P) /\ FlattenSeq(z) = K[Len(z)]
  <2> HIDE DEF z
  <2> QED BY <1>2, FlattenByStep
<1> HIDE DEF z, n, m
<1>6. /\ F \in [0 .. n -> Seq(P)] /\ G \in [0 .. m -> Seq(P)] /\ G[0] = <<>>
      /\ \A k \in 1 .. m : G[k] = G[k - 1] \o y[k]
      /\ \A k \in 1 .. n + m : K[k] = K[k - 1] \o z[k]
  BY <1>2, <1>3, <1>4, <1>5 DEF Flattens, n, m
<1>7. K[n] = F[n]
  <2>1. n <= n /\ n <= n + m /\ n + m \in Nat /\ \A i \in 1 .. n : i \in 1 .. n + m /\ i <= n
    BY <1>1
  <2>2. \A i \in 1 .. n : z[i] = x[i]
    BY <1>2, <2>1
  <2>3. Len(x) = n
    BY DEF n
  <2>4. n <= Len(x) /\ n <= Len(z) /\ Len(x) \in Nat /\ Len(z) \in Nat
    BY <1>1, <1>2, <2>1, <2>3
  <2>5. SameUpTo(z, x, n)
    BY <2>2, <2>4 DEF SameUpTo
  <2>6. K[n] = F[n]
    BY <1>1, <1>3, <1>5, <2>5, FlattensSame
  <2> QED
    BY <2>6
<1>8. F[n] \in Seq(P) /\ \A k \in 0 .. m : G[k] \in Seq(P)
  <2>1. n \in 0 .. n
    BY <1>1
  <2> QED
    BY <1>6, <2>1
<1>9. \A k \in 1 .. m : y[k] \in Seq(P)
  BY ElementOfSeq DEF m
<1> DEFINE Joined(k) == K[n + k] = F[n] \o G[k]
           S == {k \in Nat : k <= m => Joined(k)}
<1>10. 0 \in S
  <2>1. n + 0 = n
    BY <1>1
  <2>2. F[n] \o <<>> = F[n]
    BY <1>8, ConcatEmptySeq
  <2>3. Joined(0)
    BY <1>6, <1>7, <2>1, <2>2
  <2> HIDE DEF Joined
  <2> QED
    BY <2>3
<1>11. ASSUME NEW k \in Nat, k \in S PROVE k + 1 \in S
  <2> HIDE DEF Joined
  <2> SUFFICES ASSUME k + 1 <= m PROVE Joined(k + 1)
    OBVIOUS
  <2>1. /\ k + 1 \in 1 .. m /\ (k + 1) - 1 = k /\ k \in 0 .. m /\ k <= m
        /\ n + (k + 1) \in 1 .. n + m /\ (n + (k + 1)) - 1 = n + k
        /\ ~(n + (k + 1) <= n) /\ (n + (k + 1)) - n = k + 1
    BY <1>1
  <2>2. z[n + (k + 1)] = y[k + 1]
    BY <1>2, <2>1
  <2>3. K[n + (k + 1)] = K[n + k] \o y[k + 1]
    BY <1>6, <2>1, <2>2
  <2>4. G[k + 1] = G[k] \o y[k + 1]
    BY <1>6, <2>1
  <2>5. K[n + k] = F[n] \o G[k]
    <3>1. Joined(k)
      BY <1>11, <2>1
    <3> QED
      BY <3>1 DEF Joined
  <2>6. F[n] \in Seq(P) /\ G[k] \in Seq(P) /\ y[k + 1] \in Seq(P)
    BY <1>8, <1>9, <2>1
  <2>7. (F[n] \o G[k]) \o y[k + 1] = F[n] \o (G[k] \o y[k + 1])
    <3> DEFINE a == F[n]
               b == G[k]
               c == y[k + 1]
    <3>1. a \in Seq(P) /\ b \in Seq(P) /\ c \in Seq(P)
      BY <2>6
    <3> HIDE DEF a, b, c
    <3>2. (a \o b) \o c = a \o (b \o c)
      BY <3>1, ConcatAssociative
    <3> QED
      BY <3>2 DEF a, b, c
  <2> QED
    BY <2>3, <2>4, <2>5, <2>7 DEF Joined
<1>12. S = Nat
  <2>1. S \subseteq Nat
    OBVIOUS
  <2> HIDE DEF S
  <2> QED BY <1>10, <1>11, <2>1, SetInduction
<1>13. K[n + m] = F[n] \o G[m]
  <2>0. m \in S /\ m <= m
    <3> HIDE DEF S
    <3> QED BY <1>1, <1>12
  <2>1. Joined(m)
    <3> HIDE DEF Joined
    <3> QED BY <2>0
  <2> QED
    BY <2>1 DEF Joined
<1> QED
  BY <1>2, <1>3, <1>4, <1>5, <1>13 DEF z

\* The pages of one more element come last.
LEMMA FlattenAppend ==
    ASSUME NEW P, NEW x \in Seq(Seq(P)), NEW y \in Seq(P)
    PROVE  /\ FlattenSeq(<<>>) = <<>> /\ FlattenSeq(<<y>>) = y
           /\ Append(x, y) \in Seq(Seq(P)) /\ FlattenSeq(Append(x, y)) = FlattenSeq(x) \o y
<1>1. FlattenSeq(<<>>) = <<>>
  <2>1. Len(<<>>) = 0
    BY EmptySeq
  <2> QED
    BY <2>1 DEF FlattenSeq
<1>2. <<y>> \in Seq(Seq(P)) /\ Len(<<y>>) = 1 /\ <<y>>[1] = y
  OBVIOUS
<1>3. FlattenSeq(<<y>>) = y
  <2> DEFINE z == <<y>>
  <2>0. z \in Seq(Seq(P)) /\ Len(z) = 1 /\ z[1] = y
    BY <1>2
  <2> HIDE DEF z
  <2>1. PICK F : Flattens(F, z, P) /\ FlattenSeq(z) = F[Len(z)]
    BY <2>0, FlattenByStep
  <2>2. F[1] = F[0] \o y /\ F[0] = <<>>
    <3>1. 1 \in 1 .. Len(z) /\ 1 - 1 = 0
      BY <2>0
    <3> QED
      BY <2>0, <2>1, <3>1 DEF Flattens
  <2>3. F[1] = y
    BY <2>2, ConcatEmptySeq
  <2> QED
    BY <2>0, <2>1, <2>3 DEF z
<1>4. Append(x, y) = x \o <<y>> /\ Append(x, y) \in Seq(Seq(P))
  BY AppendIsConcat, AppendProperties
<1> QED
  BY <1>1, <1>2, <1>3, <1>4, FlattenConcat

-----------------------------------------------------------------------------
(* The workspace: pages divided into rows or documents, page by page. *)

\* There is one page more, in a row that is not empty.
Lengthens(new, rows, page, P) ==
    new \in Seq(RowsOf(P)) /\ new # <<>> /\ FlattenSeq(new) = FlattenSeq(rows) \o <<page>>

\* A page that opens a row and one that continues the last make one page more.
LEMMA OnePageMore ==
    ASSUME NEW P, NEW rows \in Seq(RowsOf(P)), NEW page \in P
    PROVE  /\ rows \in Seq(Seq(P))
           /\ Lengthens(Opened(rows, page), rows, page, P)
           /\ rows # <<>> => Lengthens(Continued(rows, page), rows, page, P)
<1> DEFINE R == RowsOf(P)
<1>1. RowsOf(P) \subseteq Seq(P)
  BY DEF RowsOf
<1>2. \A x \in Seq(R) : x \in Seq(Seq(P))
  BY <1>1, SeqMonotonic
<1>3. <<page>> \in R
  <2>1. <<page>> \in Seq(P) /\ Len(<<page>>) = 1
    OBVIOUS
  <2>2. Len(<<>>) = 0
    BY EmptySeq
  <2> QED
    BY <2>1, <2>2 DEF RowsOf
<1>4. Opened(rows, page) \in Seq(R) /\ Opened(rows, page) # <<>>
  <2> DEFINE one == <<page>>
  <2>1. one \in R
    BY <1>3
  <2> HIDE DEF one, R
  <2>2. rows \in Seq(R)
    BY DEF R
  <2>3. Append(rows, one) \in Seq(R) /\ Append(rows, one) # <<>>
    BY <2>1, <2>2, AppendProperties
  <2> QED
    BY <2>3 DEF Opened, one
<1>5. FlattenSeq(Opened(rows, page)) = FlattenSeq(rows) \o <<page>>
  <2>1. rows \in Seq(Seq(P)) /\ <<page>> \in Seq(P)
    BY <1>1, <1>2, <1>3
  <2> QED
    BY <2>1, FlattenAppend DEF Opened
<1>6. ASSUME rows # <<>>
      PROVE  /\ Continued(rows, page) \in Seq(R) /\ Continued(rows, page) # <<>>
             /\ FlattenSeq(Continued(rows, page)) = FlattenSeq(rows) \o <<page>>
  <2> DEFINE f == Front(rows)
             l == Last(rows)
             a == Append(l, page)
  <2>0. rows \in Seq(R)
    OBVIOUS
  <2>1. f \in Seq(R) /\ l \in R /\ Len(rows) \in Nat \ {0} /\ Len(f) = Len(rows) - 1
    <3> HIDE DEF R
    <3> QED BY <1>6, <2>0, FrontAndLast
  <2>2. rows = Append(f, l)
    <3> HIDE DEF R, a
    <3>0. /\ Last(rows) = rows[Len(rows)] /\ \A i \in 1 .. Len(rows) - 1 : Front(rows)[i] = rows[i]
      BY <1>6, <2>0, FrontAndLast
    <3> HIDE DEF f, l
    <3>1. /\ Append(f, l) \in Seq(R) /\ Len(Append(f, l)) = Len(f) + 1
          /\ \A i \in 1 .. Len(f) : Append(f, l)[i] = f[i]
          /\ Append(f, l)[Len(f) + 1] = l
      BY <2>1, AppendProperties
    <3>2. ASSUME NEW i \in 1 .. Len(rows) PROVE rows[i] = Append(f, l)[i]
      <4>1. i \in 1 .. Len(f) \/ i = Len(f) + 1
        BY <2>1
      <4>2. CASE i \in 1 .. Len(f)
        <5>1. f[i] = rows[i]
          BY <2>1, <3>0, <4>2 DEF f
        <5> QED
          BY <3>1, <4>2, <5>1
      <4>3. CASE i = Len(f) + 1
        <5>1. i = Len(rows)
          BY <2>1, <4>3
        <5> QED
          BY <3>0, <3>1, <4>3, <5>1 DEF l
      <4> QED
        BY <4>1, <4>2, <4>3
    <3>3. Len(rows) = Len(Append(f, l))
      BY <2>1, <3>1
    <3> QED
      BY <2>0, <3>1, <3>2, <3>3, SeqEqual
  <2>3. l \in Seq(P) /\ a \in Seq(P) /\ a # <<>> /\ a = l \o <<page>>
    <3>1. l \in Seq(P)
      BY <1>1, <2>1
    <3> HIDE DEF l
    <3> QED
      BY <3>1, AppendProperties, AppendIsConcat
  <2>4. a \in R
    BY <2>3 DEF RowsOf
  <2>5. Continued(rows, page) = Append(f, a)
    <3>1. Continued(rows, page) = f \o <<a>>
      BY DEF Continued
    <3> HIDE DEF f, a, R
    <3>2. Append(f, a) = f \o <<a>>
      BY <2>1, <2>4, AppendIsConcat
    <3> QED
      BY <3>1, <3>2
  <2> HIDE DEF f, l, a, R
  <2>6. Append(f, a) \in Seq(R) /\ Append(f, a) # <<>>
    BY <2>1, <2>4, AppendProperties
  <2>7. f \in Seq(Seq(P))
    BY <1>2, <2>1
  <2>8. FlattenSeq(Append(f, a)) = FlattenSeq(f) \o a /\ FlattenSeq(rows) = FlattenSeq(f) \o l
    BY <2>2, <2>3, <2>7, FlattenAppend
  <2>9. FlattenSeq(f) \in Seq(P) /\ <<page>> \in Seq(P)
    BY <2>7, FlattenIs
  <2>10. FlattenSeq(f) \o (l \o <<page>>) = (FlattenSeq(f) \o l) \o <<page>>
    <3> DEFINE b == FlattenSeq(f)
               c == <<page>>
    <3>1. b \in Seq(P) /\ c \in Seq(P)
      BY <2>9
    <3> HIDE DEF b, c
    <3>2. (b \o l) \o c = b \o (l \o c)
      BY <2>3, <3>1, ConcatAssociative
    <3> QED
      BY <3>2 DEF b, c
  <2> QED
    BY <2>3, <2>5, <2>6, <2>8, <2>10
<1>7. rows # <<>> => Lengthens(Continued(rows, page), rows, page, P)
  BY <1>6 DEF Lengthens
<1> QED
  BY <1>2, <1>4, <1>5, <1>7 DEF Lengthens

\* f takes the first n pages one after the other.
Grows(f, n, pages) ==
    /\ f[0] = <<>>
    /\ \A k \in 1 .. n : \/ f[k] = Opened(f[k - 1], pages[k])
                         \/ f[k - 1] # <<>> /\ f[k] = Continued(f[k - 1], pages[k])

\* However pages are divided so, they are those taken, in their order, and no row is
\* empty.
LEMMA GrownIs ==
    ASSUME NEW P, NEW pages \in Seq(P), NEW f, Grows(f, Len(pages), pages)
    PROVE  \A k \in 0 .. Len(pages) :
              /\ f[k] \in Seq(RowsOf(P)) /\ FlattenSeq(f[k]) = SubSeq(pages, 1, k)
              /\ k # 0 => f[k] # <<>>
<1> DEFINE n == Len(pages)
           Good(k) == /\ f[k] \in Seq(RowsOf(P)) /\ FlattenSeq(f[k]) = SubSeq(pages, 1, k)
                      /\ k # 0 => f[k] # <<>>
           S == {k \in Nat : k <= n => Good(k)}
<1>1. n \in Nat /\ \A k \in 1 .. n : pages[k] \in P
  BY LenProperties, ElementOfSeq
<1>2. Good(0)
  <2>1. SubSeq(pages, 1, 0) = <<>>
    BY SubSeqEmpty
  <2>2. f[0] = <<>>
    BY DEF Grows
  <2>3. FlattenSeq(<<>>) = <<>>
    <3>1. Len(<<>>) = 0
      BY EmptySeq
    <3> QED
      BY <3>1 DEF FlattenSeq
  <2> QED
    BY <2>1, <2>2, <2>3, EmptySeq
<1>3. ASSUME NEW k \in Nat, k \in S PROVE k + 1 \in S
  <2> HIDE DEF Good, n
  <2> SUFFICES ASSUME k + 1 <= n PROVE Good(k + 1)
    OBVIOUS
  <2>1. k + 1 \in 1 .. n /\ (k + 1) - 1 = k /\ k <= n /\ k + 1 # 0
    BY <1>1
  <2>2. Good(k)
    BY <1>3, <2>1
  <2> DEFINE x == f[k]
             page == pages[k + 1]
  <2>3. x \in Seq(RowsOf(P)) /\ page \in P /\ FlattenSeq(x) = SubSeq(pages, 1, k)
    BY <1>1, <2>1, <2>2 DEF Good
  <2>4. f[k + 1] = Opened(x, page) \/ (x # <<>> /\ f[k + 1] = Continued(x, page))
    BY <2>1 DEF Grows, n
  <2> HIDE DEF x, page
  <2>5. /\ f[k + 1] \in Seq(RowsOf(P)) /\ f[k + 1] # <<>>
        /\ FlattenSeq(f[k + 1]) = FlattenSeq(x) \o <<page>>
    <3>1. Lengthens(Opened(x, page), x, page, P) /\ (x # <<>> => Lengthens(Continued(x, page), x, page, P))
      BY <2>3, OnePageMore
    <3>2. Lengthens(f[k + 1], x, page, P)
      BY <2>4, <3>1
    <3> QED
      BY <3>2 DEF Lengthens
  <2>6. SubSeq(pages, 1, k + 1) = SubSeq(pages, 1, (k + 1) - 1) \o <<pages[k + 1]>>
    <3>1. 1 \in 1 .. Len(pages) /\ k + 1 \in 1 .. Len(pages)
      BY <1>1, <2>1 DEF n
    <3> QED
      BY <3>1, SubSeqRecursiveSecond
  <2>7. SubSeq(pages, 1, k + 1) = SubSeq(pages, 1, k) \o <<page>>
    BY <2>1, <2>6 DEF page
  <2> QED
    BY <2>3, <2>5, <2>7 DEF Good
<1>4. S = Nat
  <2> HIDE DEF Good, n
  <2>1. S \subseteq Nat
    OBVIOUS
  <2>2. 0 \in S
    BY <1>2
  <2> HIDE DEF S
  <2> QED BY <1>3, <2>1, <2>2, SetInduction
<1> HIDE DEF Good, n
<1>5. \A k \in 0 .. n : Good(k)
  BY <1>1, <1>4
<1> QED
  BY <1>5 DEF Good, n

\* w divides by C: a page opens a row if there is none, or C says so of its place
\* and what is divided before it.
Grown(w, n, pages, C, V) ==
    /\ w = [s \in SUBSET (1 .. n) |-> w[s]]
    /\ w[{}] = <<>>
    /\ \A s \in SUBSET (1 .. n) :
          s # {} /\ w[s \ {Max(s)}] \in V =>
             w[s] = LET before == w[s \ {Max(s)}]
                    IN  IF before = <<>> \/ <<Max(s), before>> \in C
                        THEN Opened(before, pages[Max(s)]) ELSE Continued(before, pages[Max(s)])

\* The steps of such a division.
GrowthSteps(n, pages, C, V) ==
    [k \in 1 .. n |-> [x \in V |-> IF x = <<>> \/ <<k, x>> \in C THEN Opened(x, pages[k])
                                                                 ELSE Continued(x, pages[k])]]

\* What they make of rows, one by one.
GrowthTyped(H, n, pages, C, V) ==
    /\ n \in Nat /\ <<>> \in V /\ H \in [1 .. n -> [V -> V]]
    /\ \A k \in 1 .. n : \A x \in V :
          H[k][x] = IF x = <<>> \/ <<k, x>> \in C THEN Opened(x, pages[k]) ELSE Continued(x, pages[k])

\* The steps make rows of rows.
LEMMA StepsAre ==
    ASSUME NEW P, NEW pages \in Seq(P), NEW C, NEW n, n = Len(pages), NEW V, V = Seq(RowsOf(P))
    PROVE  GrowthTyped(GrowthSteps(n, pages, C, V), n, pages, C, V)
<1>1. n \in Nat /\ \A k \in 1 .. n : pages[k] \in P
  BY LenProperties, ElementOfSeq
<1>2. <<>> \in V
  BY EmptySeq
<1>3. ASSUME NEW k \in 1 .. n, NEW x \in V
      PROVE  (IF x = <<>> \/ <<k, x>> \in C THEN Opened(x, pages[k]) ELSE Continued(x, pages[k])) \in V
  <2>1. pages[k] \in P
    BY <1>1
  <2> QED
    BY <2>1, OnePageMore DEF Lengthens
<1> QED
  BY <1>1, <1>2, <1>3 DEF GrowthSteps, GrowthTyped

\* There is such a division, and it makes rows.
LEMMA GrownExists ==
    ASSUME NEW P, NEW pages \in Seq(P), NEW C, NEW n, n = Len(pages), NEW V, V = Seq(RowsOf(P))
    PROVE  \E g : Grown(g, n, pages, C, V) /\ \A s \in SUBSET (1 .. n) : g[s] \in V
<1> DEFINE H == GrowthSteps(n, pages, C, V)
<1>0. GrowthTyped(H, n, pages, C, V)
  BY StepsAre
<1> HIDE DEF H
<1>1. n \in Nat /\ <<>> \in V /\ H \in [1 .. n -> [V -> V]]
  BY <1>0 DEF GrowthTyped
<1>2. \A k \in 1 .. n : \A x \in V :
         H[k][x] = IF x = <<>> \/ <<k, x>> \in C THEN Opened(x, pages[k]) ELSE Continued(x, pages[k])
  BY <1>0 DEF GrowthTyped
<1>3. PICK g : FoldOf(g, n, V, <<>>, H)
  BY <1>1, Folding
<1>4. \A s \in SUBSET (1 .. n) : s # {} => Max(s) \in 1 .. n
  BY <1>1, LargestOne
<1>5. g = [s \in SUBSET (1 .. n) |-> g[s]] /\ g[{}] = <<>> /\ \A s \in SUBSET (1 .. n) : g[s] \in V
  BY <1>3 DEF FoldOf
<1>6. ASSUME NEW s \in SUBSET (1 .. n), s # {}
      PROVE  g[s] = LET before == g[s \ {Max(s)}]
                    IN  IF before = <<>> \/ <<Max(s), before>> \in C
                        THEN Opened(before, pages[Max(s)]) ELSE Continued(before, pages[Max(s)])
  <2>1. g[s] = H[Max(s)][g[s \ {Max(s)}]]
    BY <1>3, <1>6 DEF FoldOf
  <2>2. g[s \ {Max(s)}] \in V /\ Max(s) \in 1 .. n
    BY <1>4, <1>5, <1>6
  <2> QED
    BY <1>2, <2>1, <2>2
<1>7. Grown(g, n, pages, C, V)
  BY <1>5, <1>6 DEF Grown
<1> QED
  BY <1>5, <1>7

\* Every such division takes the pages step by step.
LEMMA GrownByStep ==
    ASSUME NEW P, NEW pages \in Seq(P), NEW C, NEW n, n = Len(pages), NEW V, V = Seq(RowsOf(P)),
           NEW w, Grown(w, n, pages, C, V)
    PROVE  \E f : /\ Stepwise(w, f, n, V, <<>>, GrowthSteps(n, pages, C, V))
                  /\ Grows(f, n, pages)
<1> DEFINE H == GrowthSteps(n, pages, C, V)
<1>0. GrowthTyped(H, n, pages, C, V)
  BY StepsAre
<1> HIDE DEF H
<1>1. n \in Nat /\ <<>> \in V /\ H \in [1 .. n -> [V -> V]]
  BY <1>0 DEF GrowthTyped
<1>2. \A k \in 1 .. n : \A x \in V :
         H[k][x] = IF x = <<>> \/ <<k, x>> \in C THEN Opened(x, pages[k]) ELSE Continued(x, pages[k])
  BY <1>0 DEF GrowthTyped
<1>3. \A s \in SUBSET (1 .. n) : s # {} => Max(s) \in 1 .. n
  BY <1>1, LargestOne
<1>4. ASSUME NEW s \in SUBSET (1 .. n), s # {}, w[s \ {Max(s)}] \in V
      PROVE  w[s] = H[Max(s)][w[s \ {Max(s)}]]
  <2>1. Max(s) \in 1 .. n
    BY <1>3, <1>4
  <2>2. w[s] = LET before == w[s \ {Max(s)}]
               IN  IF before = <<>> \/ <<Max(s), before>> \in C
                   THEN Opened(before, pages[Max(s)]) ELSE Continued(before, pages[Max(s)])
    BY <1>4 DEF Grown
  <2> QED
    BY <1>2, <1>4, <2>1, <2>2
<1>5. Accumulates(w, n, V, <<>>, H)
  BY <1>4 DEF Grown, Accumulates
<1>6. FoldOf(w, n, V, <<>>, H)
  BY <1>1, <1>5, IsFold
<1>7. PICK f : Stepwise(w, f, n, V, <<>>, H)
  BY <1>1, <1>6, FoldSteps
<1>8. Grows(f, n, pages)
  <2>1. f[0] = <<>>
    BY <1>7 DEF Stepwise
  <2>2. ASSUME NEW k \in 1 .. n
        PROVE  \/ f[k] = Opened(f[k - 1], pages[k])
               \/ f[k - 1] # <<>> /\ f[k] = Continued(f[k - 1], pages[k])
    <3>1. k - 1 \in 0 .. n
      BY <1>1
    <3>2. f[k] = H[k][f[k - 1]] /\ f[k - 1] \in V
      BY <1>7, <3>1 DEF Stepwise
    <3> QED
      BY <1>2, <3>2
  <2> QED
    BY <2>1, <2>2 DEF Grows
<1> QED
  BY <1>7, <1>8 DEF H

\* The pages divided hold those there were in their order, in rows none of which is empty.
DividesInto(rows, pages, P) == rows \in Seq(RowsOf(P)) /\ FlattenSeq(rows) = pages

\* A division keeps the pages, whatever opens a row.
LEMMA GrownDivides ==
    ASSUME NEW P, NEW pages \in Seq(P), NEW C, NEW n, n = Len(pages), NEW V, V = Seq(RowsOf(P)),
           NEW w, Grown(w, n, pages, C, V)
    PROVE  DividesInto(w[1 .. n], pages, P)
<1>1. PICK f : /\ Stepwise(w, f, n, V, <<>>, GrowthSteps(n, pages, C, V))
               /\ Grows(f, n, pages)
  BY GrownByStep
<1>2. f[n] = w[1 .. n]
  BY <1>1 DEF Stepwise
<1>3. n \in Nat /\ n \in 0 .. Len(pages)
  BY LenProperties
<1>4. Grows(f, Len(pages), pages)
  BY <1>1
<1>5. f[n] \in Seq(RowsOf(P)) /\ FlattenSeq(f[n]) = SubSeq(pages, 1, n)
  BY <1>3, <1>4, GrownIs
<1>6. SubSeq(pages, 1, Len(pages)) = pages
  BY SubSeqFull
<1> QED
  BY <1>2, <1>5, <1>6 DEF DividesInto

\* So are the pages in Divided,
LEMMA DividedIs ==
    ASSUME NEW P, NEW pages \in Seq(P), NEW opening
    PROVE  DividesInto(Divided(pages, opening), pages, P)
<1> DEFINE n == Len(pages)
           V == Seq(RowsOf(P))
           C == {c \in (1 .. n) \X V : c[1] \in opening}
           places == [i \in DOMAIN pages |-> i]
           Fits(u) == u = [s \in SUBSET DOMAIN places |->
                              IF s = {} THEN <<>>
                              ELSE IF u[s \ {Max(s)}] = <<>> \/ places[Max(s)] \in opening
                                   THEN Opened(u[s \ {Max(s)}], pages[places[Max(s)]])
                                   ELSE Continued(u[s \ {Max(s)}], pages[places[Max(s)]])]
           w == CHOOSE u : Fits(u)
<1>1. Divided(pages, opening) = w[DOMAIN places]
  BY DEF Divided, FoldLeftDomain, FoldLeft, MapThenFoldSet
<1>2. n \in Nat /\ DOMAIN pages = 1 .. n /\ DOMAIN places = 1 .. n /\ \A k \in 1 .. n : places[k] = k
  BY LenProperties
<1>3. \A s \in SUBSET (1 .. n) : s # {} => Max(s) \in 1 .. n /\ s \ {Max(s)} \in SUBSET (1 .. n)
  BY <1>2, LargestOne
<1>4. \A k \in 1 .. n, x \in V : <<k, x>> \in C <=> k \in opening
  OBVIOUS
<1> HIDE DEF C, V, n, places
<1>5. PICK g : Grown(g, n, pages, C, V) /\ \A s \in SUBSET (1 .. n) : g[s] \in V
  BY GrownExists DEF n, V
<1>6. Fits(g)
  <2>1. ASSUME NEW s \in SUBSET (1 .. n), s # {}
        PROVE  g[s] = IF g[s \ {Max(s)}] = <<>> \/ places[Max(s)] \in opening
                      THEN Opened(g[s \ {Max(s)}], pages[places[Max(s)]])
                      ELSE Continued(g[s \ {Max(s)}], pages[places[Max(s)]])
    <3>1. g[s \ {Max(s)}] \in V /\ Max(s) \in 1 .. n
      BY <1>3, <1>5, <2>1
    <3>2. g[s] = LET before == g[s \ {Max(s)}]
                 IN  IF before = <<>> \/ <<Max(s), before>> \in C
                     THEN Opened(before, pages[Max(s)]) ELSE Continued(before, pages[Max(s)])
      BY <1>5, <2>1, <3>1 DEF Grown
    <3> QED
      BY <1>2, <1>4, <3>1, <3>2
  <2>2. g = [s \in SUBSET (1 .. n) |-> g[s]] /\ g[{}] = <<>>
    BY <1>5 DEF Grown
  <2> QED
    BY <1>2, <2>1, <2>2
<1>7. w = CHOOSE u : Fits(u)
  OBVIOUS
<1>8. Fits(w)
  <2> HIDE DEF Fits, w
  <2> QED BY <1>6, <1>7
<1> HIDE DEF w
<1>9. Grown(w, n, pages, C, V)
  <2>1. w = [s \in SUBSET (1 .. n) |-> w[s]] /\ w[{}] = <<>>
    BY <1>2, <1>8
  <2>2. ASSUME NEW s \in SUBSET (1 .. n), s # {}, w[s \ {Max(s)}] \in V
        PROVE  w[s] = LET before == w[s \ {Max(s)}]
                      IN  IF before = <<>> \/ <<Max(s), before>> \in C
                          THEN Opened(before, pages[Max(s)]) ELSE Continued(before, pages[Max(s)])
    <3>1. w[s] = IF w[s \ {Max(s)}] = <<>> \/ places[Max(s)] \in opening
                 THEN Opened(w[s \ {Max(s)}], pages[places[Max(s)]])
                 ELSE Continued(w[s \ {Max(s)}], pages[places[Max(s)]])
      BY <1>2, <1>8, <2>2
    <3>2. Max(s) \in 1 .. n
      BY <1>3, <2>2
    <3>3. places[Max(s)] = Max(s) /\ (<<Max(s), w[s \ {Max(s)}]>> \in C <=> Max(s) \in opening)
      BY <1>2, <1>4, <2>2, <3>2
    <3> HIDE <1>8
    <3> QED
      BY <3>1, <3>3
  <2> QED
    BY <2>1, <2>2 DEF Grown
<1> QED
  BY <1>1, <1>2, <1>9, GrownDivides DEF n, V

-----------------------------------------------------------------------------
(* The workspace: documents filled up to a size. *)

\* The weights of the documents: one beyond the maximum is a single page, and the first
\* page of the next would have been beyond it.
Filled(documents, weights, maximum) ==
    \A d \in 1 .. Len(documents) :
        /\ Weight(documents[d], weights) > maximum => Len(documents[d]) = 1
        /\ d > 1 => Weight(Append(documents[d - 1], documents[d][1]), weights) > maximum

\* A page that does not fit opens a document, and the one before is full.
LEMMA OpenedFilled ==
    ASSUME NEW P, NEW x \in Seq(RowsOf(P)), NEW page \in P, NEW weights, NEW maximum,
           Filled(x, weights, maximum),
           x = <<>> \/ Weight(Append(Last(x), page), weights) > maximum
    PROVE  Filled(Opened(x, page), weights, maximum)
<1> DEFINE R == RowsOf(P)
           one == <<page>>
           y == Append(x, one)
           n == Len(x)
<1>1. one \in R /\ Len(one) = 1 /\ one[1] = page
  <2>1. one \in Seq(P) /\ Len(one) = 1 /\ one[1] = page
    OBVIOUS
  <2>2. Len(<<>>) = 0
    BY EmptySeq
  <2> QED
    BY <2>1, <2>2 DEF RowsOf
<1>2. x \in Seq(R) /\ n \in Nat
  BY LenProperties
<1>3. Opened(x, page) = y
  BY DEF Opened
<1> HIDE DEF R, one
<1>4. Len(y) = n + 1 /\ y[n + 1] = one /\ \A i \in 1 .. n : y[i] = x[i]
  BY <1>1, <1>2, AppendProperties
<1> HIDE DEF y, n
<1>5. ASSUME NEW d \in 1 .. Len(y)
      PROVE  /\ Weight(y[d], weights) > maximum => Len(y[d]) = 1
             /\ d > 1 => Weight(Append(y[d - 1], y[d][1]), weights) > maximum
  <2>1. d \in Nat /\ (d \in 1 .. n \/ d = n + 1)
    BY <1>2, <1>4
  <2>2. CASE d \in 1 .. n
    <3>1. y[d] = x[d]
      BY <1>4, <2>2
    <3>2. /\ Weight(x[d], weights) > maximum => Len(x[d]) = 1
          /\ d > 1 => Weight(Append(x[d - 1], x[d][1]), weights) > maximum
      BY <2>2 DEF Filled, n
    <3>3. d > 1 => d - 1 \in 1 .. n
      BY <1>2, <2>2
    <3>4. d > 1 => y[d - 1] = x[d - 1]
      BY <1>4, <3>3
    <3> QED
      BY <3>1, <3>2, <3>4
  <2>3. CASE d = n + 1
    <3>1. y[d] = one /\ Len(y[d]) = 1 /\ y[d][1] = page
      BY <1>1, <1>4, <2>3
    <3>2. ASSUME d > 1 PROVE Weight(Append(y[d - 1], y[d][1]), weights) > maximum
      <4>1. d - 1 = n /\ n \in 1 .. n
        BY <1>2, <2>3, <3>2
      <4>2. x # <<>>
        BY <4>1, EmptySeq DEF n
      <4>3. y[d - 1] = Last(x)
        BY <1>4, <4>1 DEF Last, n
      <4> QED
        BY <3>1, <4>2, <4>3
    <3> QED
      BY <3>1, <3>2
  <2> QED
    BY <2>1, <2>2, <2>3
<1> QED
  BY <1>3, <1>5 DEF Filled

\* A page that fits is put into the last document.
LEMMA ContinuedFilled ==
    ASSUME NEW P, NEW x \in Seq(RowsOf(P)), NEW page \in P, NEW weights, NEW maximum,
           Filled(x, weights, maximum),
           x # <<>>, ~ (Weight(Append(Last(x), page), weights) > maximum)
    PROVE  Filled(Continued(x, page), weights, maximum)
<1> DEFINE R == RowsOf(P)
           n == Len(x)
           f == Front(x)
           l == Last(x)
           a == Append(l, page)
           y == Append(f, a)
<1>1. x \in Seq(R)
  OBVIOUS
<1>2. /\ n \in Nat \ {0} /\ f \in Seq(R) /\ Len(f) = n - 1
      /\ l \in R /\ l = x[n] /\ \A i \in 1 .. n - 1 : f[i] = x[i]
  <2> HIDE DEF R
  <2> QED
    BY <1>1, FrontAndLast
<1>3. l \in Seq(P) /\ Len(l) \in Nat \ {0}
  BY <1>2, EmptySeq DEF RowsOf
<1>4. a \in R /\ a[1] = l[1]
  <2>1. a \in Seq(P) /\ a # <<>> /\ \A i \in 1 .. Len(l) : a[i] = l[i]
    <3> HIDE DEF l
    <3> QED BY <1>3, AppendProperties
  <2>2. 1 \in 1 .. Len(l)
    BY <1>3
  <2> HIDE DEF a, l
  <2> QED
    BY <2>1, <2>2 DEF RowsOf
<1>5. Continued(x, page) = y
  <2>1. Continued(x, page) = f \o <<a>>
    BY DEF Continued
  <2> HIDE DEF f, a, R
  <2>2. Append(f, a) = f \o <<a>>
    BY <1>2, <1>4, AppendIsConcat
  <2> QED
    BY <2>1, <2>2
<1>6. ~ (Weight(a, weights) > maximum)
  OBVIOUS
<1> HIDE DEF f, a, R, l
<1>7. Len(y) = n /\ y[n] = a /\ \A i \in 1 .. n - 1 : y[i] = x[i]
  <2>1. Len(y) = Len(f) + 1 /\ y[Len(f) + 1] = a /\ \A i \in 1 .. Len(f) : y[i] = f[i]
    BY <1>2, <1>4, AppendProperties
  <2>2. (n - 1) + 1 = n
    BY <1>2
  <2> HIDE DEF y
  <2> QED
    BY <1>2, <2>1, <2>2
<1> HIDE DEF y, n
<1>8. ASSUME NEW d \in 1 .. Len(y)
      PROVE  /\ Weight(y[d], weights) > maximum => Len(y[d]) = 1
             /\ d > 1 => Weight(Append(y[d - 1], y[d][1]), weights) > maximum
  <2>1. d \in 1 .. n /\ (d \in 1 .. n - 1 \/ d = n) /\ (d > 1 => d - 1 \in 1 .. n - 1)
    BY <1>2, <1>7
  <2>2. /\ Weight(x[d], weights) > maximum => Len(x[d]) = 1
        /\ d > 1 => Weight(Append(x[d - 1], x[d][1]), weights) > maximum
    BY <2>1 DEF Filled, n
  <2>3. d > 1 => y[d - 1] = x[d - 1]
    BY <1>7, <2>1
  <2>4. y[d][1] = x[d][1] /\ (y[d] = x[d] \/ ~ (Weight(y[d], weights) > maximum))
    <3>1. CASE d \in 1 .. n - 1
      BY <1>7, <3>1
    <3>2. CASE d = n
      BY <1>2, <1>4, <1>6, <1>7, <3>2
    <3> QED
      BY <2>1, <3>1, <3>2
  <2> QED
    BY <2>2, <2>3, <2>4
<1> QED
  BY <1>5, <1>8 DEF Filled

\* Split by size, the documents hold the pages and are filled.
LEMMA SplitBySizeIs ==
    ASSUME NEW P, NEW pages \in Seq(P), NEW weights, NEW maximum
    PROVE  /\ DividesInto(SplitBySize(pages, weights, maximum), pages, P)
           /\ Filled(SplitBySize(pages, weights, maximum), weights, maximum)
<1> DEFINE n == Len(pages)
           V == Seq(RowsOf(P))
           Over(x, page) == Weight(Append(Last(x), page), weights) > maximum
           C == {c \in (1 .. n) \X V : Over(c[2], pages[c[1]])}
           Fits(u) == u = [s \in SUBSET DOMAIN pages |->
                              IF s = {} THEN <<>>
                              ELSE IF u[s \ {Max(s)}] = <<>> \/ Over(u[s \ {Max(s)}], pages[Max(s)])
                                   THEN Opened(u[s \ {Max(s)}], pages[Max(s)])
                                   ELSE Continued(u[s \ {Max(s)}], pages[Max(s)])]
           w == CHOOSE u : Fits(u)
<1>1. SplitBySize(pages, weights, maximum) = w[DOMAIN pages]
  BY DEF SplitBySize, FoldLeft, MapThenFoldSet
<1> HIDE DEF Over
<1>2. n \in Nat /\ DOMAIN pages = 1 .. n /\ \A k \in 1 .. n : pages[k] \in P
  BY LenProperties, ElementOfSeq
<1>3. \A s \in SUBSET (1 .. n) : s # {} => Max(s) \in 1 .. n /\ s \ {Max(s)} \in SUBSET (1 .. n)
  BY <1>2, LargestOne
<1>4. \A k \in 1 .. n, x \in V : <<k, x>> \in C <=> Over(x, pages[k])
  OBVIOUS
<1> HIDE DEF C, V, n
<1>5. PICK g : Grown(g, n, pages, C, V) /\ \A s \in SUBSET (1 .. n) : g[s] \in V
  BY GrownExists DEF n, V
<1>6. Fits(g)
  <2>1. ASSUME NEW s \in SUBSET (1 .. n), s # {}
        PROVE  g[s] = IF g[s \ {Max(s)}] = <<>> \/ Over(g[s \ {Max(s)}], pages[Max(s)])
                      THEN Opened(g[s \ {Max(s)}], pages[Max(s)])
                      ELSE Continued(g[s \ {Max(s)}], pages[Max(s)])
    <3>1. g[s \ {Max(s)}] \in V /\ Max(s) \in 1 .. n
      BY <1>3, <1>5, <2>1
    <3>2. g[s] = LET before == g[s \ {Max(s)}]
                 IN  IF before = <<>> \/ <<Max(s), before>> \in C
                     THEN Opened(before, pages[Max(s)]) ELSE Continued(before, pages[Max(s)])
      BY <1>5, <2>1, <3>1 DEF Grown
    <3>3. <<Max(s), g[s \ {Max(s)}]>> \in C <=> Over(g[s \ {Max(s)}], pages[Max(s)])
      BY <1>4, <3>1
    <3> QED
      BY <3>2, <3>3
  <2>2. g = [s \in SUBSET (1 .. n) |-> g[s]] /\ g[{}] = <<>>
    BY <1>5 DEF Grown
  <2> QED
    BY <1>2, <2>1, <2>2
<1>7. w = CHOOSE u : Fits(u)
  OBVIOUS
<1>8. Fits(w)
  <2> HIDE DEF Fits, w
  <2> QED BY <1>6, <1>7
<1> HIDE DEF w
<1>9. Grown(w, n, pages, C, V)
  <2>1. w = [s \in SUBSET (1 .. n) |-> w[s]] /\ w[{}] = <<>>
    BY <1>2, <1>8
  <2>2. ASSUME NEW s \in SUBSET (1 .. n), s # {}, w[s \ {Max(s)}] \in V
        PROVE  w[s] = LET before == w[s \ {Max(s)}]
                      IN  IF before = <<>> \/ <<Max(s), before>> \in C
                          THEN Opened(before, pages[Max(s)]) ELSE Continued(before, pages[Max(s)])
    <3>1. w[s] = IF w[s \ {Max(s)}] = <<>> \/ Over(w[s \ {Max(s)}], pages[Max(s)])
                 THEN Opened(w[s \ {Max(s)}], pages[Max(s)])
                 ELSE Continued(w[s \ {Max(s)}], pages[Max(s)])
      BY <1>2, <1>8, <2>2
    <3>2. Max(s) \in 1 .. n
      BY <1>3, <2>2
    <3>3. <<Max(s), w[s \ {Max(s)}]>> \in C <=> Over(w[s \ {Max(s)}], pages[Max(s)])
      BY <1>4, <2>2, <3>2
    <3> QED
      BY <3>1, <3>3
  <2> QED
    BY <2>1, <2>2 DEF Grown
<1> HIDE DEF Fits
<1>10. DividesInto(w[1 .. n], pages, P)
  BY <1>9, GrownDivides DEF n, V
<1> DEFINE H == GrowthSteps(n, pages, C, V)
<1>11. PICK f : Stepwise(w, f, n, V, <<>>, H)
  BY <1>9, GrownByStep DEF n, V
<1>12. GrowthTyped(H, n, pages, C, V)
  BY StepsAre DEF n, V
<1> HIDE DEF H
<1> DEFINE S == {k \in Nat : k <= n => Filled(f[k], weights, maximum)}
<1>13. 0 \in S
  <2>1. f[0] = <<>>
    BY <1>11 DEF Stepwise
  <2>2. Filled(<<>>, weights, maximum)
    <3>1. Len(<<>>) = 0
      BY EmptySeq
    <3>2. 1 .. 0 = {}
      OBVIOUS
    <3> QED
      BY <3>1, <3>2 DEF Filled
  <2> QED
    BY <2>1, <2>2
<1>14. ASSUME NEW k \in Nat, k \in S PROVE k + 1 \in S
  <2> SUFFICES ASSUME k + 1 <= n PROVE Filled(f[k + 1], weights, maximum)
    OBVIOUS
  <2>1. k + 1 \in 1 .. n /\ (k + 1) - 1 = k /\ k <= n /\ k \in 0 .. n
    BY <1>2
  <2> DEFINE x == f[k]
             page == pages[k + 1]
  <2>2. x \in V /\ page \in P /\ Filled(x, weights, maximum)
    BY <1>2, <1>11, <1>14, <2>1 DEF Stepwise
  <2>3. f[k + 1] = H[k + 1][x]
    BY <1>11, <2>1 DEF Stepwise
  <2>4. H[k + 1][x] = IF x = <<>> \/ <<k + 1, x>> \in C THEN Opened(x, page) ELSE Continued(x, page)
    BY <1>12, <2>1, <2>2 DEF GrowthTyped
  <2>5. <<k + 1, x>> \in C <=> Over(x, page)
    BY <1>4, <2>1, <2>2
  <2> HIDE DEF x, page
  <2>6. x \in Seq(RowsOf(P))
    BY <2>2 DEF V
  <2>7. CASE x = <<>> \/ Over(x, page)
    <3>1. f[k + 1] = Opened(x, page)
      BY <2>3, <2>4, <2>5, <2>7
    <3>2. Filled(Opened(x, page), weights, maximum)
      BY <2>2, <2>6, <2>7, OpenedFilled DEF Over
    <3> QED
      BY <3>1, <3>2
  <2>8. CASE ~ (x = <<>> \/ Over(x, page))
    <3>1. f[k + 1] = Continued(x, page)
      BY <2>3, <2>4, <2>5, <2>8
    <3>2. Filled(Continued(x, page), weights, maximum)
      BY <2>2, <2>6, <2>8, ContinuedFilled DEF Over
    <3> QED
      BY <3>1, <3>2
  <2> QED
    BY <2>7, <2>8
<1>15. S = Nat
  <2>1. S \subseteq Nat
    OBVIOUS
  <2> HIDE DEF S
  <2> QED BY <1>13, <1>14, <2>1, SetInduction
<1>16. Filled(f[n], weights, maximum)
  BY <1>2, <1>15
<1>17. f[n] = w[1 .. n]
  BY <1>11 DEF Stepwise
<1> QED
  BY <1>1, <1>2, <1>10, <1>16, <1>17

-----------------------------------------------------------------------------
(* The workspace: rows erased one by one, and dropped. *)

\* Every row of low is before every row of high.
Apart(low, high) == \A q \in low, r \in high : q < r

\* The elements at the lower rows and then those at the higher.
LEMMA AtConcat ==
    ASSUME NEW R, NEW s \in Seq(R), NEW low \in SUBSET DOMAIN s, NEW high \in SUBSET DOMAIN s,
           Apart(low, high)
    PROVE  At(s, low \cup high) = At(s, low) \o At(s, high)
<1> DEFINE rows == low \cup high
           a == Cardinality(low)
           b == Cardinality(high)
           n == Cardinality(rows)
<1>1. rows \in SUBSET DOMAIN s
  OBVIOUS
<1>2. /\ IsFiniteSet(low) /\ low \subseteq Nat /\ a \in Nat
      /\ IsFiniteSet(high) /\ high \subseteq Nat /\ b \in Nat
      /\ IsFiniteSet(rows) /\ rows \subseteq Nat /\ n \in Nat
  <2> HIDE DEF rows
  <2> QED BY <1>1, AtIs
<1>3. low \cap high = {}
  <2> SUFFICES ASSUME NEW q \in low, q \in high PROVE FALSE
    OBVIOUS
  <2>1. q < q /\ q \in Nat
    BY <1>2 DEF Apart
  <2> QED BY <2>1
<1>4. n = a + b
  <2>1. Cardinality(low \cup high) = Cardinality(low) + Cardinality(high) - Cardinality(low \cap high)
    BY <1>2, FS_Union
  <2>2. Cardinality(low \cap high) = 0
    BY <1>3, FS_EmptySet
  <2> HIDE DEF a, b
  <2>3. n = a + b - 0
    BY <2>1, <2>2 DEF a, b
  <2> QED BY <1>2, <2>3
<1>5. ASSUME NEW r \in low PROVE Rank(rows, r) = Rank(low, r)
  <2>1. \A q \in high : r < q /\ q \in Nat /\ r \in Nat
    BY <1>2 DEF Apart
  <2>2. \A q \in high : ~ (q <= r)
    BY <2>1
  <2>3. {q \in rows : q <= r} = {q \in low : q <= r}
    BY <2>2
  <2> QED
    BY <2>3 DEF Rank
<1>6. ASSUME NEW r \in high PROVE Rank(rows, r) = a + Rank(high, r)
  <2> DEFINE B == {q \in high : q <= r}
  <2>1. \A q \in low : q < r /\ q \in Nat /\ r \in Nat
    BY <1>2 DEF Apart
  <2>2. \A q \in low : q <= r
    BY <2>1
  <2>3. {q \in rows : q <= r} = low \cup B
    BY <2>2
  <2>4. low \cap B = {} /\ B \in SUBSET high
    BY <1>3
  <2> HIDE DEF B
  <2>5. IsFiniteSet(B) /\ Cardinality(B) \in Nat
    BY <1>2, <2>4, FS_Subset, FS_CardinalityType
  <2>6. Cardinality(low \cup B) = Cardinality(low) + Cardinality(B) - Cardinality(low \cap B)
    BY <1>2, <2>5, FS_Union
  <2>7. Cardinality(low \cap B) = 0
    BY <2>4, FS_EmptySet
  <2> HIDE DEF a
  <2>8. Cardinality(low \cup B) = a + Cardinality(B) - 0
    BY <2>6, <2>7 DEF a
  <2>9. Rank(rows, r) = Cardinality(low \cup B) /\ Rank(high, r) = Cardinality(B)
    BY <2>3 DEF Rank, B
  <2> QED
    BY <1>2, <2>5, <2>8, <2>9
<1>7. /\ Ascending(low) \in [1 .. a -> low] /\ Ascending(high) \in [1 .. b -> high]
      /\ Ascending(rows) \in [1 .. n -> rows]
      /\ \A k \in 1 .. a : Rank(low, Ascending(low)[k]) = k
      /\ \A k \in 1 .. b : Rank(high, Ascending(high)[k]) = k
      /\ \A r \in rows : Ascending(rows)[Rank(rows, r)] = r
  <2> HIDE DEF rows
  <2> QED BY <1>2, AscendingIs
<1>8. /\ At(s, low) \in Seq(R) /\ Len(At(s, low)) = a /\ \A k \in 1 .. a : At(s, low)[k] = s[Ascending(low)[k]]
      /\ At(s, high) \in Seq(R) /\ Len(At(s, high)) = b /\ \A k \in 1 .. b : At(s, high)[k] = s[Ascending(high)[k]]
      /\ At(s, rows) \in Seq(R) /\ Len(At(s, rows)) = n /\ \A k \in 1 .. n : At(s, rows)[k] = s[Ascending(rows)[k]]
  <2> HIDE DEF rows
  <2> QED BY <1>1, AtIs
<1> HIDE DEF a, b, n
<1> DEFINE x == At(s, low)
           y == At(s, high)
           z == At(s, rows)
<1>9. \A k \in 1 .. a : z[k] = x[k]
  <2> SUFFICES ASSUME NEW k \in 1 .. a PROVE z[k] = x[k]
    OBVIOUS
  <2>1. k \in 1 .. n
    BY <1>2, <1>4
  <2> DEFINE r == Ascending(low)[k]
  <2>2. r \in low /\ Rank(low, r) = k
    BY <1>7
  <2>3. Rank(rows, r) = k /\ r \in rows
    BY <1>5, <2>2
  <2>4. Ascending(rows)[k] = r
    BY <1>7, <2>3
  <2> QED
    BY <1>8, <2>1, <2>4
<1>10. \A k \in 1 .. b : z[a + k] = y[k]
  <2> SUFFICES ASSUME NEW k \in 1 .. b PROVE z[a + k] = y[k]
    OBVIOUS
  <2>1. a + k \in 1 .. n
    BY <1>2, <1>4
  <2> DEFINE r == Ascending(high)[k]
  <2>2. r \in high /\ Rank(high, r) = k
    BY <1>7
  <2>3. Rank(rows, r) = a + k /\ r \in rows
    BY <1>6, <2>2
  <2>4. Ascending(rows)[a + k] = r
    BY <1>7, <2>3
  <2> QED
    BY <1>8, <2>1, <2>4
<1>11. x \in Seq(R) /\ Len(x) = a /\ y \in Seq(R) /\ Len(y) = b /\ z \in Seq(R) /\ Len(z) = a + b
  BY <1>4, <1>8
<1> HIDE DEF x, y, z, rows
<1>12. x \o y \in Seq(R) /\ Len(x \o y) = a + b /\ \A k \in 1 .. a + b : (x \o y)[k] = IF k <= a THEN x[k] ELSE y[k - a]
  BY <1>11, ConcatProperties
<1>13. \A k \in 1 .. a + b : z[k] = (x \o y)[k]
  <2> SUFFICES ASSUME NEW k \in 1 .. a + b PROVE z[k] = (x \o y)[k]
    OBVIOUS
  <2>1. CASE k <= a
    <3>1. k \in 1 .. a
      BY <1>2, <2>1
    <3> QED BY <1>9, <1>12, <2>1, <3>1
  <2>2. CASE ~ (k <= a)
    <3>1. k - a \in 1 .. b /\ a + (k - a) = k
      BY <1>2, <2>2
    <3>2. z[a + (k - a)] = y[k - a]
      BY <1>10, <3>1
    <3> QED BY <1>12, <2>2, <3>1, <3>2
  <2> QED
    BY <2>1, <2>2
<1>14. z = x \o y
  BY <1>11, <1>12, <1>13, SeqEqual
<1> QED
  BY <1>14 DEF x, y, z, rows

\* The element at one row.
LEMMA AtOne ==
    ASSUME NEW R, NEW s \in Seq(R), NEW r \in DOMAIN s
    PROVE  At(s, {r}) = <<s[r]>>
<1> DEFINE z == At(s, {r})
<1>1. Cardinality({r}) = 1
  BY FS_Singleton
<1>2. /\ z \in Seq(R) /\ Len(z) = 1 /\ Ascending({r}) \in [1 .. 1 -> {r}]
      /\ \A k \in 1 .. 1 : z[k] = s[Ascending({r})[k]]
  <2> DEFINE rows == {r}
             n == Cardinality(rows)
  <2>1. rows \in SUBSET DOMAIN s /\ n = 1
    BY <1>1
  <2> HIDE DEF rows, n
  <2>2. /\ At(s, rows) \in Seq(R) /\ Len(At(s, rows)) = n /\ Ascending(rows) \in [1 .. n -> rows]
        /\ \A k \in 1 .. n : At(s, rows)[k] = s[Ascending(rows)[k]]
    BY <2>1, AtIs DEF n
  <2> QED
    BY <2>1, <2>2 DEF rows
<1>3. z[1] = s[r] /\ s[r] \in R
  <2>1. s[r] \in R
    BY LenProperties, ElementOfSeq
  <2>2. Ascending({r})[1] = r
    BY <1>2
  <2> QED
    BY <1>2, <2>1, <2>2
<1> HIDE DEF z
<1> DEFINE one == <<s[r]>>
<1>4. one \in Seq(R) /\ Len(one) = 1 /\ one[1] = s[r]
  BY <1>3
<1> HIDE DEF one
<1>5. z = one
  BY <1>2, <1>3, <1>4, SeqEqual
<1> QED
  BY <1>5 DEF z, one

\* The elements at an interval of rows are the part of the sequence between.
LEMMA AtInterval ==
    ASSUME NEW R, NEW s \in Seq(R), NEW a \in Nat \ {0}, NEW b \in Nat, a <= b + 1, b <= Len(s)
    PROVE  a .. b \in SUBSET DOMAIN s /\ At(s, a .. b) = SubSeq(s, a, b)
<1> DEFINE rows == a .. b
           n == Cardinality(rows)
           z == At(s, rows)
<1>1. Len(s) \in Nat /\ DOMAIN s = 1 .. Len(s)
  BY LenProperties
<1>2. rows \in SUBSET DOMAIN s /\ rows \subseteq Nat
  BY <1>1
<1>3. IsFiniteSet(rows) /\ n = b - a + 1
  <2>1. IsFiniteSet(a .. b) /\ Cardinality(a .. b) = IF a <= b THEN b - a + 1 ELSE 0
    BY FS_Interval
  <2> HIDE DEF rows
  <2>2. Cardinality(rows) = IF a <= b THEN b - a + 1 ELSE 0
    BY <2>1 DEF rows
  <2>3. (IF a <= b THEN b - a + 1 ELSE 0) = b - a + 1
    OBVIOUS
  <2> QED
    BY <2>1, <2>2, <2>3 DEF rows
<1>4. ASSUME NEW r \in rows PROVE Rank(rows, r) = r - a + 1
  <2>1. r \in Nat /\ a <= r /\ r <= b
    OBVIOUS
  <2>2. {q \in rows : q <= r} = a .. r
    BY <2>1
  <2>3. Cardinality(a .. r) = IF a <= r THEN r - a + 1 ELSE 0
    BY <2>1, FS_Interval
  <2>4. Rank(rows, r) = Cardinality(a .. r)
    BY <2>2 DEF Rank
  <2> HIDE DEF rows
  <2> QED
    BY <2>1, <2>3, <2>4
<1> DEFINE A == Ascending(rows)
<1>5. A \in [1 .. n -> rows] /\ \A k \in 1 .. n : Rank(rows, A[k]) = k
  <2> HIDE DEF rows
  <2> QED BY <1>2, <1>3, AscendingIs
<1>6. z \in Seq(R) /\ Len(z) = n /\ \A k \in 1 .. n : z[k] = s[A[k]]
  <2> HIDE DEF rows
  <2> QED BY <1>2, AtIs
<1> HIDE DEF A, n, z
<1>7. \A k \in 1 .. n : A[k] = k + a - 1
  <2> SUFFICES ASSUME NEW k \in 1 .. n PROVE A[k] = k + a - 1
    OBVIOUS
  <2>1. A[k] \in rows /\ Rank(rows, A[k]) = k
    BY <1>5
  <2>2. A[k] \in Nat /\ A[k] - a + 1 = k
    BY <1>2, <1>4, <2>1
  <2> QED
    BY <2>2
<1> DEFINE y == SubSeq(s, a, b)
<1>8. y \in Seq(R) /\ Len(y) = n /\ \A k \in 1 .. n : y[k] = s[a + k - 1]
  <2>1. \A i \in a .. b : s[i] \in R
    BY <1>1, ElementOfSeq
  <2>2. a \in Int /\ b \in Int
    OBVIOUS
  <2>3. /\ y \in Seq(R) /\ Len(y) = IF a <= b THEN b - a + 1 ELSE 0
        /\ \A i \in 1 .. b - a + 1 : y[i] = s[a + i - 1]
    BY <2>1, <2>2, SubSeqProperties
  <2> HIDE DEF y
  <2>4. Len(y) = n
    BY <1>3, <2>3
  <2> QED
    BY <1>3, <2>3, <2>4
<1> HIDE DEF y
<1>9. \A k \in 1 .. n : z[k] = y[k]
  <2> SUFFICES ASSUME NEW k \in 1 .. n PROVE z[k] = y[k]
    OBVIOUS
  <2>1. k + a - 1 = a + k - 1
    BY <1>3
  <2> QED
    BY <1>6, <1>7, <1>8, <2>1
<1>10. z = y
  BY <1>6, <1>8, <1>9, SeqEqual
<1> QED
  BY <1>2, <1>10 DEF z, y

\* The parts of a concatenation.
LEMMA ConcatParts ==
    ASSUME NEW R, NEW x \in Seq(R), NEW y \in Seq(R)
    PROVE  /\ SubSeq(x \o y, 1, Len(x)) = x
           /\ SubSeq(x \o y, Len(x) + 1, Len(x \o y)) = y
<1> DEFINE z == x \o y
           a == Len(x)
           b == Len(y)
<1>1. /\ z \in Seq(R) /\ Len(z) = a + b
      /\ \A i \in 1 .. a + b : z[i] = IF i <= a THEN x[i] ELSE y[i - a]
  BY ConcatProperties
<1>2. a \in Nat /\ b \in Nat /\ x \in Seq(R) /\ y \in Seq(R) /\ Len(x) = a /\ Len(y) = b
  BY LenProperties
<1>3. \A i \in 1 .. a + b : z[i] \in R
  BY <1>1, ElementOfSeq
<1> HIDE DEF z, a, b
<1>4. SubSeq(z, 1, a) = x
  <2> DEFINE p == SubSeq(z, 1, a)
  <2>1. \A i \in 1 .. a : i \in 1 .. a + b /\ i <= a
    BY <1>2
  <2>2. \A i \in 1 .. a : z[i] \in R
    BY <1>3, <2>1
  <2>3. 1 \in Int /\ a \in Int /\ (IF 1 <= a THEN a - 1 + 1 ELSE 0) = a /\ a - 1 + 1 = a
    BY <1>2
  <2>4. /\ p \in Seq(R) /\ Len(p) = IF 1 <= a THEN a - 1 + 1 ELSE 0
        /\ \A i \in 1 .. a - 1 + 1 : p[i] = z[1 + i - 1]
    BY <2>2, <2>3, SubSeqProperties
  <2> HIDE DEF p
  <2>5. Len(p) = a
    BY <2>3, <2>4
  <2>6. \A i \in 1 .. a : p[i] = x[i]
    <3> SUFFICES ASSUME NEW i \in 1 .. a PROVE p[i] = x[i]
      OBVIOUS
    <3>1. i \in 1 .. a - 1 + 1 /\ 1 + i - 1 = i
      BY <1>2
    <3>2. p[i] = z[i]
      BY <2>4, <3>1
    <3> QED
      BY <1>1, <2>1, <3>2
  <2>7. p = x
    BY <1>2, <2>4, <2>5, <2>6, SeqEqual
  <2> QED
    BY <2>7 DEF p
<1>5. SubSeq(z, a + 1, a + b) = y
  <2> DEFINE p == SubSeq(z, a + 1, a + b)
  <2>1. \A i \in a + 1 .. a + b : i \in 1 .. a + b
    BY <1>2
  <2>2. \A i \in a + 1 .. a + b : z[i] \in R
    BY <1>3, <2>1
  <2>3. /\ a + 1 \in Int /\ a + b \in Int
        /\ (IF a + 1 <= a + b THEN (a + b) - (a + 1) + 1 ELSE 0) = b /\ (a + b) - (a + 1) + 1 = b
    BY <1>2
  <2>4. /\ p \in Seq(R) /\ Len(p) = IF a + 1 <= a + b THEN (a + b) - (a + 1) + 1 ELSE 0
        /\ \A i \in 1 .. (a + b) - (a + 1) + 1 : p[i] = z[(a + 1) + i - 1]
    BY <2>2, <2>3, SubSeqProperties
  <2> HIDE DEF p
  <2>5. Len(p) = b
    BY <2>3, <2>4
  <2>6. \A i \in 1 .. b : p[i] = y[i]
    <3> SUFFICES ASSUME NEW i \in 1 .. b PROVE p[i] = y[i]
      OBVIOUS
    <3>1. i \in 1 .. (a + b) - (a + 1) + 1
      BY <2>3
    <3>2. (a + 1) + i - 1 = a + i /\ a + i \in 1 .. a + b /\ ~ (a + i <= a) /\ (a + i) - a = i
      BY <1>2
    <3>3. p[i] = z[a + i]
      BY <2>4, <3>1, <3>2
    <3> QED
      BY <1>1, <3>2, <3>3
  <2>7. p = y
    BY <1>2, <2>4, <2>5, <2>6, SeqEqual
  <2> QED
    BY <2>7 DEF p
<1> QED
  BY <1>1, <1>4, <1>5 DEF z, a, b

\* Taking out the one element in the middle.
LEMMA MiddleRemoved ==
    ASSUME NEW R, NEW x \in Seq(R), NEW y \in Seq(R), NEW z \in Seq(R), Len(y) = 1, NEW r, r = Len(x) + 1
    PROVE  RemoveAt((x \o y) \o z, r) = x \o z
<1> DEFINE yz == y \o z
           xy == x \o y
           s == xy \o z
<1>1. Len(x) \in Nat /\ xy \in Seq(R) /\ Len(xy) = Len(x) + Len(y) /\ yz \in Seq(R)
  BY LenProperties, ConcatProperties
<1>2. s = x \o yz
  BY ConcatAssociative
<1> HIDE DEF yz, xy
<1>3. SubSeq(x \o yz, 1, Len(x)) = x
  BY <1>1, ConcatParts
<1>4. SubSeq(xy \o z, Len(xy) + 1, Len(xy \o z)) = z
  BY <1>1, ConcatParts
<1>5. r - 1 = Len(x) /\ r + 1 = Len(xy) + 1
  BY <1>1
<1>6. SubSeq(s, 1, r - 1) = x
  BY <1>2, <1>3, <1>5
<1>7. SubSeq(s, r + 1, Len(s)) = z
  BY <1>4, <1>5
<1>8. RemoveAt(s, r) = SubSeq(s, 1, r - 1) \o SubSeq(s, r + 1, Len(s))
  BY DEF RemoveAt
<1> QED
  BY <1>6, <1>7, <1>8 DEF xy

\* If only rows behind r were taken out, r is still the place of its row.
LEMMA RemoveAtIs ==
    ASSUME NEW R, NEW s \in Seq(R), NEW T \in SUBSET DOMAIN s, NEW r \in DOMAIN s, \A t \in T : t > r
    PROVE  RemoveAt(At(s, DOMAIN s \ T), r) = At(s, DOMAIN s \ (T \cup {r}))
<1> DEFINE D == DOMAIN s
           low == 1 .. (r - 1)
           high == {q \in D \ T : q > r}
<1>1. Len(s) \in Nat /\ D = 1 .. Len(s)
  BY LenProperties
<1>2. r \in Nat /\ r >= 1 /\ r <= Len(s) /\ \A t \in D : t \in Nat /\ (t \in low <=> t < r)
  BY <1>1
<1>3. low \in SUBSET D /\ high \in SUBSET D /\ {r} \in SUBSET D /\ low \cup {r} \in SUBSET D
  BY <1>1, <1>2
<1>4. \A t \in T : t \in D /\ t > r
  OBVIOUS
<1>5. \A t \in D : (t \notin T) <=> (t \in low \/ t = r \/ t \in high)
  <2> SUFFICES ASSUME NEW t \in D PROVE (t \notin T) <=> (t \in low \/ t = r \/ t \in high)
    OBVIOUS
  <2>1. t \in Nat /\ (t \in low <=> t < r)
    BY <1>2
  <2>2. t \in T => t > r
    BY <1>4
  <2>3. t < r \/ t = r \/ t > r
    BY <1>2, <2>1
  <2>4. t \in high <=> (t \notin T /\ t > r)
    OBVIOUS
  <2>5. ~ (t < r /\ t > r) /\ ~ (t = r /\ t > r)
    BY <1>2, <2>1
  <2> HIDE DEF low, high
  <2> QED
    BY <2>1, <2>2, <2>3, <2>4, <2>5
<1>6. ~ (r \in low) /\ ~ (r \in high)
  BY <1>2
<1>7. Apart(low, {r}) /\ Apart(low \cup {r}, high) /\ Apart(low, high)
  <2>1. \A q \in low : q < r /\ q \in Nat
    BY <1>2
  <2>2. \A q \in high : r < q /\ q \in Nat
    BY <1>2
  <2> HIDE DEF low, high
  <2>3. \A q \in low, t \in high : q < t
    BY <1>2, <2>1, <2>2
  <2> QED
    BY <2>1, <2>2, <2>3 DEF Apart
<1>8. Cardinality(low) = r - 1
  <2> DEFINE m == r - 1
  <2>1. m \in Nat
    BY <1>2
  <2> HIDE DEF m
  <2>2. Cardinality(1 .. m) = IF 1 <= m THEN m - 1 + 1 ELSE 0
    BY <2>1, FS_Interval
  <2>3. Cardinality(1 .. m) = m
    BY <2>1, <2>2
  <2> QED
    BY <2>3 DEF m
<1> HIDE DEF low, high, D
<1>9. D \ T = (low \cup {r}) \cup high /\ D \ (T \cup {r}) = low \cup high
  BY <1>3, <1>5, <1>6
<1> DEFINE x == At(s, low)
           y == At(s, {r})
           z == At(s, high)
<1>10. x \in Seq(R) /\ Len(x) = r - 1 /\ z \in Seq(R)
  BY <1>3, <1>8, AtIs DEF D
<1>11. y \in Seq(R) /\ Len(y) = 1
  <2>1. y = <<s[r]>>
    BY AtOne
  <2>2. {r} \in SUBSET DOMAIN s
    BY <1>3 DEF D
  <2>3. y \in Seq(R)
    <3> DEFINE one == {r}
    <3> HIDE DEF one
    <3>1. one \in SUBSET DOMAIN s
      BY <2>2 DEF one
    <3>2. At(s, one) \in Seq(R)
      BY <3>1, AtIs
    <3> QED
      BY <3>2 DEF one
  <2> QED
    BY <2>1, <2>3
<1>12. At(s, low \cup {r}) = x \o y
  <2> DEFINE one == {r}
  <2>1. one \in SUBSET DOMAIN s /\ low \in SUBSET DOMAIN s /\ Apart(low, one)
    BY <1>3, <1>7 DEF D
  <2> HIDE DEF one
  <2>2. At(s, low \cup one) = At(s, low) \o At(s, one)
    BY <2>1, AtConcat
  <2> QED
    BY <2>2 DEF one
<1>13. At(s, (low \cup {r}) \cup high) = (x \o y) \o z
  <2> DEFINE some == low \cup {r}
  <2>1. some \in SUBSET DOMAIN s /\ high \in SUBSET DOMAIN s /\ Apart(some, high)
    BY <1>3, <1>7 DEF D
  <2> HIDE DEF some
  <2>2. At(s, some \cup high) = At(s, some) \o At(s, high)
    BY <2>1, AtConcat
  <2> QED
    BY <1>12, <2>2 DEF some
<1>14. At(s, low \cup high) = x \o z
  BY <1>3, <1>7, AtConcat DEF D
<1> HIDE DEF x, y, z
<1>15. r = Len(x) + 1
  BY <1>2, <1>10
<1>16. RemoveAt((x \o y) \o z, r) = x \o z
  BY <1>10, <1>11, <1>15, MiddleRemoved
<1> QED
  BY <1>9, <1>13, <1>14, <1>16 DEF D

\* Descending lists the rows from the last to the first.
LEMMA DescendingIs ==
    ASSUME NEW rows, rows \subseteq Nat, IsFiniteSet(rows)
    PROVE  /\ Cardinality(rows) \in Nat
           /\ Descending(rows) \in [1 .. Cardinality(rows) -> rows]
           /\ \A k, l \in 1 .. Cardinality(rows) : k < l => Descending(rows)[k] > Descending(rows)[l]
           /\ \A r \in rows : \E k \in 1 .. Cardinality(rows) : Descending(rows)[k] = r
<1> DEFINE n == Cardinality(rows)
           A == Ascending(rows)
           D == Descending(rows)
<1>1. /\ n \in Nat /\ A \in [1 .. n -> rows]
      /\ \A r \in rows : Rank(rows, r) \in 1 .. n /\ A[Rank(rows, r)] = r
      /\ \A k, l \in 1 .. n : k < l => A[k] < A[l]
  BY AscendingIs
<1>2. D = [i \in 1 .. Len(A) |-> A[(Len(A) - i) + 1]]
  BY DEF Descending, Reverse
<1> HIDE DEF A, n
<1>3. Len(A) = n
  <2>1. A \in Seq(rows)
    BY <1>1
  <2> QED
    BY <1>1, <2>1, LenProperties
<1>4. \A i \in 1 .. n : (n - i) + 1 \in 1 .. n /\ (n - ((n - i) + 1)) + 1 = i
  BY <1>1
<1>5. D = [i \in 1 .. n |-> A[(n - i) + 1]]
  BY <1>2, <1>3
<1>6. D \in [1 .. n -> rows] /\ \A i \in 1 .. n : D[i] = A[(n - i) + 1]
  BY <1>1, <1>4, <1>5
<1> HIDE DEF D
<1>7. ASSUME NEW k \in 1 .. n, NEW l \in 1 .. n, k < l PROVE D[k] > D[l]
  <2>1. (n - l) + 1 < (n - k) + 1
    BY <1>1, <1>7
  <2>2. A[(n - l) + 1] < A[(n - k) + 1]
    BY <1>1, <1>4, <2>1
  <2>3. D[k] \in Nat /\ D[l] \in Nat
    BY <1>6
  <2>4. D[l] < D[k]
    BY <1>6, <2>2
  <2> QED
    BY <2>3, <2>4
<1>8. ASSUME NEW r \in rows PROVE \E k \in 1 .. n : D[k] = r
  <2> DEFINE i == Rank(rows, r)
  <2>1. i \in 1 .. n /\ A[i] = r
    BY <1>1
  <2> HIDE DEF i
  <2>2. (n - i) + 1 \in 1 .. n /\ (n - ((n - i) + 1)) + 1 = i
    BY <1>4, <2>1
  <2>3. D[(n - i) + 1] = r
    BY <1>6, <2>1, <2>2
  <2> QED
    BY <2>2, <2>3
<1> QED
  BY <1>1, <1>6, <1>7, <1>8 DEF n, D

\* The rows taken out with the first so many positions of their order.
Gone(order, s) == {order[i] : i \in s}

\* Erased takes out the rows.
LEMMA ErasedIs ==
    ASSUME NEW R, NEW items \in Seq(R), NEW rows \in SUBSET DOMAIN items
    PROVE  Erased(items, rows) = At(items, DOMAIN items \ rows)
<1> DEFINE n == Cardinality(rows)
           o == Descending(rows)
           D == DOMAIN items
           Fits(u) == u = [s \in SUBSET DOMAIN o |-> IF s = {} THEN items ELSE RemoveAt(u[s \ {Max(s)}], o[Max(s)])]
           w == CHOOSE u : Fits(u)
           g == [s \in SUBSET (1 .. n) |-> At(items, D \ Gone(o, s))]
<1>1. Erased(items, rows) = w[DOMAIN o]
  BY DEF Erased, FoldLeft, MapThenFoldSet
<1>2. /\ n \in Nat /\ o \in [1 .. n -> rows] /\ \A k, l \in 1 .. n : k < l => o[k] > o[l]
      /\ \A r \in rows : \E k \in 1 .. n : o[k] = r
  <2>1. IsFiniteSet(rows) /\ rows \subseteq Nat
    BY AtIs
  <2> QED
    BY <2>1, DescendingIs
<1>3. DOMAIN o = 1 .. n
  BY <1>2
<1>4. \A s \in SUBSET (1 .. n) : s # {} => Max(s) \in s /\ \A i \in s : i <= Max(s)
  BY <1>2, LargestOne
<1> HIDE DEF o, n
<1>5. g[{}] = items
  <2>1. D \ Gone(o, {}) = D
    BY DEF Gone
  <2>2. At(items, D) = items
    <3>1. Len(items) \in Nat /\ D = 1 .. Len(items)
      BY LenProperties
    <3> DEFINE m == Len(items)
    <3>2. m \in Nat /\ 1 <= m + 1 /\ m <= Len(items)
      BY <3>1
    <3> HIDE DEF m
    <3>3. At(items, 1 .. m) = SubSeq(items, 1, m)
      BY <3>2, AtInterval
    <3>4. SubSeq(items, 1, Len(items)) = items
      BY SubSeqFull
    <3> QED
      BY <3>1, <3>3, <3>4 DEF m
  <2> QED
    BY <2>1, <2>2
<1>6. ASSUME NEW s \in SUBSET (1 .. n), s # {} PROVE g[s] = RemoveAt(g[s \ {Max(s)}], o[Max(s)])
  <2> DEFINE m == Max(s)
             T == Gone(o, s \ {m})
             r == o[m]
  <2>1. m \in s /\ m \in 1 .. n /\ \A i \in s : i <= m /\ i \in 1 .. n
    BY <1>4, <1>6
  <2> HIDE DEF m
  <2>2. r \in D
    BY <1>2, <2>1
  <2>3. T \in SUBSET D
    BY <1>2, <2>1 DEF Gone
  <2>4. ASSUME NEW t \in T PROVE t > r
    <3>1. PICK i \in s \ {m} : t = o[i]
      BY DEF Gone
    <3>2. i < m
      BY <1>2, <2>1, <3>1
    <3> QED
      BY <1>2, <2>1, <3>1, <3>2
  <2>5. Gone(o, s) = T \cup {r}
    BY <2>1 DEF Gone
  <2> HIDE DEF T, r, D
  <2>6. RemoveAt(At(items, DOMAIN items \ T), r) = At(items, DOMAIN items \ (T \cup {r}))
    BY <2>2, <2>3, <2>4, RemoveAtIs DEF D
  <2>7. g[s] = At(items, D \ Gone(o, s)) /\ g[s \ {m}] = At(items, D \ Gone(o, s \ {m}))
    OBVIOUS
  <2> HIDE DEF g
  <2> QED
    BY <2>5, <2>6, <2>7 DEF D, T, r, m
<1>7. g = [s \in SUBSET (1 .. n) |-> g[s]]
  OBVIOUS
<1> HIDE DEF g
<1>8. Fits(g)
  BY <1>3, <1>5, <1>6, <1>7
<1>9. w = CHOOSE u : Fits(u)
  OBVIOUS
<1>10. Fits(w)
  <2> HIDE DEF Fits, w
  <2> QED BY <1>8, <1>9
<1> HIDE DEF w
<1>11. Follows(w, g, n)
  <2>1. w[{}] = g[{}]
    BY <1>5, <1>10
  <2>2. ASSUME NEW s \in SUBSET (1 .. n), s # {}, w[s \ {Max(s)}] = g[s \ {Max(s)}] PROVE w[s] = g[s]
    <3>1. w[s] = RemoveAt(w[s \ {Max(s)}], o[Max(s)])
      BY <1>3, <1>10, <2>2
    <3> HIDE DEF Fits
    <3> QED
      BY <1>6, <2>2, <3>1
  <2> QED
    BY <2>1, <2>2 DEF Follows
<1> HIDE DEF Fits
<1>12. w[1 .. n] = g[1 .. n]
  BY <1>2, <1>11, FoldIs
<1>13. Gone(o, 1 .. n) = rows
  BY <1>2 DEF Gone
<1>14. g[1 .. n] = At(items, D \ Gone(o, 1 .. n))
  BY DEF g
<1> QED
  BY <1>1, <1>3, <1>12, <1>13, <1>14

\* Extracted flattens the rows.
LEMMA ExtractedIs ==
    ASSUME NEW P, NEW items \in Seq(Seq(P)), NEW rows \in SUBSET DOMAIN items
    PROVE  Extracted(items, rows) = FlattenSeq(At(items, rows)) /\ Extracted(items, rows) \in Seq(P)
<1> DEFINE n == Cardinality(rows)
           o == Descending(rows)
<1>1. /\ n \in Nat /\ o \in [1 .. n -> rows] /\ \A k, l \in 1 .. n : k < l => o[k] > o[l]
      /\ \A r \in rows : \E k \in 1 .. n : o[k] = r
  <2>1. IsFiniteSet(rows) /\ rows \subseteq Nat
    BY AtIs
  <2> QED
    BY <2>1, DescendingIs
<1>2. o \in [1 .. n -> DOMAIN items] /\ o = Descending(rows)
  BY <1>1
<1> HIDE DEF n, o
<1>3. PICK f : TakesOut(f, items, o, n, P) /\ Extracted(items, rows) = f[n]
  BY <1>1, <1>2, ExtractedByStep
<1>4. f \in [0 .. n -> Seq(P)] /\ f[0] = <<>> /\ \A k \in 1 .. n : f[k] = items[o[k]] \o f[k - 1]
  BY <1>3 DEF TakesOut
<1> DEFINE Taken(k) == Gone(o, 1 .. k)
           Good(k) == f[k] = FlattenSeq(At(items, Taken(k)))
           S == {k \in Nat : k <= n => Good(k)}
<1>5. \A k \in 0 .. n : Taken(k) \in SUBSET rows
  BY <1>1 DEF Gone
<1>6. 0 \in S
  <2> DEFINE none == {}
             z == At(items, none)
  <2>1. Taken(0) = none
    BY DEF Gone
  <2>2. Cardinality(none) = 0 /\ none \in SUBSET DOMAIN items
    BY FS_EmptySet
  <2> HIDE DEF none
  <2>3. z \in Seq(Seq(P)) /\ Len(z) = 0
    BY <2>2, AtIs
  <2>4. z = <<>>
    BY <2>3, EmptySeq
  <2>5. FlattenSeq(<<>>) = <<>>
    <3>1. Len(<<>>) = 0
      BY EmptySeq
    <3> QED
      BY <3>1 DEF FlattenSeq
  <2> HIDE DEF z
  <2>6. Good(0)
    BY <1>4, <2>1, <2>4, <2>5 DEF z
  <2> HIDE DEF Good
  <2> QED
    BY <2>6
<1>7. ASSUME NEW k \in Nat, k \in S PROVE k + 1 \in S
  <2> SUFFICES ASSUME k + 1 <= n PROVE Good(k + 1)
    OBVIOUS
  <2>1. k + 1 \in 1 .. n /\ (k + 1) - 1 = k /\ k \in 0 .. n /\ k <= n
    BY <1>1
  <2> DEFINE r == o[k + 1]
             T == Taken(k)
  <2>2. r \in rows /\ T \in SUBSET rows
    BY <1>1, <1>5, <2>1
  <2>3. Taken(k + 1) = {r} \cup T
    <3>1. 1 .. k + 1 = {k + 1} \cup (1 .. k)
      BY <2>1
    <3> QED
      BY <3>1 DEF Gone
  <2>4. ASSUME NEW t \in T PROVE r < t
    <3>1. PICK i \in 1 .. k : t = o[i]
      BY DEF Gone
    <3>2. i \in 1 .. n /\ i < k + 1
      BY <1>1, <2>1
    <3>3. o[i] > o[k + 1]
      BY <1>1, <2>1, <3>2
    <3>4. o[i] \in Nat /\ o[k + 1] \in Nat
      BY <1>1, <2>1, <3>2, AtIs
    <3> QED
      BY <3>1, <3>3, <3>4
  <2>5. f[k] = FlattenSeq(At(items, T))
    BY <1>7, <2>1
  <2>6. f[k + 1] = items[r] \o f[k]
    BY <1>4, <2>1
  <2> HIDE DEF r, T, Taken
  <2>7. At(items, {r} \cup T) = At(items, {r}) \o At(items, T)
    <3> DEFINE one == {r}
    <3>1. one \in SUBSET DOMAIN items /\ T \in SUBSET DOMAIN items /\ Apart(one, T)
      BY <2>2, <2>4 DEF Apart
    <3> HIDE DEF one
    <3>2. At(items, one \cup T) = At(items, one) \o At(items, T)
      BY <3>1, AtConcat
    <3> QED
      BY <3>2 DEF one
  <2>8. items[r] \in Seq(P) /\ r \in DOMAIN items
    BY <2>2, LenProperties, ElementOfSeq
  <2>9. At(items, {r}) = <<items[r]>> /\ <<items[r]>> \in Seq(Seq(P))
    BY <2>8, AtOne
  <2>10. At(items, T) \in Seq(Seq(P))
    BY <2>2, AtIs
  <2> DEFINE one == <<items[r]>>
             rest == At(items, T)
  <2>11. FlattenSeq(one) = items[r]
    BY <2>8, FlattenAppend
  <2>12. one \in Seq(Seq(P)) /\ rest \in Seq(Seq(P))
    BY <2>9, <2>10
  <2> HIDE DEF one, rest
  <2>13. FlattenSeq(one \o rest) = FlattenSeq(one) \o FlattenSeq(rest)
    BY <2>12, FlattenConcat
  <2>14. f[k + 1] = FlattenSeq(At(items, {r} \cup T))
    BY <2>5, <2>6, <2>7, <2>9, <2>11, <2>13 DEF one, rest
  <2> QED
    BY <2>3, <2>14
<1>8. S = Nat
  <2>1. S \subseteq Nat
    OBVIOUS
  <2> HIDE DEF S
  <2> QED BY <1>6, <1>7, <2>1, SetInduction
<1>9. Good(n)
  <2>1. n \in S /\ n <= n
    <3> HIDE DEF S
    <3> QED BY <1>1, <1>8
  <2> HIDE DEF Good
  <2> QED BY <2>1
<1>10. Taken(n) = rows
  BY <1>1 DEF Gone
<1>11. f[n] \in Seq(P)
  <2>1. n \in 0 .. n
    BY <1>1
  <2> QED
    BY <1>4, <2>1
<1> QED
  BY <1>3, <1>9, <1>10, <1>11

\* The rows that stay, before the place and behind it.
StayBefore(items, rows, before) == {r \in DOMAIN items \ rows : r <= before}
StayBehind(items, rows, before) == {r \in DOMAIN items \ rows : r > before}

\* A move takes the rows out and puts them between the others.
LEMMA DroppedIs ==
    ASSUME NEW R, NEW items \in Seq(R), NEW rows \in SUBSET DOMAIN items, NEW before \in 0 .. Len(items)
    PROVE  /\ before - Cardinality({r \in rows : r <= before}) \in 0 .. Len(Erased(items, rows))
           /\ Dropped(items, rows, before, TRUE) =
                  At(items, StayBefore(items, rows, before)) \o At(items, rows)
                      \o At(items, StayBehind(items, rows, before))
<1> DEFINE D == DOMAIN items
           low == {r \in D \ rows : r <= before}
           high == {r \in D \ rows : r > before}
           taken == {r \in rows : r <= before}
           place == before - Cardinality(taken)
           x == At(items, low)
           y == At(items, high)
           z == At(items, rows)
<1>1. Len(items) \in Nat /\ D = 1 .. Len(items) /\ before \in Nat /\ before <= Len(items)
  BY LenProperties
<1>2. \A r \in D : r \in Nat /\ r >= 1 /\ (r <= before \/ r > before) /\ ~ (r <= before /\ r > before)
  BY <1>1
<1>3. low \in SUBSET D /\ high \in SUBSET D /\ taken \in SUBSET D /\ low \cup high = D \ rows
  BY <1>2
<1>4. Apart(low, high)
  <2> SUFFICES ASSUME NEW q \in low, NEW r \in high PROVE q < r
    BY DEF Apart
  <2>1. q \in Nat /\ r \in Nat /\ q <= before /\ r > before
    BY <1>2
  <2> QED
    BY <1>1, <2>1
<1>5. low \cup taken = 1 .. before /\ low \cap taken = {}
  <2>1. \A r \in D : r <= before <=> r \in 1 .. before
    BY <1>1, <1>2
  <2>2. 1 .. before \in SUBSET D
    BY <1>1
  <2>3. \A r \in D : r \in low \cup taken <=> r <= before
    OBVIOUS
  <2> HIDE DEF D
  <2>4. low \cap taken = {}
    OBVIOUS
  <2>5. low \cup taken = 1 .. before
    <3> HIDE DEF low, taken
    <3> QED BY <1>3, <2>1, <2>2, <2>3
  <2> QED
    BY <2>4, <2>5
<1>6. D \in SUBSET DOMAIN items /\ rows \in SUBSET D
  OBVIOUS
<1> HIDE DEF low, high, taken
<1>7. Cardinality(low) \in Nat /\ Cardinality(taken) \in Nat /\ Cardinality(low) + Cardinality(taken) = before
  <2>1. IsFiniteSet(low) /\ IsFiniteSet(taken) /\ Cardinality(low) \in Nat /\ Cardinality(taken) \in Nat
    BY <1>3, AtIs DEF D
  <2>2. Cardinality(low \cup taken) = Cardinality(low) + Cardinality(taken) - Cardinality(low \cap taken)
    BY <2>1, FS_Union
  <2>3. Cardinality(low \cap taken) = 0
    BY <1>5, FS_EmptySet
  <2>4. Cardinality(1 .. before) = before
    <3>1. Cardinality(1 .. before) = IF 1 <= before THEN before - 1 + 1 ELSE 0
      BY <1>1, FS_Interval
    <3> QED
      BY <1>1, <3>1
  <2>5. before = Cardinality(low) + Cardinality(taken) - 0
    BY <1>5, <2>2, <2>3, <2>4
  <2> QED
    BY <2>1, <2>5
<1>8. place = Cardinality(low)
  BY <1>1, <1>7
<1>9. /\ x \in Seq(R) /\ Len(x) = Cardinality(low)
      /\ y \in Seq(R) /\ Len(y) \in Nat
      /\ z \in Seq(R)
  BY <1>3, <1>6, AtIs, LenProperties DEF D
<1>10. Erased(items, rows) = x \o y
  <2>1. Erased(items, rows) = At(items, DOMAIN items \ rows)
    BY ErasedIs
  <2>2. At(items, low \cup high) = At(items, low) \o At(items, high)
    BY <1>3, <1>4, AtConcat DEF D
  <2> QED
    BY <1>3, <2>1, <2>2
<1> HIDE DEF x, y, z, D, place
<1>11. Len(x \o y) = Len(x) + Len(y)
  BY <1>9, ConcatProperties
<1>12. place \in 0 .. Len(x \o y)
  BY <1>7, <1>8, <1>9, <1>11
<1>13. SubSeq(x \o y, 1, place) = x /\ SubSeq(x \o y, place + 1, Len(x \o y)) = y
  BY <1>8, <1>9, ConcatParts
<1>14. Splice(x \o y, place, z) = x \o z \o y
  BY <1>13 DEF Splice
<1>15. Dropped(items, rows, before, TRUE) = Splice(Erased(items, rows), place, z)
  BY DEF Dropped, place, z, taken
<1> QED
  BY <1>10, <1>12, <1>14, <1>15 DEF x, y, z, D, place, low, high, taken, StayBefore, StayBehind

\* So DropIsSplice holds of every workspace.
LEMMA DropsAreSplices ==
    ASSUME NEW P, state.items \in Seq(Seq(P))
    PROVE  DropIsSplice
<1> DEFINE items == state.items
           D == DOMAIN items
<1>1. D = 1 .. Len(items) /\ Rows = D
  BY LenProperties DEF Rows
<1>2. ASSUME NEW rows \in Selections \ {{}}, NEW before \in 0 .. Len(items)
      PROVE  /\ Dropped(items, rows, before, TRUE) =
                    At(items, {r \in Rows \ rows : r <= before}) \o At(items, rows)
                        \o At(items, {r \in Rows \ rows : r > before})
             /\ Extracted(items, rows) = FlattenSeq(At(items, rows))
  <2>1. rows \in SUBSET DOMAIN items /\ items \in Seq(Seq(P))
    BY <1>1 DEF Selections
  <2> HIDE DEF items
  <2>2. Dropped(items, rows, before, TRUE) =
            At(items, StayBefore(items, rows, before)) \o At(items, rows)
                \o At(items, StayBehind(items, rows, before))
    BY <2>1, DroppedIs
  <2>3. Extracted(items, rows) = FlattenSeq(At(items, rows))
    BY <2>1, ExtractedIs
  <2> QED
    BY <1>1, <2>2, <2>3 DEF StayBefore, StayBehind
<1> QED
  BY <1>2 DEF DropIsSplice

-----------------------------------------------------------------------------
(* The workspace: the splits of an export. *)

\* The places at which the pages are cut: the first m documents end at e[1] to e[m].
Cuts(e, m, n) ==
    /\ m \in Nat /\ e \in [0 .. m -> 0 .. n] /\ e[0] = 0 /\ e[m] = n
    /\ \A d \in 1 .. m : e[d - 1] < e[d]

\* The parts between the cuts.
Parts(split, pages, e, m) ==
    /\ split = [d \in 1 .. m |-> split[d]]
    /\ \A d \in 1 .. m : split[d] = SubSeq(pages, e[d - 1] + 1, e[d])

\* They are a division of the pages.
LEMMA PartsDivide ==
    ASSUME NEW P, NEW pages \in Seq(P), NEW e, NEW m, Cuts(e, m, Len(pages)), NEW split, Parts(split, pages, e, m)
    PROVE  DividesInto(split, pages, P)
<1> DEFINE n == Len(pages)
<1>1. n \in Nat /\ DOMAIN pages = 1 .. n
  BY LenProperties
<1>2. /\ m \in Nat /\ e \in [0 .. m -> 0 .. n] /\ e[0] = 0 /\ e[m] = n
      /\ \A d \in 1 .. m : e[d - 1] < e[d]
  BY DEF Cuts
<1>3. \A d \in 1 .. m : d - 1 \in 0 .. m /\ d \in 0 .. m
  BY <1>2
<1>4. \A d \in 1 .. m : e[d - 1] \in Nat /\ e[d] \in Nat /\ e[d - 1] < e[d] /\ e[d] <= n
  BY <1>1, <1>2, <1>3
<1>5. ASSUME NEW d \in 1 .. m PROVE split[d] \in RowsOf(P)
  <2> DEFINE a == e[d - 1] + 1
             b == e[d]
  <2>1. a \in Nat /\ b \in Nat /\ a <= b /\ a >= 1 /\ b <= n
    BY <1>4
  <2>2. split[d] = SubSeq(pages, a, b)
    BY DEF Parts
  <2> HIDE DEF a, b
  <2>3. \A i \in a .. b : i \in 1 .. n
    BY <1>1, <2>1
  <2>4. \A i \in a .. b : pages[i] \in P
    BY <2>3, ElementOfSeq
  <2>5. a \in Int /\ b \in Int
    BY <2>1
  <2>6. SubSeq(pages, a, b) \in Seq(P) /\ Len(SubSeq(pages, a, b)) = IF a <= b THEN b - a + 1 ELSE 0
    BY <2>4, <2>5, SubSeqProperties
  <2>7. Len(SubSeq(pages, a, b)) # 0
    BY <2>1, <2>6
  <2>8. Len(<<>>) = 0
    BY EmptySeq
  <2> QED
    BY <2>2, <2>6, <2>7, <2>8 DEF RowsOf
<1>6. split \in Seq(RowsOf(P)) /\ Len(split) = m
  <2> DEFINE R == RowsOf(P)
  <2>1. \A d \in 1 .. m : split[d] \in R
    BY <1>5
  <2> HIDE DEF R
  <2>2. split \in [1 .. m -> R]
    BY <2>1 DEF Parts
  <2>3. split \in Seq(R)
    BY <1>2, <2>2
  <2>4. Len(split) = m
    BY <1>2, <2>2, <2>3, LenProperties
  <2> QED
    BY <2>3, <2>4 DEF R
<1>7. split \in Seq(Seq(P))
  <2>1. RowsOf(P) \subseteq Seq(P)
    BY DEF RowsOf
  <2> QED
    BY <1>6, <2>1, SeqMonotonic
<1>8. PICK F : Flattens(F, split, P) /\ FlattenSeq(split) = F[m]
  BY <1>6, <1>7, FlattenByStep
<1>9. F[0] = <<>> /\ \A k \in 1 .. m : F[k] = F[k - 1] \o split[k]
  BY <1>6, <1>8 DEF Flattens
<1> HIDE DEF n
<1> DEFINE Good(k) == F[k] = SubSeq(pages, 1, e[k])
           S == {k \in Nat : k <= m => Good(k)}
<1>10. 0 \in S
  <2>1. SubSeq(pages, 1, 0) = <<>>
    BY SubSeqEmpty
  <2>2. Good(0)
    BY <1>2, <1>9, <2>1
  <2> HIDE DEF Good
  <2> QED
    BY <2>2
<1>11. ASSUME NEW k \in Nat, k \in S PROVE k + 1 \in S
  <2> SUFFICES ASSUME k + 1 <= m PROVE Good(k + 1)
    OBVIOUS
  <2>1. k + 1 \in 1 .. m /\ (k + 1) - 1 = k /\ k <= m
    BY <1>2
  <2> DEFINE a == e[k]
             b == e[k + 1]
  <2>2. a \in Nat /\ b \in Nat /\ a < b /\ b <= n
    <3>1. e[(k + 1) - 1] \in Nat /\ e[k + 1] \in Nat /\ e[(k + 1) - 1] < e[k + 1] /\ e[k + 1] <= n
      BY <1>4, <2>1
    <3> QED
      BY <2>1, <3>1
  <2>3. F[k] = SubSeq(pages, 1, a)
    BY <1>11, <2>1
  <2>4. F[k + 1] = F[k] \o split[k + 1]
    BY <1>9, <2>1
  <2>5. split[k + 1] = SubSeq(pages, a + 1, b)
    <3>1. split[k + 1] = SubSeq(pages, e[(k + 1) - 1] + 1, e[k + 1])
      BY <2>1 DEF Parts
    <3> QED
      BY <2>1, <3>1
  <2> HIDE DEF a, b
  <2>6. SubSeq(pages, 1, a) \o SubSeq(pages, a + 1, b) = SubSeq(pages, 1, b)
    <3>1. 1 \in 1 .. Len(pages) + 1 /\ a \in 1 - 1 .. Len(pages) /\ b \in a .. Len(pages)
      BY <1>1, <2>2 DEF n
    <3> QED
      BY <3>1, ConcatAdjacentSubSeq
  <2> QED
    BY <2>3, <2>4, <2>5, <2>6 DEF b
<1>12. S = Nat
  <2>1. S \subseteq Nat
    OBVIOUS
  <2> HIDE DEF S
  <2> QED BY <1>10, <1>11, <2>1, SetInduction
<1>13. Good(m)
  <2>1. m \in S /\ m <= m
    <3> HIDE DEF S
    <3> QED BY <1>2, <1>12
  <2> HIDE DEF Good
  <2> QED BY <2>1
<1>14. SubSeq(pages, 1, Len(pages)) = pages
  BY SubSeqFull
<1>15. F[m] = pages
  BY <1>2, <1>13, <1>14 DEF n
<1> QED
  BY <1>6, <1>8, <1>15 DEF DividesInto

\* l pages are m documents of n pages, of which the last may have fewer.
Reaches(m, n, l) ==
    /\ m \in Nat /\ (m = 0 => l = 0) /\ (m # 0 => m * n >= l)
    /\ \A d \in 1 .. m : /\ (d - 1) * n \in Nat /\ d * n \in Nat
                         /\ (d - 1) * n < l /\ d * n = (d - 1) * n + n /\ (d < m => d * n < l)

\* Where every n pages make a document.
LEMMA EveryN ==
    ASSUME NEW n \in 1 .. 3, NEW l \in Nat, NEW m, m = (l + n - 1) \div n
    PROVE  Reaches(m, n, l)
<1> USE DEF Reaches
<1>1. CASE n = 1
  BY <1>1
<1>2. CASE n = 2
  BY <1>2
<1>3. CASE n = 3
  BY <1>3
<1> QED
  BY <1>1, <1>2, <1>3

\* Split every n pages, the documents hold the pages.
LEMMA SplitEveryNIs ==
    ASSUME NEW P, NEW pages \in Seq(P), NEW n \in 1 .. 3
    PROVE  DividesInto(SplitEveryN(pages, n), pages, P)
<1> DEFINE l == Len(pages)
           m == (l + n - 1) \div n
           e == [d \in 0 .. m |-> IF d * n <= l THEN d * n ELSE l]
           split == SplitEveryN(pages, n)
<1>1. l \in Nat /\ DOMAIN pages = 1 .. l /\ n \in Nat /\ n >= 1
  BY LenProperties
<1>2. split = [d \in 1 .. m |-> At(pages, ((d - 1) * n + 1) .. (d * n) \cap DOMAIN pages)]
  BY DEF SplitEveryN
<1> HIDE DEF split
<1>3. /\ m \in Nat /\ (m = 0 => l = 0) /\ (m # 0 => m * n >= l)
      /\ \A d \in 1 .. m : /\ (d - 1) * n \in Nat /\ d * n \in Nat
                           /\ (d - 1) * n < l /\ d * n = (d - 1) * n + n /\ (d < m => d * n < l)
  <2>1. m = (l + n - 1) \div n
    OBVIOUS
  <2> HIDE DEF l, m
  <2>2. Reaches(m, n, l)
    BY <1>1, <2>1, EveryN
  <2> QED
    BY <2>2 DEF Reaches
<1> HIDE DEF l, m
<1>4. 0 * n = 0 /\ \A d \in 1 .. m : d - 1 \in 0 .. m /\ d \in 0 .. m
  BY <1>1, <1>3
<1>5. ASSUME NEW d \in 1 .. m
      PROVE  /\ e[d - 1] = (d - 1) * n /\ e[d] \in 0 .. l /\ e[d - 1] < e[d]
             /\ ((d - 1) * n + 1) .. (d * n) \cap DOMAIN pages = (e[d - 1] + 1) .. e[d]
  <2> DEFINE a == (d - 1) * n
             b == d * n
  <2>1. a \in Nat /\ b \in Nat /\ a < l /\ b = a + n
    BY <1>3
  <2>2. e[d - 1] = (IF a <= l THEN a ELSE l) /\ e[d] = IF b <= l THEN b ELSE l
    BY <1>4
  <2> HIDE DEF a, b, e
  <2>3. e[d - 1] = a /\ e[d] \in 0 .. l /\ e[d - 1] < e[d]
    BY <1>1, <2>1, <2>2
  <2>4. (a + 1) .. b \cap 1 .. l = (a + 1) .. e[d]
    BY <1>1, <2>1, <2>2
  <2> QED
    BY <1>1, <2>3, <2>4 DEF a, b
<1>6. e[0] = 0 /\ e[m] = l
  <2>1. 0 \in 0 .. m /\ m \in 0 .. m
    BY <1>3
  <2>2. e[0] = 0
    BY <1>1, <1>4, <2>1
  <2>3. e[m] = IF m * n <= l THEN m * n ELSE l
    BY <2>1
  <2>4. CASE m = 0
    BY <1>3, <2>2, <2>4
  <2>5. CASE m # 0
    <3>1. m * n \in Nat /\ m * n >= l
      <4>1. m \in 1 .. m
        BY <1>3, <2>5
      <4> QED
        BY <1>3, <2>5, <4>1
    <3> DEFINE x == m * n
    <3>2. x \in Nat /\ x >= l /\ e[m] = IF x <= l THEN x ELSE l
      BY <2>3, <3>1
    <3> HIDE DEF e, x
    <3>3. x <= l => x = l
      BY <1>1, <3>2
    <3> QED
      BY <2>2, <3>2, <3>3
  <2> QED
    BY <2>2, <2>4, <2>5
<1>7. Cuts(e, m, l)
  <2>1. \A d \in 0 .. m : e[d] \in 0 .. l
    <3> SUFFICES ASSUME NEW d \in 0 .. m PROVE e[d] \in 0 .. l
      OBVIOUS
    <3>1. d \in 1 .. m \/ d = 0
      BY <1>3
    <3>2. CASE d \in 1 .. m
      BY <1>5, <3>2
    <3>3. CASE d = 0
      BY <1>1, <1>6, <3>3
    <3> QED
      BY <3>1, <3>2, <3>3
  <2>2. e = [d \in 0 .. m |-> e[d]]
    OBVIOUS
  <2> HIDE DEF e
  <2>3. e \in [0 .. m -> 0 .. l]
    BY <2>1, <2>2
  <2>4. \A d \in 1 .. m : e[d - 1] < e[d]
    BY <1>5
  <2> QED
    BY <1>3, <1>6, <2>3, <2>4 DEF Cuts
<1>8. Parts(split, pages, e, m)
  <2>1. split = [d \in 1 .. m |-> split[d]]
    BY <1>2
  <2>2. ASSUME NEW d \in 1 .. m PROVE split[d] = SubSeq(pages, e[d - 1] + 1, e[d])
    <3> DEFINE a == e[d - 1] + 1
               b == e[d]
    <3>1. split[d] = At(pages, ((d - 1) * n + 1) .. (d * n) \cap DOMAIN pages)
      BY <1>2
    <3>2. split[d] = At(pages, a .. b)
      BY <1>5, <3>1
    <3>3. a \in Nat \ {0} /\ b \in Nat /\ a <= b + 1 /\ b <= l
      <4>1. e[d - 1] \in Nat /\ e[d] \in Nat /\ e[d] <= l /\ e[d - 1] < e[d]
        <5>1. e[d - 1] \in Nat
          BY <1>3, <1>5
        <5> HIDE DEF e
        <5>2. e[d] \in 0 .. l /\ e[d - 1] < e[d]
          BY <1>5
        <5> QED BY <1>1, <5>1, <5>2
      <4> HIDE DEF e
      <4> QED BY <1>1, <4>1
    <3> HIDE DEF a, b
    <3>4. At(pages, a .. b) = SubSeq(pages, a, b)
      BY <3>3, AtInterval DEF l
    <3> QED
      BY <3>2, <3>4 DEF a, b
  <2> HIDE DEF e
  <2> QED
    BY <2>1, <2>2 DEF Parts
<1> HIDE DEF e
<1>9. DividesInto(split, pages, P)
  BY <1>7, <1>8, PartsDivide DEF l
<1> QED
  BY <1>9 DEF split

\* Every page by itself is a division.
LEMMA SeparateIs ==
    ASSUME NEW P, NEW pages \in Seq(P)
    PROVE  DividesInto([k \in DOMAIN pages |-> <<pages[k]>>], pages, P)
<1> DEFINE l == Len(pages)
           e == [d \in 0 .. l |-> d]
           split == [k \in DOMAIN pages |-> <<pages[k]>>]
<1>1. l \in Nat /\ DOMAIN pages = 1 .. l
  BY LenProperties
<1>2. Cuts(e, l, l)
  <2>1. \A d \in 1 .. l : d - 1 \in 0 .. l /\ d \in 0 .. l
    BY <1>1
  <2>2. e \in [0 .. l -> 0 .. l] /\ \A d \in 0 .. l : e[d] = d
    OBVIOUS
  <2>3. 0 \in 0 .. l /\ l \in 0 .. l
    BY <1>1
  <2> HIDE DEF e, l
  <2>4. \A d \in 1 .. l : e[d - 1] < e[d]
    <3> SUFFICES ASSUME NEW d \in 1 .. l PROVE e[d - 1] < e[d]
      OBVIOUS
    <3>1. e[d - 1] = d - 1 /\ e[d] = d
      BY <2>1, <2>2
    <3> QED
      BY <1>1, <3>1
  <2> QED
    BY <1>1, <2>2, <2>3, <2>4 DEF Cuts
<1>3. Parts(split, pages, e, l)
  <2>1. split = [d \in 1 .. l |-> split[d]]
    BY <1>1
  <2>2. ASSUME NEW d \in 1 .. l PROVE split[d] = SubSeq(pages, e[d - 1] + 1, e[d])
    <3>1. e[d - 1] + 1 = d /\ e[d] = d
      <4>1. d - 1 \in 0 .. l /\ d \in 0 .. l /\ d - 1 + 1 = d
        BY <1>1
      <4> HIDE DEF l
      <4> QED BY <4>1
    <3>2. split[d] = <<pages[d]>> /\ pages[d] \in P
      BY <1>1, ElementOfSeq
    <3>3. SubSeq(pages, d, d) = <<pages[d]>>
      <4> DEFINE x == SubSeq(pages, d, d)
                 one == <<pages[d]>>
      <4>0. d \in Int /\ d - d + 1 = 1 /\ d <= d /\ d + 1 - 1 = d
        BY <1>1
      <4>1. \A i \in d .. d : pages[i] \in P
        BY <3>2, <4>0
      <4>2. /\ x \in Seq(P) /\ Len(x) = IF d <= d THEN d - d + 1 ELSE 0
            /\ \A i \in 1 .. d - d + 1 : x[i] = pages[d + i - 1]
        BY <4>0, <4>1, SubSeqProperties
      <4>3. one \in Seq(P) /\ Len(one) = 1 /\ one[1] = pages[d]
        BY <3>2
      <4> HIDE DEF x, one
      <4>4. Len(x) = 1 /\ x[1] = pages[d]
        BY <4>0, <4>2
      <4>5. x = one
        BY <4>2, <4>3, <4>4, SeqEqual
      <4> QED
        BY <4>5 DEF x, one
    <3> QED
      BY <3>1, <3>2, <3>3
  <2> HIDE DEF split, e
  <2> QED
    BY <2>1, <2>2 DEF Parts
<1> HIDE DEF split, e
<1>4. DividesInto(split, pages, P)
  BY <1>2, <1>3, PartsDivide DEF l
<1> QED
  BY <1>4 DEF split

\* All rows are the sequence.
LEMMA AtAll ==
    ASSUME NEW R, NEW s \in Seq(R)
    PROVE  At(s, DOMAIN s) = s
<1> DEFINE m == Len(s)
<1>1. m \in Nat /\ DOMAIN s = 1 .. m /\ 1 <= m + 1 /\ m <= Len(s)
  BY LenProperties
<1>2. SubSeq(s, 1, Len(s)) = s
  BY SubSeqFull
<1> HIDE DEF m
<1>3. At(s, 1 .. m) = SubSeq(s, 1, m)
  BY <1>1, AtInterval
<1> QED
  BY <1>1, <1>2, <1>3 DEF m

\* So SplitsPartition holds of every workspace without empty rows.
LEMMA SplitsArePartitions ==
    ASSUME NEW P, state.items \in Seq(RowsOf(P))
    PROVE  SplitsPartition
<1> DEFINE items == state.items
           pages == FlattenSeq(items)
<1>1. items \in Seq(Seq(P)) /\ \A r \in DOMAIN items : items[r] # <<>>
  <2>1. RowsOf(P) \subseteq Seq(P)
    BY DEF RowsOf
  <2>2. \A r \in DOMAIN items : items[r] \in RowsOf(P)
    BY LenProperties, ElementOfSeq
  <2> QED
    BY <2>1, <2>2, SeqMonotonic DEF RowsOf
<1>2. pages \in Seq(P)
  BY <1>1, FlattenIs
<1>3. \A n \in 1 .. 3 : DividesInto(SplitEveryN(pages, n), pages, P)
  <2> HIDE DEF pages
  <2> QED BY <1>2, SplitEveryNIs
<1>4. /\ \A s \in SUBSET (1 .. 3) : DividesInto(SplitAtPositions(pages, s), pages, P)
      /\ \A s \in SUBSET (1 .. 3) : DividesInto(SplitAtPages(pages, s), pages, P)
  <2> HIDE DEF pages
  <2> QED BY <1>2, DividedIs DEF SplitAtPositions, SplitAtPages
<1>5. DividesInto(Separate(items), pages, P)
  <2> HIDE DEF pages
  <2>1. DividesInto([k \in DOMAIN pages |-> <<pages[k]>>], pages, P)
    BY <1>2, SeparateIs
  <2> QED
    BY <2>1 DEF Separate, pages
<1>6. DividesInto(Unite(items), pages, P)
  <2> HIDE DEF pages
  <2>1. CASE pages = <<>>
    <3>1. Unite(items) = <<>>
      BY <2>1 DEF Unite, pages
    <3>2. FlattenSeq(<<>>) = <<>>
      <4>1. Len(<<>>) = 0
        BY EmptySeq
      <4> QED
        BY <4>1 DEF FlattenSeq
    <3> QED
      BY <2>1, <3>1, <3>2, EmptySeq DEF DividesInto
  <2>2. CASE pages # <<>>
    <3>1. Unite(items) = <<pages>>
      BY <2>2 DEF Unite, pages
    <3>2. FlattenSeq(<<pages>>) = pages
      <4> DEFINE none == <<>>
      <4>1. none \in Seq(Seq(P))
        BY EmptySeq
      <4> HIDE DEF none
      <4> QED
        BY <1>2, <4>1, FlattenAppend
    <3>3. <<pages>> \in Seq(RowsOf(P))
      <4>1. pages \in RowsOf(P)
        BY <1>2, <2>2 DEF RowsOf
      <4> QED
        BY <4>1
    <3> QED
      BY <3>1, <3>2, <3>3 DEF DividesInto
  <2> QED
    BY <2>1, <2>2
<1>7. DividesInto(SeparateGrouped(items), pages, P)
  <2>1. {r \in DOMAIN items : items[r] # <<>>} = DOMAIN items
    BY <1>1
  <2>2. At(items, DOMAIN items) = items
    BY AtAll
  <2>3. SeparateGrouped(items) = items
    BY <2>1, <2>2 DEF SeparateGrouped
  <2> QED
    BY <2>3 DEF DividesInto
<1>8. \A weights \in PageSizes : /\ DividesInto(SplitBySize(pages, weights, 3), pages, P)
                              /\ Filled(SplitBySize(pages, weights, 3), weights, 3)
  <2> HIDE DEF pages
  <2> QED BY <1>2, SplitBySizeIs
<1> DEFINE splits == {SplitEveryN(pages, n) : n \in 1..3}
                    \cup {SplitAtPositions(pages, s) : s \in SUBSET (1..3)}
                    \cup {SplitAtPages(pages, s) : s \in SUBSET (1..3)}
                    \cup {Unite(items), Separate(items), SeparateGrouped(items)}
                    \cup {SplitBySize(pages, weights, 3) : weights \in PageSizes}
<1> HIDE DEF pages, items
<1>9. \A split \in splits : DividesInto(split, pages, P)
  BY <1>3, <1>4, <1>5, <1>6, <1>7, <1>8
<1> HIDE DEF splits
<1>10. \A split \in splits : FlattenSeq(split) = pages /\ \A d \in DOMAIN split : split[d] # <<>>
  <2> SUFFICES ASSUME NEW split \in splits
               PROVE  FlattenSeq(split) = pages /\ \A d \in DOMAIN split : split[d] # <<>>
    OBVIOUS
  <2>1. split \in Seq(RowsOf(P)) /\ FlattenSeq(split) = pages
    BY <1>9 DEF DividesInto
  <2>2. \A d \in DOMAIN split : split[d] \in RowsOf(P)
    BY <2>1, LenProperties, ElementOfSeq
  <2> QED
    BY <2>1, <2>2 DEF RowsOf
<1>11. ASSUME NEW weights \in PageSizes
       PROVE  LET split == SplitBySize(pages, weights, 3) IN
              \A d \in DOMAIN split :
                /\ Weight(split[d], weights) > 3 => Len(split[d]) = 1
                /\ d > 1 => Weight(Append(split[d - 1], split[d][1]), weights) > 3
  <2> DEFINE split == SplitBySize(pages, weights, 3)
  <2>1. split \in Seq(RowsOf(P)) /\ Filled(split, weights, 3)
    BY <1>8 DEF DividesInto
  <2>2. DOMAIN split = 1 .. Len(split)
    <3> HIDE DEF split
    <3> QED BY <2>1, LenProperties
  <2> HIDE DEF split
  <2>3. \A d \in DOMAIN split :
                /\ Weight(split[d], weights) > 3 => Len(split[d]) = 1
                /\ d > 1 => Weight(Append(split[d - 1], split[d][1]), weights) > 3
    BY <2>1, <2>2 DEF Filled
  <2> QED
    BY <2>3 DEF split
<1> QED
  BY <1>10, <1>11 DEF SplitsPartition, splits, pages, items

\* The other direction has the same elements.
LEMMA ReverseIs ==
    ASSUME NEW R, NEW s \in Seq(R)
    PROVE  Reverse(s) \in Seq(R) /\ Len(Reverse(s)) = Len(s)
<1> DEFINE n == Len(s)
<1>1. n \in Nat /\ \A i \in 1 .. n : s[i] \in R
  BY LenProperties, ElementOfSeq
<1>2. Reverse(s) = [i \in 1 .. n |-> s[(n - i) + 1]]
  BY DEF Reverse
<1> HIDE DEF n
<1>3. \A i \in 1 .. n : (n - i) + 1 \in 1 .. n
  BY <1>1
<1>4. \A i \in 1 .. n : s[(n - i) + 1] \in R
  BY <1>1, <1>3
<1>5. Reverse(s) \in [1 .. n -> R]
  BY <1>2, <1>4
<1>6. Reverse(s) \in Seq(R)
  BY <1>1, <1>5
<1>7. Len(Reverse(s)) = n
  BY <1>1, <1>5, <1>6, LenProperties
<1> QED
  BY <1>6, <1>7 DEF n

-----------------------------------------------------------------------------
(* The workspace: what the operations make of rows. *)

\* If the elements at the rows are in R, so is what is taken of them.
LEMMA AtWithin ==
    ASSUME NEW T, NEW s \in Seq(T), NEW rows \in SUBSET DOMAIN s, NEW R, \A r \in rows : s[r] \in R
    PROVE  At(s, rows) \in Seq(R)
<1> DEFINE n == Cardinality(rows)
           z == At(s, rows)
           A == Ascending(rows)
<1>1. /\ n \in Nat /\ z \in Seq(T) /\ Len(z) = n /\ A \in [1 .. n -> rows]
      /\ \A k \in 1 .. n : z[k] = s[A[k]]
  BY AtIs
<1> HIDE DEF n, z, A
<1>2. \A k \in 1 .. n : z[k] \in R
  BY <1>1
<1>3. z \in [1 .. n -> R]
  <2>1. z = [k \in 1 .. n |-> z[k]]
    BY <1>1, LenProperties
  <2> QED
    BY <1>2, <2>1
<1>4. z \in Seq(R)
  BY <1>1, <1>3
<1> QED
  BY <1>4 DEF z

\* The rows of pages, and all their pages.
LEMMA RowsOfPages ==
    ASSUME NEW P, NEW items \in Seq(RowsOf(P))
    PROVE  /\ items \in Seq(Seq(P))
           /\ \A r \in 1 .. Len(items) : items[r] \in RowsOf(P)
           /\ \A r \in 1 .. Len(items) : items[r] \in Seq(P) /\ items[r] # <<>>
<1>1. RowsOf(P) \subseteq Seq(P)
  BY DEF RowsOf
<1>2. items \in Seq(Seq(P))
  BY <1>1, SeqMonotonic
<1>4. \A r \in 1 .. Len(items) : items[r] \in RowsOf(P)
  BY LenProperties, ElementOfSeq
<1>5. \A r \in 1 .. Len(items) : items[r] \in Seq(P) /\ items[r] # <<>>
  BY <1>4 DEF RowsOf
<1> QED
  BY <1>2, <1>4, <1>5

\* Flattened, rows are a row.
LEMMA FlattenedIs ==
    ASSUME NEW P, NEW items \in Seq(RowsOf(P))
    PROVE  FlattenSeq(items) \in Seq(P) /\ (items # <<>> => FlattenSeq(items) \in RowsOf(P))
<1>1. Len(items) \in Nat /\ items \in Seq(Seq(P)) /\ \A r \in 1 .. Len(items) : items[r] # <<>>
  BY RowsOfPages, LenProperties
<1>2. FlattenSeq(items) \in Seq(P) /\ \A r \in 1 .. Len(items) : items[r] # <<>> => FlattenSeq(items) # <<>>
  BY <1>1, FlattenIs
<1>3. ASSUME items # <<>> PROVE FlattenSeq(items) # <<>>
  <2>1. Len(items) # 0
    BY <1>1, <1>3, EmptySeq
  <2>2. 1 \in 1 .. Len(items)
    BY <1>1, <2>1
  <2> QED
    BY <1>1, <1>2, <2>2
<1> QED
  BY <1>2, <1>3 DEF RowsOf

\* The first and the last of some rows.
LEMMA EndRows ==
    ASSUME NEW rows, rows \subseteq Nat, IsFiniteSet(rows), rows # {}
    PROVE  /\ (CHOOSE r \in rows : \A q \in rows : r <= q) \in rows
           /\ \A q \in rows : (CHOOSE r \in rows : \A p \in rows : r <= p) <= q
           /\ (CHOOSE r \in rows : \A q \in rows : r >= q) \in rows
<1>1. \E r \in rows : \A q \in rows : r <= q
  BY LeastNumber
<1>2. \E r \in rows : \A q \in rows : r >= q
  <2>1. rows \subseteq Int
    OBVIOUS
  <2>2. \E r \in rows : \A q \in rows : q <= r
    BY <2>1, GreatestNumber
  <2> QED
    BY <2>2
<1> QED
  BY <1>1, <1>2

\* Grouping: what is flattened is a row, and its place is within the others.
LEMMA GroupedIs ==
    ASSUME NEW P, NEW items \in Seq(RowsOf(P)), NEW rows \in SUBSET DOMAIN items, rows # {}
    PROVE  Grouped(items, rows) \in Seq(RowsOf(P))
<1> DEFINE R == RowsOf(P)
           D == DOMAIN items
           others == At(items, D \ rows)
           group == FlattenSeq(At(items, rows))
           first == CHOOSE r \in rows : \A q \in rows : r <= q
<1>1. Len(items) \in Nat /\ D = 1 .. Len(items)
  BY LenProperties
<1>2. At(items, rows) \in Seq(R) /\ At(items, rows) # <<>> /\ IsFiniteSet(rows) /\ rows \subseteq Nat
  <2> HIDE DEF R
  <2>1. items \in Seq(R)
    BY DEF R
  <2> QED
    BY <2>1, AtIs
<1>3. group \in R
  <2> DEFINE some == At(items, rows)
  <2>1. some \in Seq(RowsOf(P)) /\ some # <<>>
    BY <1>2
  <2> HIDE DEF some
  <2>2. FlattenSeq(some) \in RowsOf(P)
    BY <2>1, FlattenedIs
  <2> QED
    BY <2>2 DEF some
<1>4. first \in rows /\ \A q \in rows : first <= q
  BY <1>2, EndRows
<1> HIDE DEF first
<1>5. D \ rows \in SUBSET D /\ 1 .. (first - 1) \in SUBSET (D \ rows)
  <2>1. first \in Nat /\ first >= 1 /\ first <= Len(items)
    BY <1>1, <1>4
  <2>2. \A q \in 1 .. (first - 1) : q \in D /\ ~ (first <= q)
    BY <1>1, <2>1
  <2> QED
    BY <1>4, <2>2
<1>6. others \in Seq(R) /\ Len(others) = Cardinality(D \ rows) /\ IsFiniteSet(D \ rows) /\ Cardinality(D \ rows) \in Nat
  <2> DEFINE kept == D \ rows
  <2>1. kept \in SUBSET DOMAIN items /\ items \in Seq(R)
    OBVIOUS
  <2> HIDE DEF kept, R
  <2>2. At(items, kept) \in Seq(R) /\ Len(At(items, kept)) = Cardinality(kept) /\ IsFiniteSet(kept) /\ Cardinality(kept) \in Nat
    BY <2>1, AtIs
  <2> QED
    BY <2>2 DEF kept
<1>7. first - 1 \in 0 .. Len(others)
  <2> DEFINE m == first - 1
  <2>1. m \in Nat
    BY <1>1, <1>4
  <2>2. 1 .. m \in SUBSET (D \ rows)
    BY <1>5
  <2> HIDE DEF m
  <2>3. Cardinality(1 .. m) = m
    <3>1. Cardinality(1 .. m) = IF 1 <= m THEN m - 1 + 1 ELSE 0
      BY <2>1, FS_Interval
    <3> QED
      BY <2>1, <3>1
  <2>4. Cardinality(1 .. m) <= Cardinality(D \ rows)
    <3> DEFINE kept == D \ rows
               lower == 1 .. m
    <3>1. IsFiniteSet(kept) /\ lower \in SUBSET kept
      BY <1>6, <2>2
    <3> HIDE DEF kept, lower
    <3>2. Cardinality(lower) <= Cardinality(kept)
      BY <3>1, FS_Subset
    <3> QED
      BY <3>2 DEF kept, lower
  <2>5. m <= Len(others)
    BY <1>6, <2>3, <2>4
  <2> HIDE DEF others
  <2>6. Len(others) \in Nat
    BY <1>6
  <2>7. m \in 0 .. Len(others)
    BY <2>1, <2>5, <2>6
  <2> QED
    BY <2>7 DEF m
<1>8. <<group>> \in Seq(R)
  BY <1>3
<1>9. Grouped(items, rows) = Splice(others, first - 1, <<group>>)
  BY DEF Grouped, first
<1> HIDE DEF others, group
<1> DEFINE new == <<group>>
           place == first - 1
<1>10. new \in Seq(R) /\ place \in 0 .. Len(others)
  BY <1>7, <1>8
<1> HIDE DEF new, place, R
<1>11. Splice(others, place, new) \in Seq(R)
  BY <1>6, <1>10, SpliceIs
<1> QED
  BY <1>9, <1>11 DEF new, place, R

\* Ungrouping: every page of the rows is a row.
LEMMA UngroupedIs ==
    ASSUME NEW P, NEW items \in Seq(RowsOf(P)), NEW rows
    PROVE  Ungrouped(items, rows) \in Seq(RowsOf(P))
<1> DEFINE R == RowsOf(P)
           n == Len(items)
           Part(r) == IF r \in rows THEN [k \in DOMAIN items[r] |-> <<items[r][k]>>] ELSE <<items[r]>>
           parts == [r \in DOMAIN items |-> Part(r)]
<1>1. n \in Nat /\ DOMAIN items = 1 .. n
  BY LenProperties
<1>2. \A r \in 1 .. n : items[r] \in R /\ items[r] \in Seq(P)
  BY RowsOfPages
<1>3. ASSUME NEW r \in 1 .. n PROVE Part(r) \in Seq(R)
  <2> DEFINE row == items[r]
  <2>1. row \in R /\ row \in Seq(P)
    BY <1>2
  <2>2. Len(row) \in Nat /\ DOMAIN row = 1 .. Len(row) /\ \A k \in 1 .. Len(row) : row[k] \in P
    BY <2>1, LenProperties, ElementOfSeq
  <2>3. Part(r) = IF r \in rows THEN [k \in DOMAIN row |-> <<row[k]>>] ELSE <<row>>
    OBVIOUS
  <2> HIDE DEF row, Part
  <2>4. \A k \in 1 .. Len(row) : <<row[k]>> \in R
    <3> SUFFICES ASSUME NEW k \in 1 .. Len(row) PROVE <<row[k]>> \in R
      OBVIOUS
    <3>1. row[k] \in P
      BY <2>2
    <3>2. <<row[k]>> \in Seq(P) /\ Len(<<row[k]>>) = 1
      BY <3>1
    <3>3. Len(<<>>) = 0
      BY EmptySeq
    <3> QED
      BY <3>2, <3>3 DEF RowsOf
  <2> HIDE DEF R
  <2>5. [k \in DOMAIN row |-> <<row[k]>>] \in Seq(R)
    BY <2>2, <2>4
  <2>6. <<row>> \in Seq(R)
    BY <2>1
  <2> QED
    BY <2>3, <2>5, <2>6
<1>4. parts \in Seq(Seq(R))
  <2> DEFINE V == Seq(R)
  <2>1. \A r \in 1 .. n : Part(r) \in V
    BY <1>3
  <2> HIDE DEF V, Part, n
  <2>2. parts \in [1 .. n -> V]
    BY <1>1, <2>1
  <2>3. parts \in Seq(V)
    BY <1>1, <2>2
  <2> QED
    BY <2>3 DEF V
<1>5. Ungrouped(items, rows) = FlattenSeq(parts)
  BY DEF Ungrouped
<1> HIDE DEF parts, R
<1>6. FlattenSeq(parts) \in Seq(R)
  BY <1>4, FlattenIs
<1> QED
  BY <1>5, <1>6 DEF R

\* Clones are put behind the last of their rows.
LEMMA ClonedIs ==
    ASSUME NEW R, NEW items \in Seq(R), NEW rows \in SUBSET DOMAIN items, rows # {}
    PROVE  Cloned(items, rows) \in Seq(R)
<1> DEFINE last == CHOOSE r \in rows : \A q \in rows : r >= q
           new == At(items, rows)
<1>1. new \in Seq(R) /\ IsFiniteSet(rows) /\ rows \subseteq Nat
  BY AtIs
<1>2. last \in rows
  BY <1>1, EndRows
<1>3. Cloned(items, rows) = Splice(items, last, new)
  BY DEF Cloned
<1> HIDE DEF last, new
<1>4. last \in 0 .. Len(items)
  BY <1>2, LenProperties
<1> QED
  BY <1>1, <1>3, <1>4, SpliceIs

\* A drop keeps the rows rows, moved or copied.
LEMMA DroppedRows ==
    ASSUME NEW R, NEW items \in Seq(R), NEW rows \in SUBSET DOMAIN items, NEW before \in 0 .. Len(items),
           NEW move \in BOOLEAN
    PROVE  Dropped(items, rows, before, move) \in Seq(R)
<1> DEFINE new == At(items, rows)
           rest == Erased(items, rows)
           place == before - Cardinality({r \in rows : r <= before})
<1>1. new \in Seq(R)
  BY AtIs
<1>2. rest \in Seq(R)
  <2> DEFINE kept == DOMAIN items \ rows
  <2>1. kept \in SUBSET DOMAIN items
    OBVIOUS
  <2>2. rest = At(items, kept)
    BY ErasedIs
  <2> HIDE DEF kept
  <2> QED
    BY <2>1, <2>2, AtIs
<1>3. place \in 0 .. Len(rest)
  BY DroppedIs
<1>4. Dropped(items, rows, before, TRUE) = Splice(rest, place, new)
  BY DEF Dropped
<1>5. Dropped(items, rows, before, FALSE) = Splice(items, before, new)
  BY DEF Dropped
<1> HIDE DEF new, rest, place
<1>6. Splice(rest, place, new) \in Seq(R) /\ Splice(items, before, new) \in Seq(R)
  BY <1>1, <1>2, <1>3, SpliceIs
<1> QED
  BY <1>4, <1>5, <1>6

\* Other elements take the places of the rows.
LEMMA ReorderedIs ==
    ASSUME NEW R, NEW items \in Seq(R), NEW rows \in SUBSET DOMAIN items,
           NEW new \in Seq(R), Len(new) = Cardinality(rows)
    PROVE  Reordered(items, rows, new) \in Seq(R)
<1> DEFINE n == Len(items)
<1>1. n \in Nat /\ DOMAIN items = 1 .. n /\ \A r \in 1 .. n : items[r] \in R
  BY LenProperties, ElementOfSeq
<1>2. IsFiniteSet(rows) /\ rows \subseteq Nat
  BY AtIs
<1>3. \A r \in rows : Rank(rows, r) \in 1 .. Len(new)
  BY <1>2, Ranks
<1>4. \A r \in rows : new[Rank(rows, r)] \in R
  BY <1>3, ElementOfSeq
<1>5. Reordered(items, rows, new) = [r \in DOMAIN items |-> IF r \in rows THEN new[Rank(rows, r)] ELSE items[r]]
  BY DEF Reordered, Rank
<1> HIDE DEF n
<1>6. Reordered(items, rows, new) \in [1 .. n -> R]
  BY <1>1, <1>4, <1>5
<1> QED
  BY <1>1, <1>6

\* Removing takes rows to the trash, restoring takes them back.
LEMMA RemovedIs ==
    ASSUME NEW R, NEW items \in Seq(R), NEW trash \in Seq(R), NEW rows \in SUBSET DOMAIN items
    PROVE  Erased(items, rows) \in Seq(R) /\ trash \o Reverse(At(items, rows)) \in Seq(R)
<1> DEFINE gone == At(items, rows)
           kept == DOMAIN items \ rows
           back == Reverse(gone)
<1>1. gone \in Seq(R)
  BY AtIs
<1> HIDE DEF gone
<1>2. back \in Seq(R)
  BY <1>1, ReverseIs
<1> HIDE DEF back
<1>3. trash \o back \in Seq(R)
  BY <1>2, ConcatProperties
<1>4. Erased(items, rows) = At(items, kept) /\ kept \in SUBSET DOMAIN items
  BY ErasedIs
<1> HIDE DEF kept
<1>5. At(items, kept) \in Seq(R)
  BY <1>4, AtIs
<1> QED
  BY <1>3, <1>4, <1>5 DEF back, gone

\* A row by itself.
LEMMA OneRow ==
    ASSUME NEW P, NEW pages \in Seq(P), pages # <<>>
    PROVE  pages \in RowsOf(P) /\ <<pages>> \in Seq(RowsOf(P))
<1>1. pages \in RowsOf(P)
  BY DEF RowsOf
<1> QED
  BY <1>1

\* The pages at some places, of which there is one, are a row.
LEMMA RowAt ==
    ASSUME NEW P, NEW pages \in Seq(P), NEW places \in SUBSET DOMAIN pages
    PROVE  At(pages, places) \in Seq(P) /\ (places # {} => At(pages, places) \in RowsOf(P))
<1>1. At(pages, places) \in Seq(P) /\ (places # {} => At(pages, places) # <<>>)
  BY AtIs
<1> QED
  BY <1>1 DEF RowsOf

\* Pairs of pages, of which the last may be a single page.
LEMMA PairsAre ==
    ASSUME NEW P, NEW pages \in Seq(P)
    PROVE  Pairs(pages) \in Seq(RowsOf(P))
<1> DEFINE n == Len(pages)
           m == (n + 1) \div 2
           Two(k) == {2 * k - 1, 2 * k} \cap DOMAIN pages
<1>1. n \in Nat /\ DOMAIN pages = 1 .. n /\ m \in Nat
  BY LenProperties
<1>2. \A k \in 1 .. m : 2 * k - 1 \in 1 .. n
  BY <1>1
<1>3. \A k \in 1 .. m : Two(k) \in SUBSET DOMAIN pages /\ Two(k) # {}
  BY <1>1, <1>2
<1> HIDE DEF Two
<1>4. \A k \in 1 .. m : At(pages, Two(k)) \in RowsOf(P)
  BY <1>3, RowAt
<1>5. Pairs(pages) = [k \in 1 .. m |-> At(pages, Two(k))]
  BY DEF Pairs, Two
<1> DEFINE R == RowsOf(P)
<1> HIDE DEF R, m
<1>6. [k \in 1 .. m |-> At(pages, Two(k))] \in Seq(R)
  BY <1>1, <1>4 DEF R
<1> QED
  BY <1>5, <1>6 DEF R

\* The odd pages and the others.
LEMMA OddEvenIs ==
    ASSUME NEW P, NEW pages \in Seq(P)
    PROVE  OddEven(pages) \in Seq(RowsOf(P))
<1> DEFINE odd == {k \in DOMAIN pages : pages[k].page % 2 = 1}
           even == DOMAIN pages \ odd
           halves == <<At(pages, odd), At(pages, even)>>
           some == {k \in 1 .. 2 : halves[k] # <<>>}
<1>1. odd \in SUBSET DOMAIN pages /\ even \in SUBSET DOMAIN pages
  OBVIOUS
<1> HIDE DEF odd, even
<1>2. At(pages, odd) \in Seq(P) /\ At(pages, even) \in Seq(P)
  BY <1>1, RowAt
<1>3. halves \in Seq(Seq(P)) /\ DOMAIN halves = 1 .. 2 /\ halves[1] \in Seq(P) /\ halves[2] \in Seq(P)
  BY <1>2
<1>4. OddEven(pages) = At(halves, some)
  BY DEF OddEven, odd, even
<1> HIDE DEF halves
<1>5. some \in SUBSET DOMAIN halves
  BY <1>3
<1>6. \A r \in some : halves[r] \in RowsOf(P)
  <2>1. \A r \in 1 .. 2 : halves[r] \in Seq(P)
    BY <1>3
  <2> QED
    BY <2>1 DEF RowsOf
<1> HIDE DEF some
<1>7. At(halves, some) \in Seq(RowsOf(P))
  <2> DEFINE R == RowsOf(P)
  <2>1. \A r \in some : halves[r] \in R
    BY <1>6
  <2> HIDE DEF R
  <2>2. At(halves, some) \in Seq(R)
    BY <1>3, <1>5, <2>1, AtWithin
  <2> QED
    BY <2>2 DEF R
<1> QED
  BY <1>4, <1>7

\* The pages of two documents by turns are a row.
LEMMA AlternatingIs ==
    ASSUME NEW P, NEW pages \in Seq(P), pages # <<>>, NEW reversed \in BOOLEAN
    PROVE  Alternating(pages, reversed) \in Seq(RowsOf(P))
<1> DEFINE n == Len(pages)
           first == {k \in DOMAIN pages : pages[k].source = pages[1].source}
           others == DOMAIN pages \ first
           one == At(pages, first)
           rest == At(pages, others)
           other == IF reversed THEN Reverse(rest) ELSE rest
           Both(k) == At(one, {k} \cap DOMAIN one) \o At(other, {k} \cap DOMAIN other)
           turns == [k \in DOMAIN pages |-> Both(k)]
<1>1. n \in Nat /\ n # 0 /\ DOMAIN pages = 1 .. n /\ 1 \in 1 .. n
  <2>1. n \in Nat /\ n # 0 /\ DOMAIN pages = 1 .. n
    BY LenProperties, EmptySeq
  <2> QED
    BY <2>1
<1>2. first \in SUBSET DOMAIN pages /\ others \in SUBSET DOMAIN pages /\ first # {}
  BY <1>1
<1>3. Alternating(pages, reversed) = <<FlattenSeq(turns)>>
  BY DEF Alternating
<1> HIDE DEF first, others
<1>4. one \in Seq(P) /\ one # <<>> /\ rest \in Seq(P)
  BY <1>2, AtIs
<1>5. other \in Seq(P)
  <2> HIDE DEF rest
  <2> QED
    BY <1>4, ReverseIs
<1> HIDE DEF one, rest, other
<1>6. ASSUME NEW k \in 1 .. n PROVE Both(k) \in Seq(P)
  <2> DEFINE a == {k} \cap DOMAIN one
             b == {k} \cap DOMAIN other
  <2>1. a \in SUBSET DOMAIN one /\ b \in SUBSET DOMAIN other
    OBVIOUS
  <2>2. Both(k) = At(one, a) \o At(other, b)
    OBVIOUS
  <2> HIDE DEF a, b, Both
  <2>3. At(one, a) \in Seq(P) /\ At(other, b) \in Seq(P)
    BY <1>4, <1>5, <2>1, RowAt
  <2> QED
    BY <2>2, <2>3, ConcatProperties
<1>7. Both(1) # <<>>
  <2> DEFINE a == {1} \cap DOMAIN one
             b == {1} \cap DOMAIN other
  <2>1. Len(one) \in Nat /\ Len(one) # 0 /\ DOMAIN one = 1 .. Len(one)
    BY <1>4, LenProperties, EmptySeq
  <2>2. 1 \in DOMAIN one
    BY <2>1
  <2>3. a \in SUBSET DOMAIN one /\ b \in SUBSET DOMAIN other /\ a # {}
    BY <2>2
  <2>4. Both(1) = At(one, a) \o At(other, b)
    OBVIOUS
  <2> HIDE DEF a, b, Both
  <2>5. At(one, a) \in Seq(P) /\ At(one, a) # <<>> /\ At(other, b) \in Seq(P)
    BY <1>4, <1>5, <2>3, AtIs
  <2> DEFINE x == At(one, a)
             y == At(other, b)
  <2>6. x \in Seq(P) /\ x # <<>> /\ y \in Seq(P)
    BY <2>5
  <2> HIDE DEF x, y
  <2>7. Len(x) \in Nat /\ Len(x) # 0 /\ Len(y) \in Nat /\ Len(x \o y) = Len(x) + Len(y)
    BY <2>6, LenProperties, EmptySeq, ConcatProperties
  <2>8. Len(x \o y) # 0
    BY <2>7
  <2>9. Len(<<>>) = 0
    BY EmptySeq
  <2> QED
    BY <2>4, <2>8, <2>9 DEF x, y
<1>8. turns \in Seq(Seq(P)) /\ Len(turns) = n /\ turns[1] # <<>>
  <2> DEFINE V == Seq(P)
  <2>1. \A k \in 1 .. n : Both(k) \in V
    BY <1>6
  <2>2. turns[1] = Both(1)
    BY <1>1
  <2> HIDE DEF V, Both, n
  <2>3. turns \in [1 .. n -> V]
    BY <1>1, <2>1
  <2> HIDE DEF turns
  <2>4. turns \in Seq(V)
    BY <1>1, <2>3
  <2>5. Len(turns) = n
    BY <1>1, <2>3, <2>4, LenProperties
  <2> QED
    BY <1>7, <2>2, <2>4, <2>5 DEF V
<1> HIDE DEF turns, n
<1> DEFINE row == FlattenSeq(turns)
<1>9. row \in Seq(P) /\ row # <<>>
  <2>1. FlattenSeq(turns) \in Seq(P) /\ \A i \in 1 .. Len(turns) : turns[i] # <<>> => FlattenSeq(turns) # <<>>
    BY <1>8, FlattenIs
  <2> QED
    BY <1>1, <1>8, <2>1
<1> HIDE DEF row
<1>10. <<row>> \in Seq(RowsOf(P))
  BY <1>9, OneRow
<1> QED
  BY <1>3, <1>10 DEF row

\* Pages in another order are pages.
LEMMA PermutedIs ==
    ASSUME NEW P, NEW pages \in Seq(P), NEW keys, DOMAIN keys = DOMAIN pages, NEW descending,
           NEW o \in Sorting(keys, descending)
    PROVE  /\ [k \in DOMAIN pages |-> pages[o[k]]] \in Seq(P)
           /\ Len([k \in DOMAIN pages |-> pages[o[k]]]) = Len(pages)
<1> DEFINE n == Len(pages)
           new == [k \in DOMAIN pages |-> pages[o[k]]]
<1>1. n \in Nat /\ DOMAIN pages = 1 .. n /\ \A k \in 1 .. n : pages[k] \in P
  BY LenProperties, ElementOfSeq
<1>2. o \in [DOMAIN pages -> DOMAIN pages]
  BY DEF Sorting
<1> HIDE DEF n
<1>3. \A k \in 1 .. n : pages[o[k]] \in P
  BY <1>1, <1>2
<1>4. new \in [1 .. n -> P]
  BY <1>1, <1>3
<1> HIDE DEF new
<1>5. new \in Seq(P)
  BY <1>1, <1>4
<1>6. Len(new) = n
  BY <1>1, <1>4, <1>5, LenProperties
<1> QED
  BY <1>5, <1>6 DEF new, n

\* Whatever the way of regrouping, the new rows are rows of the same kind of pages.
LEMMA RegroupedIs ==
    ASSUME NEW P, NEW items \in Seq(RowsOf(P)), NEW rows \in SUBSET DOMAIN items, rows # {},
           NEW new \in RegroupedRows(items, rows)
    PROVE  new \in Seq(RowsOf(P))
<1> DEFINE pages == Extracted(items, rows)
           keys == [k \in DOMAIN pages |-> pages[k].page]
           In(o) == [k \in DOMAIN pages |-> pages[o[k]]]
           back == Reverse(pages)
           taken == At(items, rows)
<1>1. pages \in Seq(P) /\ pages # <<>>
  <2>1. items \in Seq(Seq(P))
    BY RowsOfPages
  <2>2. pages = FlattenSeq(taken)
    BY <2>1, ExtractedIs
  <2>3. taken \in Seq(RowsOf(P)) /\ taken # <<>>
    BY AtIs
  <2> HIDE DEF taken, pages
  <2>4. FlattenSeq(taken) \in RowsOf(P)
    BY <2>3, FlattenedIs
  <2> QED
    BY <2>2, <2>4 DEF RowsOf
<1>2. \/ new = Pairs(pages) \/ new = <<back>> \/ new = OddEven(pages)
      \/ \E o \in Sorting(keys, FALSE), breaks \in Outlines : new = Chapters(In(o), breaks)
      \/ \E reversed \in BOOLEAN : new = Alternating(pages, reversed)
  <2> DEFINE Ordered == {In(o) : o \in Sorting(keys, FALSE)}
             chapters == {Chapters(pp, breaks) : pp \in Ordered, breaks \in Outlines}
             turns == {Alternating(pages, reversed) : reversed \in BOOLEAN}
  <2>1. new \in {Pairs(pages), <<back>>} \cup {OddEven(pages)} \cup chapters \cup turns
    <3> DEFINE only == DocumentOnly(items, rows)
               documents == Sources(items, rows, "document")
    <3>1. RegroupedRows(items, rows) =
             {Pairs(pages), <<back>>} \cup (IF only THEN {OddEven(pages)} ELSE {})
                 \cup (IF only /\ Cardinality(documents) = 1 THEN chapters ELSE {})
                 \cup (IF only /\ Cardinality(documents) = 2 THEN turns ELSE {})
      BY DEF RegroupedRows
    <3> HIDE DEF only, documents, chapters, turns, pages, back
    <3> QED
      BY <3>1
  <2> HIDE DEF pages, back
  <2>2. new \in chapters => \E o \in Sorting(keys, FALSE), breaks \in Outlines : new = Chapters(In(o), breaks)
    <3> HIDE DEF In, keys, chapters
    <3> SUFFICES ASSUME new \in chapters
                 PROVE  \E o \in Sorting(keys, FALSE), breaks \in Outlines : new = Chapters(In(o), breaks)
      OBVIOUS
    <3>1. PICK pp \in Ordered, breaks \in Outlines : new = Chapters(pp, breaks)
      <4> HIDE DEF Ordered
      <4> QED
        BY DEF chapters
    <3>2. PICK o \in Sorting(keys, FALSE) : pp = In(o)
      OBVIOUS
    <3> QED
      BY <3>1, <3>2
  <2> HIDE DEF chapters
  <2> QED
    BY <2>1, <2>2
<1> HIDE DEF pages
<1>3. CASE new = Pairs(pages)
  BY <1>1, <1>3, PairsAre
<1>4. CASE new = <<back>>
  <2>1. Len(back) = Len(pages) /\ back \in Seq(P)
    BY <1>1, ReverseIs
  <2> HIDE DEF back
  <2>2. back # <<>>
    BY <1>1, <2>1, LenProperties, EmptySeq
  <2> QED
    BY <1>4, <2>1, <2>2, OneRow
<1>5. CASE new = OddEven(pages)
  BY <1>1, <1>5, OddEvenIs
<1>6. CASE \E o \in Sorting(keys, FALSE), breaks \in Outlines : new = Chapters(In(o), breaks)
  <2>1. PICK o \in Sorting(keys, FALSE), breaks \in Outlines : new = Chapters(In(o), breaks)
    BY <1>6
  <2>2. DOMAIN keys = DOMAIN pages
    OBVIOUS
  <2> DEFINE other == In(o)
  <2> HIDE DEF keys
  <2>3. other \in Seq(P)
    BY <1>1, <2>1, <2>2, PermutedIs
  <2>4. new = Chapters(other, breaks)
    BY <2>1
  <2> HIDE DEF other
  <2>5. new = Divided(other, {i \in DOMAIN other : other[i].page \in breaks})
    BY <2>4 DEF Chapters
  <2>6. DividesInto(new, other, P)
    BY <2>3, <2>5, DividedIs
  <2> QED
    BY <2>6 DEF DividesInto
<1>7. CASE \E reversed \in BOOLEAN : new = Alternating(pages, reversed)
  BY <1>1, <1>7, AlternatingIs
<1> QED
  BY <1>2, <1>3, <1>4, <1>5, <1>6, <1>7

\* The last page of a row.
LEMMA LastPage ==
    ASSUME NEW P, NEW items \in Seq(RowsOf(P)), NEW r \in DOMAIN items
    PROVE  Last(items[r]) \in P
<1> DEFINE row == items[r]
<1>1. row \in Seq(P) /\ row # <<>>
  <2>1. r \in 1 .. Len(items)
    BY LenProperties
  <2> QED
    BY <2>1, RowsOfPages
<1> HIDE DEF row
<1>2. Len(row) \in Nat /\ Len(row) # 0
  BY <1>1, LenProperties, EmptySeq
<1>3. Len(row) \in 1 .. Len(row)
  BY <1>2
<1>4. Last(row) \in P
  BY <1>1, <1>3, ElementOfSeq DEF Last
<1> QED
  BY <1>4 DEF row

\* An empty page is a page, whatever was loaded, and a row by itself.
LEMMA EmptyPageIs ==
    ASSUME NEW documents, NEW images, NEW turn \in Int
    PROVE  /\ EmptyPage(turn) \in PagesOf(documents, images)
           /\ <<<<EmptyPage(turn)>>>> \in Seq(RowsOf(PagesOf(documents, images)))
<1> DEFINE P == PagesOf(documents, images)
           page == EmptyPage(turn)
           row == <<page>>
<1>1. page \in P
  BY DEF EmptyPage, PagesOf, Pages
<1> HIDE DEF P, page
<1>2. row \in Seq(P) /\ Len(row) = 1
  BY <1>1
<1> HIDE DEF row
<1>3. row # <<>>
  BY <1>2, EmptySeq
<1>4. <<row>> \in Seq(RowsOf(P))
  BY <1>2, <1>3, OneRow
<1> QED
  BY <1>1, <1>4 DEF P, page, row

\* An empty page behind a row, turned like the last page of it.
LEMMA EmptyPageBehind ==
    ASSUME NEW documents, NEW images, NEW R, R = RowsOf(PagesOf(documents, images)),
           NEW x \in Seq(R), NEW row \in 1 .. Len(x)
    PROVE  /\ Splice(x, row, <<<<EmptyPage(Last(x[row]).turn)>>>>) \in Seq(R)
           /\ Len(Splice(x, row, <<<<EmptyPage(Last(x[row]).turn)>>>>)) = Len(x) + 1
<1> DEFINE P == PagesOf(documents, images)
           last == Last(x[row])
           turn == last.turn
           new == <<<<EmptyPage(turn)>>>>
<1>1. last \in P
  <2>1. row \in DOMAIN x
    BY LenProperties
  <2> HIDE DEF P
  <2>2. x \in Seq(RowsOf(P))
    BY DEF P
  <2> QED
    BY <2>1, <2>2, LastPage
<1>2. turn \in Int
  <2> HIDE DEF last
  <2> QED
    BY <1>1 DEF PagesOf, Pages
<1> HIDE DEF turn
<1>3. new \in Seq(R)
  BY <1>2, EmptyPageIs
<1>4. Len(new) = 1
  OBVIOUS
<1>5. row \in 0 .. Len(x)
  BY LenProperties
<1> HIDE DEF new, P
<1>6. Splice(x, row, new) \in Seq(R) /\ Len(Splice(x, row, new)) = Len(x) + 1
  BY <1>3, <1>4, <1>5, SpliceIs
<1> QED
  BY <1>6 DEF new, turn

\* Empty pages are rows of their own between the rows there are.
LEMMA WithEmptyPagesIs ==
    ASSUME NEW documents, NEW images, NEW R, R = RowsOf(PagesOf(documents, images)),
           NEW items \in Seq(R), NEW rows \in SUBSET DOMAIN items
    PROVE  WithEmptyPages(items, rows) \in Seq(R)
<1>1. CASE rows = {}
  <2> DEFINE turn == IF items = <<>> THEN 0 ELSE Last(Last(items)).turn
             page == EmptyPage(turn)
             P == PagesOf(documents, images)
  <2>1. turn \in Int
    <3>1. CASE items = <<>>
      BY <3>1
    <3>2. CASE items # <<>>
      <4>1. Len(items) \in Nat /\ Len(items) # 0 /\ DOMAIN items = 1 .. Len(items)
        BY <3>2, LenProperties, EmptySeq
      <4>2. Len(items) \in DOMAIN items
        BY <4>1
      <4> HIDE DEF P
      <4>3. items \in Seq(RowsOf(P))
        BY DEF P
      <4> DEFINE last == Last(items[Len(items)])
      <4>4. last \in P
        BY <4>2, <4>3, LastPage
      <4> HIDE DEF last
      <4>5. last.turn \in Int
        BY <4>4 DEF P, PagesOf, Pages
      <4>6. Last(items) = items[Len(items)]
        BY DEF Last
      <4> QED
        BY <3>2, <4>5, <4>6 DEF last
    <3> QED
      BY <3>1, <3>2
  <2> HIDE DEF turn
  <2> DEFINE rest == <<<<page>>>>
  <2>2. rest \in Seq(R) /\ Len(rest) = 1 /\ rest[1] = <<page>>
    BY <2>1, EmptyPageIs
  <2> HIDE DEF rest
  <2>3. rest[1] \in R
    BY <2>2, ElementOfSeq
  <2>4. Append(items, <<page>>) \in Seq(R)
    <3> HIDE DEF page
    <3> DEFINE row == <<page>>
    <3>1. row \in R
      BY <2>2, <2>3
    <3> HIDE DEF row
    <3>2. Append(items, row) \in Seq(R)
      BY <3>1, AppendProperties
    <3> QED
      BY <3>2 DEF row
  <2>5. WithEmptyPages(items, rows) = Append(items, <<page>>)
    BY <1>1 DEF WithEmptyPages, turn
  <2> QED
    BY <2>4, <2>5
<1>2. CASE rows # {}
  <2> DEFINE n == Cardinality(rows)
             o == Descending(rows)
             V == {x \in Seq(R) : Len(x) >= Len(items)}
             New(x, row) == Splice(x, row, <<<<EmptyPage(Last(x[row]).turn)>>>>)
             H == [k \in 1 .. n |-> [x \in V |-> New(x, o[k])]]
             Fits(u) == u = [s \in SUBSET DOMAIN o |->
                                IF s = {} THEN items
                                ELSE New(u[s \ {Max(s)}], o[Max(s)])]
             w == CHOOSE u : Fits(u)
  <2>1. WithEmptyPages(items, rows) = w[DOMAIN o]
    BY <1>2 DEF WithEmptyPages, FoldLeft, MapThenFoldSet
  <2>2. n \in Nat /\ o \in [1 .. n -> rows]
    <3>1. IsFiniteSet(rows) /\ rows \subseteq Nat
      BY AtIs
    <3> QED
      BY <3>1, DescendingIs
  <2>3. DOMAIN o = 1 .. n /\ \A k \in 1 .. n : o[k] \in 1 .. Len(items)
    BY <2>2, LenProperties
  <2> HIDE DEF o, n
  <2>4. ASSUME NEW x \in V, NEW k \in 1 .. n PROVE New(x, o[k]) \in V
    <3> DEFINE row == o[k]
    <3>1. x \in Seq(R) /\ Len(x) \in Nat /\ Len(items) \in Nat /\ Len(x) >= Len(items)
      BY LenProperties
    <3>2. row \in 1 .. Len(x)
      BY <2>3, <3>1
    <3> HIDE DEF row
    <3>3. New(x, row) \in Seq(R) /\ Len(New(x, row)) = Len(x) + 1
      BY <3>1, <3>2, EmptyPageBehind
    <3> HIDE DEF New
    <3>4. New(x, row) \in V
      BY <3>1, <3>3
    <3> QED
      BY <3>4 DEF row
  <2>5. items \in V
    BY LenProperties
  <2>6. H \in [1 .. n -> [V -> V]]
    <3> HIDE DEF V, New
    <3>1. \A k \in 1 .. n : [x \in V |-> New(x, o[k])] \in [V -> V]
      BY <2>4
    <3> QED
      BY <3>1
  <2> HIDE DEF V, New
  <2>7. \A k \in 1 .. n : \A x \in V : H[k][x] = New(x, o[k])
    OBVIOUS
  <2> HIDE DEF H
  <2>8. PICK g : FoldOf(g, n, V, items, H)
    BY <2>2, <2>5, <2>6, Folding
  <2>9. \A s \in SUBSET (1 .. n) : s # {} => Max(s) \in 1 .. n /\ s \ {Max(s)} \in SUBSET (1 .. n)
    BY <2>2, LargestOne
  <2>10. Fits(g)
    <3>1. \A s \in SUBSET (1 .. n) : g[s] = IF s = {} THEN items ELSE New(g[s \ {Max(s)}], o[Max(s)])
      BY <2>7, <2>8, <2>9 DEF FoldOf
    <3> QED
      BY <2>3, <2>8, <3>1 DEF FoldOf
  <2>11. w = CHOOSE u : Fits(u)
    OBVIOUS
  <2>12. Fits(w)
    <3> HIDE DEF Fits, w
    <3> QED BY <2>10, <2>11
  <2> HIDE DEF w
  <2>13. FoldOf(w, n, V, items, H)
    <3>1. w = [s \in SUBSET (1 .. n) |-> w[s]] /\ w[{}] = items
      BY <2>3, <2>12
    <3>2. ASSUME NEW s \in SUBSET (1 .. n), s # {}, w[s \ {Max(s)}] \in V
          PROVE  w[s] = H[Max(s)][w[s \ {Max(s)}]]
      BY <2>3, <2>7, <2>9, <2>12, <3>2
    <3> HIDE DEF Fits
    <3>3. Accumulates(w, n, V, items, H)
      BY <3>1, <3>2 DEF Accumulates
    <3> QED
      BY <2>2, <2>5, <2>6, <3>3, IsFold
  <2>14. w[1 .. n] \in V
    BY <2>13 DEF FoldOf
  <2> QED
    BY <2>1, <2>3, <2>14 DEF V
<1> QED
  BY <1>1, <1>2

-----------------------------------------------------------------------------
(* The workspace: what is loaded. *)

\* Rows of fewer pages are rows.
LEMMA RowsWithin ==
    ASSUME NEW P, NEW Q, P \subseteq Q
    PROVE  RowsOf(P) \subseteq RowsOf(Q) /\ Seq(RowsOf(P)) \subseteq Seq(RowsOf(Q))
<1>1. Seq(P) \subseteq Seq(Q)
  BY SeqMonotonic
<1>2. RowsOf(P) \subseteq RowsOf(Q)
  BY <1>1 DEF RowsOf
<1> QED
  BY <1>2, SeqMonotonic

\* What is loaded, and rows of it, is a workspace.
LEMMA WorkspaceOf ==
    ASSUME NEW items, NEW trash, NEW documents \in Loaded, NEW images \in Nat,
           items \in Seq(RowsOf(PagesOf(documents, images))), trash \in Seq(RowsOf(PagesOf(documents, images)))
    PROVE  [items |-> items, trash |-> trash, documents |-> documents, images |-> images] \in Workspace
<1> DEFINE s == [items |-> items, trash |-> trash, documents |-> documents, images |-> images]
           P == PagesOf(documents, images)
<1>1. Seq(RowsOf(P)) \subseteq Seq(RowsOf(Pages))
  <2>1. P \subseteq Pages
    BY DEF PagesOf
  <2> HIDE DEF P
  <2> QED
    BY <2>1, RowsWithin
<1>2. s.items = items /\ s.trash = trash /\ s.documents = documents /\ s.images = images
  OBVIOUS
<1>3. items \in Seq(RowsOf(P)) /\ trash \in Seq(RowsOf(P))
  OBVIOUS
<1>4. s \in [items : Seq(RowsOf(Pages)), trash : Seq(RowsOf(Pages)), documents : Loaded, images : Nat]
  <2> HIDE DEF P
  <2> QED
    BY <1>1, <1>3
<1>5. \A rows \in {s.items, s.trash} : rows \in Seq(RowsOf(PagesOf(s.documents, s.images)))
  <2> HIDE DEF s
  <2> QED
    BY <1>2, <1>3
<1> HIDE DEF s
<1>6. s \in Workspace
  BY <1>4, <1>5 DEF Workspace
<1> QED
  BY <1>6 DEF s

\* The parts of a workspace.
LEMMA WorkspaceHolds ==
    ASSUME NEW s \in Workspace
    PROVE  /\ s = [items |-> s.items, trash |-> s.trash, documents |-> s.documents, images |-> s.images]
           /\ s.documents \in Loaded /\ s.images \in Nat
           /\ s.items \in Seq(RowsOf(PagesOf(s.documents, s.images)))
           /\ s.trash \in Seq(RowsOf(PagesOf(s.documents, s.images)))
           /\ s.items \in Seq(RowsOf(Pages))
<1>1. s \in [items : Seq(RowsOf(Pages)), trash : Seq(RowsOf(Pages)), documents : Loaded, images : Nat]
  BY DEF Workspace
<1>2. \A rows \in {s.items, s.trash} : rows \in Seq(RowsOf(PagesOf(s.documents, s.images)))
  BY DEF Workspace
<1> QED
  BY <1>1, <1>2

\* A workspace with other rows of what it has loaded.
LEMMA WithRows ==
    ASSUME NEW s \in Workspace, NEW items \in Seq(RowsOf(PagesOf(s.documents, s.images)))
    PROVE  [s EXCEPT !.items = items] \in Workspace
<1> DEFINE documents == s.documents
           images == s.images
           trash == s.trash
<1>1. documents \in Loaded /\ images \in Nat /\ trash \in Seq(RowsOf(PagesOf(documents, images)))
      /\ s = [items |-> s.items, trash |-> trash, documents |-> documents, images |-> images]
  BY WorkspaceHolds
<1>2. [s EXCEPT !.items = items] = [items |-> items, trash |-> trash, documents |-> documents, images |-> images]
  BY <1>1
<1>3. items \in Seq(RowsOf(PagesOf(documents, images)))
  OBVIOUS
<1> HIDE DEF documents, images, trash
<1>4. [items |-> items, trash |-> trash, documents |-> documents, images |-> images] \in Workspace
  BY <1>1, <1>3, WorkspaceOf
<1> QED
  BY <1>2, <1>4

\* A workspace with other rows and another trash.
LEMMA WithRowsAndTrash ==
    ASSUME NEW s \in Workspace, NEW items \in Seq(RowsOf(PagesOf(s.documents, s.images))),
           NEW trash \in Seq(RowsOf(PagesOf(s.documents, s.images)))
    PROVE  [s EXCEPT !.items = items, !.trash = trash] \in Workspace
<1> DEFINE documents == s.documents
           images == s.images
<1>1. documents \in Loaded /\ images \in Nat
      /\ s = [items |-> s.items, trash |-> s.trash, documents |-> documents, images |-> images]
  BY WorkspaceHolds
<1>2. [s EXCEPT !.items = items, !.trash = trash]
        = [items |-> items, trash |-> trash, documents |-> documents, images |-> images]
  <2>1. [s EXCEPT !.items = items] =
           [items |-> items, trash |-> s.trash, documents |-> documents, images |-> images]
    BY <1>1
  <2>2. [s EXCEPT !.items = items, !.trash = trash] = [[s EXCEPT !.items = items] EXCEPT !.trash = trash]
    OBVIOUS
  <2>3. [[items |-> items, trash |-> s.trash, documents |-> documents, images |-> images] EXCEPT !.trash = trash]
           = [items |-> items, trash |-> trash, documents |-> documents, images |-> images]
    OBVIOUS
  <2> HIDE DEF documents, images
  <2> QED
    BY <2>1, <2>2, <2>3
<1>3. items \in Seq(RowsOf(PagesOf(documents, images))) /\ trash \in Seq(RowsOf(PagesOf(documents, images)))
  OBVIOUS
<1> HIDE DEF documents, images
<1>4. [items |-> items, trash |-> trash, documents |-> documents, images |-> images] \in Workspace
  BY <1>1, <1>3, WorkspaceOf
<1> QED
  BY <1>2, <1>4

\* Rotated pages are pages of the same documents and images.
LEMMA TurnedIs ==
    ASSUME NEW documents, NEW images, NEW R, R = RowsOf(PagesOf(documents, images)),
           NEW items \in Seq(R), NEW rows, NEW turn \in Int
    PROVE  Turned(items, rows, turn) \in Seq(R) /\ Unturned(items, rows) \in Seq(R)
<1> DEFINE P == PagesOf(documents, images)
           n == Len(items)
           One(r) == IF r \notin rows THEN items[r]
                     ELSE [k \in DOMAIN items[r] |-> [items[r][k] EXCEPT !.turn = (@ + turn) % 4]]
           None(r) == IF r \notin rows THEN items[r]
                      ELSE [k \in DOMAIN items[r] |-> [items[r][k] EXCEPT !.turn = 0]]
<1>1. n \in Nat /\ DOMAIN items = 1 .. n
  BY LenProperties
<1>2. ASSUME NEW p \in P PROVE [p EXCEPT !.turn = (@ + turn) % 4] \in P /\ [p EXCEPT !.turn = 0] \in P
  <2>1. p \in Pages /\ p.turn \in Int
    BY DEF PagesOf, Pages
  <2>2. (p.turn + turn) % 4 \in Int
    BY <2>1
  <2>3. ASSUME NEW t \in Int PROVE [p EXCEPT !.turn = t] \in P
    BY <2>1 DEF PagesOf, Pages
  <2> QED
    BY <2>2, <2>3
<1>3. ASSUME NEW r \in 1 .. n PROVE One(r) \in R /\ None(r) \in R
  <2> DEFINE row == items[r]
             one == [k \in DOMAIN row |-> [row[k] EXCEPT !.turn = (@ + turn) % 4]]
             none == [k \in DOMAIN row |-> [row[k] EXCEPT !.turn = 0]]
  <2>1. row \in R /\ row \in Seq(P) /\ row # <<>>
    <3> HIDE DEF P
    <3>1. items \in Seq(RowsOf(P))
      BY DEF P
    <3>2. \A q \in 1 .. Len(items) : items[q] \in RowsOf(P) /\ items[q] \in Seq(P) /\ items[q] # <<>>
      BY <3>1, RowsOfPages
    <3> QED
      BY <3>2 DEF P
  <2>2. One(r) = (IF r \notin rows THEN row ELSE one) /\ None(r) = (IF r \notin rows THEN row ELSE none)
    OBVIOUS
  <2> HIDE DEF row, P, One, None
  <2>3. Len(row) \in Nat /\ Len(row) # 0 /\ DOMAIN row = 1 .. Len(row) /\ \A k \in 1 .. Len(row) : row[k] \in P
    BY <2>1, LenProperties, ElementOfSeq, EmptySeq
  <2>4. one \in [1 .. Len(row) -> P] /\ none \in [1 .. Len(row) -> P]
    BY <1>2, <2>3
  <2> HIDE DEF one, none
  <2>5. one \in Seq(P) /\ none \in Seq(P) /\ Len(one) = Len(row) /\ Len(none) = Len(row)
    BY <2>3, <2>4
  <2>6. one # <<>> /\ none # <<>>
    BY <2>3, <2>5, EmptySeq
  <2>7. one \in RowsOf(P) /\ none \in RowsOf(P)
    BY <2>5, <2>6 DEF RowsOf
  <2> QED
    BY <2>1, <2>2, <2>7 DEF P
<1>4. Turned(items, rows, turn) = [r \in 1 .. n |-> One(r)] /\ Unturned(items, rows) = [r \in 1 .. n |-> None(r)]
  BY <1>1 DEF Turned, Unturned
<1> HIDE DEF One, None, n
<1>5. [r \in 1 .. n |-> One(r)] \in Seq(R) /\ [r \in 1 .. n |-> None(r)] \in Seq(R)
  BY <1>1, <1>3
<1> QED
  BY <1>4, <1>5

\* What more is loaded takes no page away.
LEMMA MorePages ==
    ASSUME NEW documents, NEW more, NEW images \in Nat, NEW also \in Nat, images <= also,
           \A d \in DOMAIN documents : d \in DOMAIN more /\ more[d] = documents[d]
    PROVE  /\ PagesOf(documents, images) \subseteq PagesOf(more, also)
           /\ Seq(RowsOf(PagesOf(documents, images))) \subseteq Seq(RowsOf(PagesOf(more, also)))
<1> DEFINE P == PagesOf(documents, images)
           Q == PagesOf(more, also)
<1>1. ASSUME NEW p \in P PROVE p \in Q
  <2>1. p \in Pages
    BY DEF PagesOf
  <2>2. p.type = "document" => p.source \in DOMAIN documents /\ p.page \in 1 .. documents[p.source].count
    BY DEF PagesOf
  <2>3. p.type = "document" => p.source \in DOMAIN more /\ p.page \in 1 .. more[p.source].count
    BY <2>2
  <2>4. p.type = "image" => p.source \in 1 .. images
    BY DEF PagesOf
  <2>5. p.type = "image" => p.source \in 1 .. also
    BY <2>4
  <2> QED
    BY <2>1, <2>3, <2>5 DEF PagesOf
<1>2. P \subseteq Q
  BY <1>1
<1> HIDE DEF P, Q
<1>3. Seq(RowsOf(P)) \subseteq Seq(RowsOf(Q))
  BY <1>2, RowsWithin
<1> QED
  BY <1>2, <1>3 DEF P, Q

\* An image is loaded and its page put into the rows.
LEMMA WithImageIs ==
    ASSUME NEW s \in Workspace, NEW before \in 0 .. Len(s.items)
    PROVE  WithImage(s, before) \in Workspace
<1> DEFINE documents == s.documents
           images == s.images
           items == s.items
           trash == s.trash
           page == ImagePage(images + 1)
           row == <<page>>
           new == <<row>>
           P == PagesOf(documents, images + 1)
           all == Splice(items, before, new)
<1>1. /\ documents \in Loaded /\ images \in Nat
      /\ items \in Seq(RowsOf(PagesOf(documents, images))) /\ trash \in Seq(RowsOf(PagesOf(documents, images)))
      /\ s = [items |-> items, trash |-> trash, documents |-> documents, images |-> images]
  BY WorkspaceHolds
<1>2. WithImage(s, before) = [items |-> all, trash |-> trash, documents |-> documents, images |-> images + 1]
  <2>1. WithImage(s, before) = [[s EXCEPT !.images = images + 1] EXCEPT !.items = all]
    BY DEF WithImage
  <2>2. [s EXCEPT !.images = images + 1]
           = [items |-> items, trash |-> trash, documents |-> documents, images |-> images + 1]
    BY <1>1
  <2>3. [[items |-> items, trash |-> trash, documents |-> documents, images |-> images + 1] EXCEPT !.items = all]
           = [items |-> all, trash |-> trash, documents |-> documents, images |-> images + 1]
    OBVIOUS
  <2> HIDE DEF documents, images, items, trash, all
  <2> QED
    BY <2>1, <2>2, <2>3
<1>3. before \in 0 .. Len(items)
  OBVIOUS
<1> HIDE DEF documents, images, items, trash
<1>4. items \in Seq(RowsOf(P)) /\ trash \in Seq(RowsOf(P))
  <2>1. images + 1 \in Nat /\ images <= images + 1
    BY <1>1
  <2>2. \A d \in DOMAIN documents : d \in DOMAIN documents /\ documents[d] = documents[d]
    OBVIOUS
  <2>3. Seq(RowsOf(PagesOf(documents, images))) \subseteq Seq(RowsOf(PagesOf(documents, images + 1)))
    BY <1>1, <2>1, <2>2, MorePages
  <2> HIDE DEF P
  <2> QED
    BY <1>1, <2>3 DEF P
<1>5. page \in P
  BY <1>1 DEF ImagePage, PagesOf, Pages
<1> HIDE DEF page, P
<1>6. new \in Seq(RowsOf(P))
  <2>1. row \in Seq(P) /\ Len(row) = 1
    BY <1>5
  <2> HIDE DEF row
  <2>2. row # <<>>
    BY <2>1, EmptySeq
  <2> QED
    BY <2>1, <2>2, OneRow
<1> HIDE DEF new
<1>7. all \in Seq(RowsOf(P))
  BY <1>3, <1>4, <1>6, SpliceIs
<1> HIDE DEF all
<1>8. images + 1 \in Nat
  BY <1>1
<1>9. [items |-> all, trash |-> trash, documents |-> documents, images |-> images + 1] \in Workspace
  BY <1>1, <1>4, <1>7, <1>8, WorkspaceOf DEF P
<1> QED
  BY <1>2, <1>9

\* The pages of a loaded document put into the rows.
LEMMA WithDocumentGroupIs ==
    ASSUME NEW s \in Workspace, NEW d \in DOMAIN s.documents, NEW before \in 0 .. Len(s.items),
           NEW pages \in Seq(Int)
    PROVE  /\ WithDocumentGroup(s, d, before, pages) \in Workspace
           /\ Len(WithDocumentGroup(s, d, before, pages).items) >= Len(s.items)
<1> DEFINE count == s.documents[d].count
           all == [p \in 1 .. count |-> p]
           asked == IF pages = <<>> THEN all ELSE pages
           places == {k \in DOMAIN asked : asked[k] \in DOMAIN all /\ \A i \in 1 .. (k - 1) : asked[i] # asked[k]}
           once == At(asked, places)
           group == [k \in DOMAIN once |-> DocumentPage(d, once[k])]
           new == <<group>>
           items == Splice(s.items, before, new)
           P == PagesOf(s.documents, s.images)
<1>1. /\ s.documents \in Loaded /\ s.images \in Nat /\ s.items \in Seq(RowsOf(P))
      /\ count \in Nat /\ d \in Int /\ Len(s.items) \in Nat
      /\ s = [items |-> s.items, trash |-> s.trash, documents |-> s.documents, images |-> s.images]
  <2>1. /\ s.documents \in Loaded /\ s.images \in Nat /\ s.items \in Seq(RowsOf(P))
        /\ s = [items |-> s.items, trash |-> s.trash, documents |-> s.documents, images |-> s.images]
    BY WorkspaceHolds
  <2>2. s.documents \in Seq([file : Files, count : Nat])
    BY <2>1 DEF Loaded
  <2> DEFINE documents == s.documents
             D == [file : Files, count : Nat]
  <2>3. documents[d] \in D /\ d \in Int
    <3>1. documents \in Seq(D) /\ d \in DOMAIN documents
      BY <2>2
    <3> HIDE DEF documents, D
    <3>2. Len(documents) \in Nat /\ d \in 1 .. Len(documents)
      BY <3>1, LenProperties
    <3> QED
      BY <3>1, <3>2, ElementOfSeq
  <2>4. Len(s.items) \in Nat
    <3> DEFINE R == RowsOf(P)
    <3>1. s.items \in Seq(R)
      BY <2>1
    <3> HIDE DEF R
    <3> QED
      BY <3>1, LenProperties
  <2> QED
    BY <2>1, <2>3, <2>4
<1>2. WithDocumentGroup(s, d, before, pages) = IF group = <<>> THEN s ELSE [s EXCEPT !.items = items]
  BY DEF WithDocumentGroup
<1> HIDE DEF count
<1>3. asked \in Seq(Int) /\ DOMAIN all = 1 .. count
  <2>1. count \in Nat
    BY <1>1
  <2>2. all \in Seq(Int)
    BY <2>1
  <2> QED
    BY <2>2
<1> HIDE DEF asked, all
<1>4. places \in SUBSET DOMAIN asked /\ \A k \in places : asked[k] \in 1 .. count
  BY <1>3
<1> HIDE DEF places
<1>5. once \in Seq(1 .. count)
  <2> DEFINE C == 1 .. count
  <2>1. \A k \in places : asked[k] \in C
    BY <1>4
  <2> HIDE DEF C
  <2>2. At(asked, places) \in Seq(C)
    BY <1>3, <1>4, <2>1, AtWithin
  <2> QED
    BY <2>2 DEF C
<1> HIDE DEF once
<1>6. group \in Seq(P)
  <2>1. Len(once) \in Nat /\ DOMAIN once = 1 .. Len(once) /\ \A k \in 1 .. Len(once) : once[k] \in 1 .. count
    BY <1>5, LenProperties, ElementOfSeq
  <2>2. ASSUME NEW k \in 1 .. Len(once) PROVE DocumentPage(d, once[k]) \in P
    <3> DEFINE page == once[k]
    <3>1. page \in 1 .. s.documents[d].count /\ page \in Int
      BY <1>1, <2>1 DEF count
    <3> HIDE DEF page
    <3>2. DocumentPage(d, page) \in P
      BY <1>1, <3>1 DEF DocumentPage, PagesOf, Pages
    <3> QED
      BY <3>2 DEF page
  <2> HIDE DEF P
  <2> QED
    BY <2>1, <2>2
<1> HIDE DEF group
<1>7. CASE group = <<>>
  BY <1>1, <1>2, <1>7
<1>8. CASE group # <<>>
  <2> HIDE DEF P
  <2>1. new \in Seq(RowsOf(P)) /\ Len(new) = 1
    BY <1>6, <1>8, OneRow
  <2> HIDE DEF new
  <2>2. items \in Seq(RowsOf(P)) /\ Len(items) = Len(s.items) + 1
    BY <1>1, <2>1, SpliceIs
  <2> HIDE DEF items
  <2>3. [s EXCEPT !.items = items] \in Workspace
    BY <2>2, WithRows DEF P
  <2>4. [s EXCEPT !.items = items].items = items
    BY <1>1
  <2> QED
    BY <1>1, <1>2, <1>8, <2>2, <2>3, <2>4
<1> QED
  BY <1>7, <1>8

\* One more document is loaded if its file was not.
LEMMA LoadedMore ==
    ASSUME NEW documents \in Loaded, NEW file \in Files, NEW count \in Nat,
           \A d \in DOMAIN documents : documents[d].file # file
    PROVE  /\ Append(documents, [file |-> file, count |-> count]) \in Loaded
           /\ Len(Append(documents, [file |-> file, count |-> count]))
                 \in DOMAIN Append(documents, [file |-> file, count |-> count])
           /\ \A d \in DOMAIN documents :
                 /\ d \in DOMAIN Append(documents, [file |-> file, count |-> count])
                 /\ Append(documents, [file |-> file, count |-> count])[d] = documents[d]
<1> DEFINE D == [file : Files, count : Nat]
           n == Len(documents)
           one == [file |-> file, count |-> count]
           more == Append(documents, one)
<1>1. documents \in Seq(D) /\ \A d, e \in DOMAIN documents : documents[d].file = documents[e].file => d = e
  BY DEF Loaded
<1>2. one \in D /\ one.file = file
  OBVIOUS
<1> HIDE DEF D, one
<1>3. n \in Nat /\ DOMAIN documents = 1 .. n
  BY <1>1, LenProperties
<1>4. more \in Seq(D) /\ Len(more) = n + 1 /\ more[n + 1] = one /\ \A i \in 1 .. n : more[i] = documents[i]
  BY <1>1, <1>2, <1>3, AppendProperties
<1> HIDE DEF more, n
<1>5. DOMAIN more = 1 .. n + 1
  BY <1>4, LenProperties
<1>6. \A d \in 1 .. n + 1 : d \in 1 .. n \/ d = n + 1
  BY <1>3
<1>7. \A d, e \in DOMAIN more : more[d].file = more[e].file => d = e
  <2> SUFFICES ASSUME NEW d \in DOMAIN more, NEW e \in DOMAIN more, more[d].file = more[e].file PROVE d = e
    OBVIOUS
  <2>1. \A i \in 1 .. n : more[i].file # file
    BY <1>3, <1>4
  <2>2. more[n + 1].file = file
    BY <1>2, <1>4
  <2>3. (d \in 1 .. n \/ d = n + 1) /\ (e \in 1 .. n \/ e = n + 1)
    BY <1>5, <1>6
  <2>4. CASE d \in 1 .. n /\ e \in 1 .. n
    BY <1>1, <1>3, <1>4, <2>4
  <2> QED
    BY <2>1, <2>2, <2>3, <2>4
<1>8. more \in Loaded
  BY <1>4, <1>7 DEF Loaded, D
<1>9. Len(more) \in DOMAIN more
  BY <1>3, <1>4, <1>5
<1>10. \A d \in 1 .. n : d \in 1 .. n + 1
  BY <1>3
<1>11. \A d \in DOMAIN documents : d \in DOMAIN more /\ more[d] = documents[d]
  BY <1>3, <1>4, <1>5, <1>10
<1> QED
  BY <1>8, <1>9, <1>11 DEF more, one

\* A document inserted: loaded if its file was not, and its pages put into the rows.
LEMMA WithDocumentIs ==
    ASSUME NEW s \in Workspace, NEW file \in Files, NEW count \in Nat, NEW before \in 0 .. Len(s.items),
           NEW pages \in Seq(Int)
    PROVE  /\ WithDocument(s, file, count, before, pages) \in Workspace
           /\ Len(WithDocument(s, file, count, before, pages).items) >= Len(s.items)
<1> DEFINE loaded == {d \in DOMAIN s.documents : s.documents[d].file = file}
           documents == s.documents
           images == s.images
           items == s.items
           trash == s.trash
           more == Append(documents, [file |-> file, count |-> count])
           new == [s EXCEPT !.documents = more]
<1>1. /\ documents \in Loaded /\ images \in Nat
      /\ items \in Seq(RowsOf(PagesOf(documents, images))) /\ trash \in Seq(RowsOf(PagesOf(documents, images)))
      /\ s = [items |-> items, trash |-> trash, documents |-> documents, images |-> images]
  BY WorkspaceHolds
<1>2. WithDocument(s, file, count, before, pages) =
         IF loaded = {} THEN WithDocumentGroup(new, Len(new.documents), before, pages)
         ELSE IF pages # <<>> THEN WithDocumentGroup(s, CHOOSE d \in loaded : TRUE, before, pages) ELSE s
  <2> HIDE DEF loaded, new
  <2> QED
    BY DEF WithDocument, loaded, new
<1>3. CASE loaded = {}
  <2>1. \A d \in DOMAIN documents : documents[d].file # file
    BY <1>3
  <2>2. new = [items |-> items, trash |-> trash, documents |-> more, images |-> images] /\ items = s.items
    <3>1. items = s.items
      OBVIOUS
    <3> HIDE DEF items, trash, documents, images, more
    <3> QED
      BY <1>1, <3>1
  <2>3. before \in 0 .. Len(items)
    OBVIOUS
  <2> HIDE DEF items, trash, documents, images, new, loaded
  <2>4. more \in Loaded /\ Len(more) \in DOMAIN more
        /\ \A d \in DOMAIN documents : d \in DOMAIN more /\ more[d] = documents[d]
    BY <1>1, <2>1, LoadedMore
  <2> HIDE DEF more
  <2>5. images <= images
    BY <1>1
  <2>6. Seq(RowsOf(PagesOf(documents, images))) \subseteq Seq(RowsOf(PagesOf(more, images)))
    BY <1>1, <2>4, <2>5, MorePages
  <2>7. new \in Workspace
    BY <1>1, <2>2, <2>4, <2>6, WorkspaceOf
  <2>8. Len(new.documents) \in DOMAIN new.documents /\ before \in 0 .. Len(new.items) /\ Len(new.items) = Len(s.items)
    BY <2>2, <2>3, <2>4
  <2>9. /\ WithDocumentGroup(new, Len(new.documents), before, pages) \in Workspace
        /\ Len(WithDocumentGroup(new, Len(new.documents), before, pages).items) >= Len(s.items)
    BY <2>7, <2>8, WithDocumentGroupIs
  <2> QED
    BY <1>2, <1>3, <2>9
<1>4. CASE loaded # {} /\ pages # <<>>
  <2> DEFINE d == CHOOSE e \in loaded : TRUE
  <2>1. d \in loaded
    BY <1>4
  <2>2. d \in DOMAIN s.documents
    BY <2>1
  <2> HIDE DEF d, loaded
  <2>3. /\ WithDocumentGroup(s, d, before, pages) \in Workspace
        /\ Len(WithDocumentGroup(s, d, before, pages).items) >= Len(s.items)
    BY <2>2, WithDocumentGroupIs
  <2> QED
    BY <1>2, <1>4, <2>3 DEF d
<1>5. CASE loaded # {} /\ pages = <<>>
  <2>1. Len(items) \in Nat
    <3> DEFINE R == RowsOf(PagesOf(documents, images))
    <3>1. items \in Seq(R)
      BY <1>1
    <3> HIDE DEF items, R
    <3> QED
      BY <3>1, LenProperties
  <2> QED
    BY <1>2, <1>5, <2>1
<1> QED
  BY <1>3, <1>4, <1>5

\* Rows of the selection go to the trash, and all of the trash comes back.
LEMMA TrashIs ==
    ASSUME NEW s \in Workspace
    PROVE  /\ \A rows \in SUBSET DOMAIN s.items : Removed(s, rows) \in Workspace
           /\ Restored(s) \in Workspace
<1> DEFINE R == RowsOf(PagesOf(s.documents, s.images))
<1>1. s.items \in Seq(R) /\ s.trash \in Seq(R)
  BY WorkspaceHolds
<1>2. ASSUME NEW rows \in SUBSET DOMAIN s.items PROVE Removed(s, rows) \in Workspace
  <2> DEFINE items == Erased(s.items, rows)
             trash == s.trash \o Reverse(At(s.items, rows))
  <2>1. Removed(s, rows) = [s EXCEPT !.items = items, !.trash = trash]
    BY DEF Removed
  <2> HIDE DEF R
  <2>2. items \in Seq(R) /\ trash \in Seq(R)
    BY <1>1, RemovedIs
  <2> HIDE DEF items, trash
  <2>3. [s EXCEPT !.items = items, !.trash = trash] \in Workspace
    BY <2>2, WithRowsAndTrash DEF R
  <2> QED
    BY <2>1, <2>3
<1>3. Restored(s) \in Workspace
  <2> DEFINE items == s.items \o s.trash
             trash == <<>>
  <2>1. Restored(s) = [s EXCEPT !.items = items, !.trash = trash]
    BY DEF Restored
  <2> HIDE DEF R
  <2>2. items \in Seq(R) /\ trash \in Seq(R)
    BY <1>1, ConcatProperties
  <2> HIDE DEF items, trash
  <2>3. [s EXCEPT !.items = items, !.trash = trash] \in Workspace
    BY <2>2, WithRowsAndTrash DEF R
  <2> QED
    BY <2>1, <2>3
<1> QED
  BY <1>2, <1>3

\* Rows that pass the checks of a restore are rows of what the workspace has loaded.
LEMMA RestorableIs ==
    ASSUME NEW s, NEW items \in Seq(RowsOf(Pages)), Restorable(s, items)
    PROVE  items \in Seq(RowsOf(PagesOf(s.documents, s.images)))
<1> DEFINE P == PagesOf(s.documents, s.images)
           n == Len(items)
           R == RowsOf(P)
<1>1. n \in Nat /\ DOMAIN items = 1 .. n
  BY LenProperties
<1>2. items \in Seq(Seq(Pages)) /\ \A r \in 1 .. n : items[r] \in Seq(Pages) /\ items[r] # <<>>
  BY RowsOfPages
<1>3. \A r \in 1 .. n : \A k \in 1 .. Len(items[r]) : items[r][k] \in ToSet(FlattenSeq(items))
  BY <1>2, FlattenIs
<1>4. ASSUME NEW p \in Pages, p \in ToSet(FlattenSeq(items)) PROVE p \in P
  BY <1>4 DEF Restorable, PagesOf
<1>5. ASSUME NEW r \in 1 .. n PROVE items[r] \in R
  <2> DEFINE row == items[r]
  <2>1. row \in Seq(Pages) /\ row # <<>> /\ \A k \in 1 .. Len(row) : row[k] \in ToSet(FlattenSeq(items))
    BY <1>2, <1>3
  <2> HIDE DEF row, P
  <2>2. Len(row) \in Nat /\ DOMAIN row = 1 .. Len(row) /\ \A k \in 1 .. Len(row) : row[k] \in Pages
    BY <2>1, LenProperties, ElementOfSeq
  <2>3. \A k \in 1 .. Len(row) : row[k] \in P
    BY <1>4, <2>1, <2>2
  <2>4. row = [k \in 1 .. Len(row) |-> row[k]]
    BY <2>1, <2>2, LenProperties
  <2>5. row \in [1 .. Len(row) -> P]
    BY <2>3, <2>4
  <2>6. row \in Seq(P)
    BY <2>2, <2>5
  <2>7. row \in R
    BY <2>1, <2>6 DEF RowsOf
  <2> QED
    BY <2>7 DEF row
<1> HIDE DEF R
<1>6. items = [r \in 1 .. n |-> items[r]]
  BY <1>1, <1>2, LenProperties
<1> HIDE DEF n
<1>7. items \in [1 .. n -> R]
  BY <1>5, <1>6
<1>8. items \in Seq(R)
  BY <1>1, <1>7
<1> QED
  BY <1>8 DEF R

\* The documents of s with the page counts they have when they are read again.
ReadAnew(documents, s, counts) ==
    documents = [d \in DOMAIN counts |-> [s.documents[d] EXCEPT !.count = counts[d]]]

\* The documents read anew, whatever their pages now, and no rows yet, are a workspace.
LEMMA ReloadedIs ==
    ASSUME NEW s \in Workspace, NEW counts \in [DOMAIN s.documents -> Nat], NEW documents,
           ReadAnew(documents, s, counts)
    PROVE  [s EXCEPT !.items = <<>>, !.trash = <<>>, !.documents = documents] \in Workspace
<1> DEFINE old == s.documents
           images == s.images
           none == <<>>
           D == [file : Files, count : Nat]
           n == Len(old)
           loaded == [s EXCEPT !.items = none, !.trash = none, !.documents = documents]
<1>1. /\ old \in Loaded /\ images \in Nat
      /\ s = [items |-> s.items, trash |-> s.trash, documents |-> old, images |-> images]
  BY WorkspaceHolds
<1>2. loaded = [items |-> none, trash |-> none, documents |-> documents, images |-> images]
  <2>1. [s EXCEPT !.items = none] = [items |-> none, trash |-> s.trash, documents |-> old, images |-> images]
    BY <1>1
  <2>2. [[items |-> none, trash |-> s.trash, documents |-> old, images |-> images] EXCEPT !.trash = none]
          = [items |-> none, trash |-> none, documents |-> old, images |-> images]
    OBVIOUS
  <2>3. [[items |-> none, trash |-> none, documents |-> old, images |-> images] EXCEPT !.documents = documents]
          = [items |-> none, trash |-> none, documents |-> documents, images |-> images]
    OBVIOUS
  <2>4. loaded = [[[s EXCEPT !.items = none] EXCEPT !.trash = none] EXCEPT !.documents = documents]
    OBVIOUS
  <2> HIDE DEF none, old, images, loaded
  <2> QED
    BY <2>1, <2>2, <2>3, <2>4
<1>3. old \in Seq(D) /\ \A d, e \in DOMAIN old : old[d].file = old[e].file => d = e
  BY <1>1 DEF Loaded
<1>4. counts \in [DOMAIN old -> Nat] /\ documents = [d \in DOMAIN counts |-> [old[d] EXCEPT !.count = counts[d]]]
  BY DEF ReadAnew
<1> HIDE DEF old, loaded
<1>5. n \in Nat /\ DOMAIN old = 1 .. n /\ \A d \in 1 .. n : old[d] \in D
  BY <1>3, LenProperties, ElementOfSeq
<1>6. /\ documents = [d \in 1 .. n |-> [old[d] EXCEPT !.count = counts[d]]]
      /\ \A d \in 1 .. n : counts[d] \in Nat
  BY <1>4, <1>5
<1>7. \A d \in 1 .. n : [old[d] EXCEPT !.count = counts[d]] \in D /\ [old[d] EXCEPT !.count = counts[d]].file = old[d].file
  BY <1>5, <1>6
<1> HIDE DEF n
<1>8. documents \in Seq(D) /\ DOMAIN documents = 1 .. n /\ \A d \in 1 .. n : documents[d].file = old[d].file
  <2> HIDE DEF D
  <2>1. documents \in [1 .. n -> D]
    BY <1>6, <1>7
  <2>2. \A d \in 1 .. n : documents[d] = [old[d] EXCEPT !.count = counts[d]]
    BY <1>6
  <2>3. \A d \in 1 .. n : documents[d].file = old[d].file
    BY <1>7, <2>2
  <2>4. documents \in Seq(D)
    BY <1>5, <2>1
  <2> QED
    BY <2>1, <2>3, <2>4
<1>9. \A d, e \in DOMAIN documents : documents[d].file = documents[e].file => d = e
  BY <1>3, <1>5, <1>8
<1>10. documents \in Loaded
  BY <1>8, <1>9 DEF Loaded
<1>11. none \in Seq(RowsOf(PagesOf(documents, images)))
  OBVIOUS
<1> HIDE DEF none, images
<1>12. loaded \in Workspace
  BY <1>1, <1>2, <1>10, <1>11, WorkspaceOf
<1> QED
  BY <1>12 DEF loaded, none

-----------------------------------------------------------------------------
(* The inductive invariant. *)

\* The inductive invariant: the workspace shown and every snapshot of it is well-formed, and what
\* is kept beside them, checkpoints and the workspace file, are rows of pages that a restore checks.
WorkspaceInv ==
    /\ Holds(Workspace, undo, state, redo)
    /\ checkpoints \subseteq Seq(RowsOf(Pages))
    /\ clipboard.rows \subseteq Nat /\ clipboard.move \in BOOLEAN
    /\ \A p \in project : p.state \in Workspace /\ p.checkpoints \subseteq Seq(RowsOf(Pages))

\* A modification that makes a workspace.
LEMMA Modified ==
    ASSUME WorkspaceInv, NEW new \in Workspace, Modify(new), UNCHANGED <<checkpoints, clipboard, project>>
    PROVE  WorkspaceInv'
<1> DEFINE W == Workspace
           more == Append(undo, state)
<1>1. undo \in Seq(W) /\ state \in W /\ redo \in Seq(W)
  BY DEF WorkspaceInv, Holds
<1>2. state' \in W
  BY DEF Modify
<1> HIDE DEF W
<1>3. more \in Seq(W)
  BY <1>1, AppendProperties
<1> HIDE DEF more
<1>4. Clamped(more) \in Seq(W)
  BY <1>3, ClampedSteps
<1>5. undo' \in Seq(W) /\ redo' \in Seq(W)
  <2>1. CASE new = state
    BY <1>1, <2>1 DEF Modify
  <2>2. CASE new # state
    BY <1>4, <2>2, EmptySeq DEF Modify, more
  <2> QED
    BY <2>1, <2>2
<1> QED
  BY <1>2, <1>5 DEF WorkspaceInv, Holds, W

\* Nothing changes but what an operation on the rows leaves alone.
LEMMA WorkspaceKept ==
    ASSUME WorkspaceInv, UNCHANGED <<state, undo, redo, checkpoints, clipboard, project>>
    PROVE  WorkspaceInv'
BY DEF WorkspaceInv, Holds

\* Other rows of what is loaded.
LEMMA Rearranged ==
    ASSUME WorkspaceInv, NEW items \in Seq(RowsOf(PagesOf(state.documents, state.images))),
           Rearrange(items), UNCHANGED <<checkpoints, clipboard, project>>
    PROVE  WorkspaceInv'
<1> DEFINE new == [state EXCEPT !.items = items]
<1>1. state \in Workspace
  BY DEF WorkspaceInv, Holds
<1>2. new \in Workspace
  BY <1>1, WithRows
<1>3. Modify(new)
  BY DEF Rearrange
<1> HIDE DEF new
<1> QED
  BY <1>2, <1>3, Modified

\* The rows there are.
LEMMA RowsShown ==
    ASSUME WorkspaceInv
    PROVE  /\ state \in Workspace /\ Len(state.items) \in Nat /\ DOMAIN state.items = Rows
           /\ state.items \in Seq(RowsOf(PagesOf(state.documents, state.images)))
           /\ \A rows \in Selections : rows \in SUBSET DOMAIN state.items
<1>1. state \in Workspace
  BY DEF WorkspaceInv, Holds
<1>2. state.items \in Seq(RowsOf(PagesOf(state.documents, state.images)))
  BY <1>1, WorkspaceHolds
<1>3. Len(state.items) \in Nat /\ DOMAIN state.items = 1 .. Len(state.items)
  <2> DEFINE R == RowsOf(PagesOf(state.documents, state.images))
  <2>1. state.items \in Seq(R)
    BY <1>2
  <2> HIDE DEF R
  <2> QED
    BY <2>1, LenProperties
<1> QED
  BY <1>1, <1>2, <1>3 DEF Rows, Selections

-----------------------------------------------------------------------------
(* Every operation keeps the workspace well-formed. *)

\* A document of which the dialog asks for pages.
LEMMA InsertDocumentKeeps == WorkspaceInv /\ InsertDocument => WorkspaceInv'
<1> SUFFICES ASSUME WorkspaceInv, InsertDocument PROVE WorkspaceInv'
  OBVIOUS
<1>1. PICK file \in Files, pages \in PageLists, before \in 0 .. Len(state.items) :
         \E count \in Counts[file] : Modify(WithDocument(state, file, count, before, pages))
  BY DEF InsertDocument
<1>2. PICK count \in Counts[file] : Modify(WithDocument(state, file, count, before, pages))
  BY <1>1
<1>3. count \in Nat /\ pages \in Seq(Int)
  BY DataAssumption
<1>4. state \in Workspace
  BY RowsShown
<1>5. WithDocument(state, file, count, before, pages) \in Workspace
  BY <1>3, <1>4, WithDocumentIs
<1>6. UNCHANGED <<checkpoints, clipboard, project>>
  BY DEF InsertDocument, Edit
<1> QED
  BY <1>2, <1>5, <1>6, Modified

\* An image.
LEMMA InsertImageKeeps == WorkspaceInv /\ InsertImage => WorkspaceInv'
<1> SUFFICES ASSUME WorkspaceInv, InsertImage PROVE WorkspaceInv'
  OBVIOUS
<1>1. PICK before \in 0 .. Len(state.items) : Modify(WithImage(state, before))
  BY DEF InsertImage
<1>2. state \in Workspace
  BY RowsShown
<1>3. WithImage(state, before) \in Workspace
  BY <1>2, WithImageIs
<1>4. UNCHANGED <<checkpoints, clipboard, project>>
  BY DEF InsertImage, Edit
<1> QED
  BY <1>1, <1>3, <1>4, Modified

\* Empty pages.
LEMMA InsertEmptyPageKeeps == WorkspaceInv /\ InsertEmptyPage => WorkspaceInv'
<1> SUFFICES ASSUME WorkspaceInv, InsertEmptyPage PROVE WorkspaceInv'
  OBVIOUS
<1>1. PICK rows \in Selections : /\ Rearrange(WithEmptyPages(state.items, rows))
                                 /\ UNCHANGED <<checkpoints, clipboard, project>>
  BY DEF InsertEmptyPage, Edit
<1> DEFINE R == RowsOf(PagesOf(state.documents, state.images))
<1>2. state.items \in Seq(R) /\ rows \in SUBSET DOMAIN state.items
  BY RowsShown
<1>3. WithEmptyPages(state.items, rows) \in Seq(R)
  BY <1>2, WithEmptyPagesIs
<1> QED
  BY <1>1, <1>3, Rearranged

\* Copies of rows.
LEMMA CloneKeeps == WorkspaceInv /\ Clone => WorkspaceInv'
<1> SUFFICES ASSUME WorkspaceInv, Clone PROVE WorkspaceInv'
  OBVIOUS
<1>1. PICK rows \in Selections \ {{}} : /\ Rearrange(Cloned(state.items, rows))
                                        /\ UNCHANGED <<checkpoints, clipboard, project>>
  BY DEF Clone, Edit
<1> DEFINE R == RowsOf(PagesOf(state.documents, state.images))
<1>2. state.items \in Seq(R) /\ rows \in SUBSET DOMAIN state.items /\ rows # {}
  BY RowsShown
<1> HIDE DEF R
<1>3. Cloned(state.items, rows) \in Seq(R)
  BY <1>2, ClonedIs
<1> QED
  BY <1>1, <1>3, Rearranged DEF R

\* Rotations, of which one takes the rotation back.
LEMMA RotateKeeps == WorkspaceInv /\ Rotate => WorkspaceInv'
<1> SUFFICES ASSUME WorkspaceInv, Rotate PROVE WorkspaceInv'
  OBVIOUS
<1>1. PICK rows \in Selections \ {{}} : /\ \/ \E turn \in {1, 3} : Rearrange(Turned(state.items, rows, turn))
                                           \/ Rearrange(Unturned(state.items, rows))
                                        /\ UNCHANGED <<checkpoints, clipboard, project>>
  BY DEF Rotate, Edit
<1> DEFINE R == RowsOf(PagesOf(state.documents, state.images))
<1>2. state.items \in Seq(R)
  BY RowsShown
<1>3. \A turn \in Int : Turned(state.items, rows, turn) \in Seq(R) /\ Unturned(state.items, rows) \in Seq(R)
  BY <1>2, TurnedIs
<1>4. CASE \E turn \in {1, 3} : Rearrange(Turned(state.items, rows, turn))
  <2>1. PICK turn \in {1, 3} : Rearrange(Turned(state.items, rows, turn))
    BY <1>4
  <2>2. Turned(state.items, rows, turn) \in Seq(R)
    BY <1>3
  <2> QED
    BY <1>1, <2>1, <2>2, Rearranged
<1>5. CASE Rearrange(Unturned(state.items, rows))
  <2>1. Unturned(state.items, rows) \in Seq(R)
    BY <1>3
  <2> QED
    BY <1>1, <1>5, <2>1, Rearranged
<1> QED
  BY <1>1, <1>4, <1>5

\* Rows grouped.
LEMMA GroupKeeps == WorkspaceInv /\ Group => WorkspaceInv'
<1> SUFFICES ASSUME WorkspaceInv, Group PROVE WorkspaceInv'
  OBVIOUS
<1>1. PICK rows \in Selections : /\ Cardinality(rows) > 1
                                 /\ Rearrange(Grouped(state.items, rows))
                                 /\ UNCHANGED <<checkpoints, clipboard, project>>
  BY DEF Group, Edit
<1> DEFINE P == PagesOf(state.documents, state.images)
<1>2. state.items \in Seq(RowsOf(P)) /\ rows \in SUBSET DOMAIN state.items
  BY RowsShown
<1>3. rows # {}
  BY <1>1, FS_EmptySet
<1> HIDE DEF P
<1>4. Grouped(state.items, rows) \in Seq(RowsOf(P))
  BY <1>2, <1>3, GroupedIs
<1> QED
  BY <1>1, <1>4, Rearranged DEF P

\* Groups taken apart.
LEMMA UngroupKeeps == WorkspaceInv /\ Ungroup => WorkspaceInv'
<1> SUFFICES ASSUME WorkspaceInv, Ungroup PROVE WorkspaceInv'
  OBVIOUS
<1>1. PICK rows \in Selections : /\ Rearrange(Ungrouped(state.items, rows))
                                 /\ UNCHANGED <<checkpoints, clipboard, project>>
  BY DEF Ungroup, Edit
<1> DEFINE P == PagesOf(state.documents, state.images)
<1>2. state.items \in Seq(RowsOf(P))
  BY RowsShown
<1> HIDE DEF P
<1>3. Ungrouped(state.items, rows) \in Seq(RowsOf(P))
  BY <1>2, UngroupedIs
<1> QED
  BY <1>1, <1>3, Rearranged DEF P

\* Rows taken to the trash.
LEMMA RemoveSelectionKeeps == WorkspaceInv /\ RemoveSelection => WorkspaceInv'
<1> SUFFICES ASSUME WorkspaceInv, RemoveSelection PROVE WorkspaceInv'
  OBVIOUS
<1>1. PICK rows \in Selections \ {{}} : /\ Modify(Removed(state, rows))
                                        /\ UNCHANGED <<checkpoints, clipboard, project>>
  BY DEF RemoveSelection, Edit
<1>2. state \in Workspace /\ rows \in SUBSET DOMAIN state.items
  BY RowsShown
<1>3. Removed(state, rows) \in Workspace
  BY <1>2, TrashIs
<1> QED
  BY <1>1, <1>3, Modified

\* The trash taken back.
LEMMA RestoreRemovedItemsKeeps == WorkspaceInv /\ RestoreRemovedItems => WorkspaceInv'
<1> SUFFICES ASSUME WorkspaceInv, RestoreRemovedItems PROVE WorkspaceInv'
  OBVIOUS
<1>1. Modify(Restored(state)) /\ UNCHANGED <<checkpoints, clipboard, project>>
  BY DEF RestoreRemovedItems, Edit
<1>2. Restored(state) \in Workspace
  BY RowsShown, TrashIs
<1> QED
  BY <1>1, <1>2, Modified

\* The places of a selection, and what is at them.
LEMMA PlacesAre ==
    ASSUME WorkspaceInv, NEW rows \in Selections, NEW R, R = RowsOf(PagesOf(state.documents, state.images)),
           NEW places, places = Reorderable(state.items, rows)
    PROVE  /\ state.items \in Seq(R) /\ places \in SUBSET DOMAIN state.items
           /\ At(state.items, places) \in Seq(R) /\ Len(At(state.items, places)) = Cardinality(places)
<1>1. state.items \in Seq(R) /\ rows \in SUBSET DOMAIN state.items
  BY RowsShown
<1>2. places \in SUBSET DOMAIN state.items
  BY <1>1 DEF Reorderable
<1> QED
  BY <1>1, <1>2, AtIs

\* Rows in the opposite order.
LEMMA ReverseItemsKeeps == WorkspaceInv /\ ReverseItems => WorkspaceInv'
<1> SUFFICES ASSUME WorkspaceInv, ReverseItems PROVE WorkspaceInv'
  OBVIOUS
<1>1. PICK rows \in Selections :
         LET all == Reorderable(state.items, rows)
         IN  /\ Rearrange(Reordered(state.items, all, Reverse(At(state.items, all))))
             /\ UNCHANGED <<checkpoints, clipboard, project>>
  BY DEF ReverseItems, Edit
<1> DEFINE R == RowsOf(PagesOf(state.documents, state.images))
           places == Reorderable(state.items, rows)
           moved == At(state.items, places)
           new == Reverse(moved)
           items == Reordered(state.items, places, new)
<1>2. Rearrange(items) /\ UNCHANGED <<checkpoints, clipboard, project>>
  BY <1>1
<1>3. /\ state.items \in Seq(R) /\ places \in SUBSET DOMAIN state.items
      /\ moved \in Seq(R) /\ Len(moved) = Cardinality(places)
  BY PlacesAre
<1> HIDE DEF R, places, moved
<1>4. new \in Seq(R) /\ Len(new) = Cardinality(places)
  BY <1>3, ReverseIs
<1> HIDE DEF new
<1>5. items \in Seq(R)
  BY <1>3, <1>4, ReorderedIs
<1> HIDE DEF items
<1> QED
  BY <1>2, <1>5, Rearranged DEF R

\* Rows in the order of their first pages.
LEMMA SortItemsKeeps == WorkspaceInv /\ SortItems => WorkspaceInv'
<1> SUFFICES ASSUME WorkspaceInv, SortItems PROVE WorkspaceInv'
  OBVIOUS
<1>1. PICK rows \in Selections, descending \in BOOLEAN :
         LET all == Reorderable(state.items, rows)
             some == At(state.items, all)
         IN  /\ \E o \in Sorting([k \in DOMAIN some |-> some[k][1].page], descending) :
                   Rearrange(Reordered(state.items, all, [k \in DOMAIN some |-> some[o[k]]]))
             /\ UNCHANGED <<checkpoints, clipboard, project>>
  BY DEF SortItems, Edit
<1> DEFINE R == RowsOf(PagesOf(state.documents, state.images))
           places == Reorderable(state.items, rows)
           moved == At(state.items, places)
           keys == [k \in DOMAIN moved |-> moved[k][1].page]
<1>2. PICK o \in Sorting(keys, descending) :
         Rearrange(Reordered(state.items, places, [k \in DOMAIN moved |-> moved[o[k]]]))
  BY <1>1
<1>3. UNCHANGED <<checkpoints, clipboard, project>>
  BY <1>1
<1>4. /\ state.items \in Seq(R) /\ places \in SUBSET DOMAIN state.items
      /\ moved \in Seq(R) /\ Len(moved) = Cardinality(places)
  BY PlacesAre
<1>5. DOMAIN keys = DOMAIN moved
  OBVIOUS
<1> DEFINE new == [k \in DOMAIN moved |-> moved[o[k]]]
           items == Reordered(state.items, places, new)
<1>6. Rearrange(items)
  BY <1>2
<1> HIDE DEF R, places, moved, keys
<1>7. new \in Seq(R) /\ Len(new) = Cardinality(places)
  BY <1>2, <1>4, <1>5, PermutedIs
<1> HIDE DEF new
<1>8. items \in Seq(R)
  BY <1>4, <1>7, ReorderedIs
<1> HIDE DEF items
<1> QED
  BY <1>3, <1>6, <1>8, Rearranged DEF R

\* The pages of the rows as new rows at the end.
LEMMA RegroupKeeps == WorkspaceInv /\ Regroup => WorkspaceInv'
<1> SUFFICES ASSUME WorkspaceInv, Regroup PROVE WorkspaceInv'
  OBVIOUS
<1>1. PICK rows \in Selections \ {{}} : \E new \in RegroupedRows(state.items, rows) :
         /\ Rearrange(Erased(state.items, rows) \o new)
         /\ UNCHANGED <<checkpoints, clipboard, project>>
  BY DEF Regroup, Edit
<1>2. PICK new \in RegroupedRows(state.items, rows) :
         /\ Rearrange(Erased(state.items, rows) \o new)
         /\ UNCHANGED <<checkpoints, clipboard, project>>
  BY <1>1
<1> DEFINE P == PagesOf(state.documents, state.images)
           R == RowsOf(P)
           rest == Erased(state.items, rows)
           items == rest \o new
<1>3. state.items \in Seq(RowsOf(P)) /\ rows \in SUBSET DOMAIN state.items /\ rows # {}
  BY RowsShown
<1> HIDE DEF P
<1>4. new \in Seq(R)
  BY <1>2, <1>3, RegroupedIs
<1>5. rest \in Seq(R)
  <2> DEFINE none == <<>>
  <2>1. none \in Seq(R) /\ state.items \in Seq(R)
    BY <1>3
  <2> HIDE DEF none, R
  <2> QED
    BY <1>3, <2>1, RemovedIs
<1> HIDE DEF R, rest
<1>6. items \in Seq(R)
  BY <1>4, <1>5, ConcatProperties
<1>7. Rearrange(items)
  BY <1>2 DEF rest
<1> HIDE DEF items
<1> QED
  BY <1>2, <1>6, <1>7, Rearranged DEF R, P

\* Rows dropped.
LEMMA DropKeeps == WorkspaceInv /\ Drop => WorkspaceInv'
<1> SUFFICES ASSUME WorkspaceInv, Drop PROVE WorkspaceInv'
  OBVIOUS
<1>1. PICK rows \in Selections \ {{}}, before \in 0 .. Len(state.items), move \in BOOLEAN :
         /\ Rearrange(Dropped(state.items, rows, before, move))
         /\ UNCHANGED <<checkpoints, clipboard, project>>
  BY DEF Drop, Edit
<1> DEFINE R == RowsOf(PagesOf(state.documents, state.images))
<1>2. state.items \in Seq(R) /\ rows \in SUBSET DOMAIN state.items
  BY RowsShown
<1> HIDE DEF R
<1>3. Dropped(state.items, rows, before, move) \in Seq(R)
  BY <1>2, DroppedRows
<1> QED
  BY <1>1, <1>3, Rearranged DEF R

\* The rows of the clipboard dropped, if they are there.
LEMMA PasteKeeps == WorkspaceInv /\ Paste => WorkspaceInv'
<1> SUFFICES ASSUME WorkspaceInv, Paste PROVE WorkspaceInv'
  OBVIOUS
<1> DEFINE rows == clipboard.rows
           move == clipboard.move
<1>1. PICK row \in Rows \cup {0} :
         /\ rows # {}
         /\ row = 0 => state.items = <<>>
         /\ IF rows \subseteq Rows
            THEN Rearrange(Dropped(state.items, rows, row - 1, move))
            ELSE UNCHANGED <<state, undo, redo>>
         /\ UNCHANGED <<checkpoints, clipboard, project>>
  BY DEF Paste, Edit
<1>2. CASE rows \subseteq Rows
  <2> DEFINE R == RowsOf(PagesOf(state.documents, state.images))
             before == row - 1
             items == Dropped(state.items, rows, before, move)
  <2>1. /\ state.items \in Seq(R) /\ Len(state.items) \in Nat
        /\ Rows = 1 .. Len(state.items) /\ Rows = DOMAIN state.items
    BY RowsShown DEF Rows
  <2>2. row # 0
    <3>1. ASSUME row = 0 PROVE FALSE
      <4>1. Len(state.items) = 0
        BY <1>1, <3>1, EmptySeq
      <4>2. Rows = {}
        BY <2>1, <4>1
      <4> QED
        BY <1>1, <1>2, <4>2
    <3> QED
      BY <3>1
  <2>3. before \in 0 .. Len(state.items)
    BY <1>1, <2>1, <2>2
  <2>4. rows \in SUBSET DOMAIN state.items /\ move \in BOOLEAN
    BY <1>2, <2>1 DEF WorkspaceInv
  <2>5. Rearrange(items)
    BY <1>1, <1>2
  <2> HIDE DEF R, before, rows, move
  <2>6. items \in Seq(R)
    BY <2>1, <2>3, <2>4, DroppedRows
  <2> HIDE DEF items
  <2> QED
    BY <1>1, <2>5, <2>6, Rearranged DEF R
<1>3. CASE ~(rows \subseteq Rows)
  BY <1>1, <1>3, WorkspaceKept
<1> QED
  BY <1>2, <1>3

\* The rows cut or copied are numbers.
LEMMA CutOrCopyKeeps == WorkspaceInv /\ CutOrCopy => WorkspaceInv'
<1> SUFFICES ASSUME WorkspaceInv, CutOrCopy PROVE WorkspaceInv'
  OBVIOUS
<1>1. PICK rows \in Selections \ {{}}, move \in BOOLEAN :
         /\ clipboard' = [rows |-> rows, move |-> move]
         /\ UNCHANGED <<state, undo, redo, checkpoints, project>>
  BY DEF CutOrCopy
<1>2. rows \subseteq Nat
  <2>1. Len(state.items) \in Nat
    BY RowsShown
  <2> QED
    BY <2>1 DEF Selections, Rows
<1>3. clipboard'.rows \subseteq Nat /\ clipboard'.move \in BOOLEAN
  BY <1>1, <1>2
<1> QED
  BY <1>1, <1>3 DEF WorkspaceInv, Holds

\* A selection replaced by a document, in two operations.
LEMMA ReplaceSelectionKeeps == WorkspaceInv /\ ReplaceSelection => WorkspaceInv'
<1> SUFFICES ASSUME WorkspaceInv, ReplaceSelection PROVE WorkspaceInv'
  OBVIOUS
<1>1. PICK rows \in Selections \ {{}}, file \in Files : \E count \in Counts[file] :
         \E s \in {state, WithDocument(state, file, count, CHOOSE r \in rows : \A q \in rows : q <= r, <<>>)} :
            /\ UNCHANGED <<checkpoints, clipboard, project>>
            /\ state' = Removed(s, rows)
            /\ undo' = Clamped(undo \o IF s = state THEN <<state>> ELSE <<state, s>>)
            /\ redo' = <<>>
  BY DEF ReplaceSelection, Edit
<1>2. PICK count \in Counts[file] :
         \E s \in {state, WithDocument(state, file, count, CHOOSE r \in rows : \A q \in rows : q <= r, <<>>)} :
            /\ UNCHANGED <<checkpoints, clipboard, project>>
            /\ state' = Removed(s, rows)
            /\ undo' = Clamped(undo \o IF s = state THEN <<state>> ELSE <<state, s>>)
            /\ redo' = <<>>
  BY <1>1
<1> DEFINE place == CHOOSE r \in rows : \A q \in rows : q <= r
           none == <<>>
           other == WithDocument(state, file, count, place, none)
<1>3. PICK s \in {state, other} :
            /\ UNCHANGED <<checkpoints, clipboard, project>>
            /\ state' = Removed(s, rows)
            /\ undo' = Clamped(undo \o IF s = state THEN <<state>> ELSE <<state, s>>)
            /\ redo' = <<>>
  BY <1>2
<1>4. state \in Workspace /\ rows \in SUBSET DOMAIN state.items /\ Len(state.items) \in Nat
      /\ DOMAIN state.items = 1 .. Len(state.items)
  BY RowsShown DEF Rows
<1>5. place \in 0 .. Len(state.items)
  <2>1. rows \subseteq Int /\ IsFiniteSet(rows) /\ rows # {}
    <3> DEFINE R == RowsOf(PagesOf(state.documents, state.images))
    <3>1. state.items \in Seq(R)
      BY RowsShown
    <3> HIDE DEF R
    <3>2. IsFiniteSet(rows) /\ rows \subseteq Nat
      BY <1>4, <3>1, AtIs
    <3> QED
      BY <3>2
  <2>2. \E r \in rows : \A q \in rows : q <= r
    BY <2>1, GreatestNumber
  <2>3. place \in rows
    BY <2>2
  <2> HIDE DEF place
  <2> QED
    BY <1>4, <2>3
<1>6. count \in Nat
  BY DataAssumption
<1>7. none \in Seq(Int)
  OBVIOUS
<1> HIDE DEF place, none
<1>8. other \in Workspace /\ Len(other.items) >= Len(state.items)
  BY <1>4, <1>5, <1>6, <1>7, WithDocumentIs
<1> HIDE DEF other
<1>9. s \in Workspace /\ rows \in SUBSET DOMAIN s.items
  <2>1. s \in Workspace /\ Len(s.items) >= Len(state.items)
    BY <1>3, <1>4, <1>8
  <2>2. Len(s.items) \in Nat /\ DOMAIN s.items = 1 .. Len(s.items)
    <3> DEFINE R == RowsOf(Pages)
    <3>1. s.items \in Seq(R)
      BY <2>1, WorkspaceHolds
    <3> HIDE DEF R
    <3> QED
      BY <3>1, LenProperties
  <2>3. \A i \in 1 .. Len(state.items) : i \in 1 .. Len(s.items)
    BY <1>4, <2>1, <2>2
  <2> QED
    BY <1>4, <2>1, <2>2, <2>3
<1>10. state' \in Workspace
  <2>1. Removed(s, rows) \in Workspace
    BY <1>9, TrashIs
  <2> QED
    BY <1>3, <2>1
<1> DEFINE W == Workspace
           steps == IF s = state THEN <<state>> ELSE <<state, s>>
           more == undo \o steps
<1>11. undo \in Seq(W) /\ steps \in Seq(W) /\ undo' = Clamped(more)
  <2>1. undo \in Seq(W)
    BY DEF WorkspaceInv, Holds
  <2>2. undo' = Clamped(more)
    BY <1>3
  <2>3. state \in W /\ s \in W
    BY <1>4, <1>9
  <2> HIDE DEF W, more
  <2>4. steps \in Seq(W)
    BY <2>3
  <2> QED
    BY <2>1, <2>2, <2>4
<1> HIDE DEF W, steps
<1>12. more \in Seq(W)
  BY <1>11, ConcatProperties
<1> HIDE DEF more
<1>13. Clamped(more) \in Seq(W)
  BY <1>12, ClampedSteps
<1>14. undo' \in Seq(W) /\ redo' \in Seq(W)
  BY <1>3, <1>11, <1>13, EmptySeq
<1> QED
  BY <1>3, <1>10, <1>14 DEF WorkspaceInv, Holds, W

\* One step back in the history.
LEMMA UndoKeeps == WorkspaceInv /\ Undo => WorkspaceInv'
<1> SUFFICES ASSUME WorkspaceInv, Undo PROVE WorkspaceInv'
  OBVIOUS
<1> DEFINE W == Workspace
           more == Append(redo, state)
<1>1. undo \in Seq(W) /\ state \in W /\ redo \in Seq(W)
  BY DEF WorkspaceInv, Holds
<1>2. /\ undo # <<>> /\ state' = Last(undo) /\ undo' = Front(undo) /\ redo' = Clamped(more)
      /\ UNCHANGED <<checkpoints, clipboard, project>>
  BY DEF Undo
<1> HIDE DEF W
<1>3. more \in Seq(W)
  BY <1>1, AppendProperties
<1> HIDE DEF more
<1>4. Clamped(more) \in Seq(W)
  BY <1>3, ClampedSteps
<1>5. Last(undo) \in W /\ Front(undo) \in Seq(W)
  BY <1>1, <1>2, FrontAndLast
<1>6. state' \in W /\ undo' \in Seq(W) /\ redo' \in Seq(W)
  BY <1>2, <1>4, <1>5
<1> QED
  BY <1>2, <1>6 DEF WorkspaceInv, Holds, W

\* One step forward.
LEMMA RedoKeeps == WorkspaceInv /\ Redo => WorkspaceInv'
<1> SUFFICES ASSUME WorkspaceInv, Redo PROVE WorkspaceInv'
  OBVIOUS
<1> DEFINE W == Workspace
           more == Append(undo, state)
<1>1. undo \in Seq(W) /\ state \in W /\ redo \in Seq(W)
  BY DEF WorkspaceInv, Holds
<1>2. /\ redo # <<>> /\ state' = Last(redo) /\ redo' = Front(redo) /\ undo' = Clamped(more)
      /\ UNCHANGED <<checkpoints, clipboard, project>>
  BY DEF Redo
<1> HIDE DEF W
<1>3. more \in Seq(W)
  BY <1>1, AppendProperties
<1> HIDE DEF more
<1>4. Clamped(more) \in Seq(W)
  BY <1>3, ClampedSteps
<1>5. Last(redo) \in W /\ Front(redo) \in Seq(W)
  BY <1>1, <1>2, FrontAndLast
<1>6. state' \in W /\ undo' \in Seq(W) /\ redo' \in Seq(W)
  BY <1>2, <1>4, <1>5
<1> QED
  BY <1>2, <1>6 DEF WorkspaceInv, Holds, W

\* Another workspace without a history.
LEMMA Replaced ==
    ASSUME WorkspaceInv, NEW new \in Workspace, Replace(new), UNCHANGED <<clipboard, project>>,
           checkpoints' \subseteq Seq(RowsOf(Pages))
    PROVE  WorkspaceInv'
<1> DEFINE W == Workspace
<1>1. state' \in W /\ undo' = <<>> /\ redo' = <<>>
  BY DEF Replace
<1> HIDE DEF W
<1>2. undo' \in Seq(W) /\ redo' \in Seq(W)
  BY <1>1, EmptySeq
<1> QED
  BY <1>1, <1>2 DEF WorkspaceInv, Holds, W

\* No rows are rows of anything.
LEMMA NoRows == \A documents, images : <<>> \in Seq(RowsOf(PagesOf(documents, images)))
OBVIOUS

\* Everything cleared.
LEMMA ClearKeeps == WorkspaceInv /\ Clear => WorkspaceInv'
<1> SUFFICES ASSUME WorkspaceInv, Clear PROVE WorkspaceInv'
  OBVIOUS
<1> DEFINE none == <<>>
           new == [items |-> none, trash |-> none, documents |-> none, images |-> 0]
<1>1. Replace(new) /\ UNCHANGED <<clipboard, project>> /\ checkpoints' = {}
  BY DEF Clear
<1>2. none \in Loaded
  BY DEF Loaded
<1>3. none \in Seq(RowsOf(PagesOf(none, 0)))
  BY NoRows
<1> HIDE DEF none
<1>4. new \in Workspace
  BY <1>2, <1>3, WorkspaceOf
<1> HIDE DEF new
<1> QED
  BY <1>1, <1>4, Replaced

\* The rows shown become a checkpoint.
LEMMA SaveCheckpointKeeps == WorkspaceInv /\ SaveCheckpoint => WorkspaceInv'
<1> SUFFICES ASSUME WorkspaceInv, SaveCheckpoint PROVE WorkspaceInv'
  OBVIOUS
<1>1. checkpoints' = checkpoints \cup {state.items} /\ UNCHANGED <<state, undo, redo, clipboard, project>>
  BY DEF SaveCheckpoint
<1>2. state.items \in Seq(RowsOf(Pages))
  BY RowsShown, WorkspaceHolds
<1>3. checkpoints' \subseteq Seq(RowsOf(Pages))
  BY <1>1, <1>2 DEF WorkspaceInv
<1> QED
  BY <1>1, <1>3 DEF WorkspaceInv, Holds

\* A checkpoint shown if its pages are there.
LEMMA LoadCheckpointKeeps == WorkspaceInv /\ LoadCheckpoint => WorkspaceInv'
<1> SUFFICES ASSUME WorkspaceInv, LoadCheckpoint PROVE WorkspaceInv'
  OBVIOUS
<1>1. PICK items \in checkpoints :
         /\ UNCHANGED <<checkpoints, clipboard, project>>
         /\ IF Restorable(state, items)
            THEN Replace([state EXCEPT !.items = items, !.trash = <<>>])
            ELSE UNCHANGED <<state, undo, redo>>
  BY DEF LoadCheckpoint
<1> DEFINE none == <<>>
           new == [state EXCEPT !.items = items, !.trash = none]
<1>2. CASE Restorable(state, items)
  <2>1. Replace(new)
    BY <1>1, <1>2
  <2>2. state \in Workspace
    BY RowsShown
  <2>3. none \in Seq(RowsOf(PagesOf(state.documents, state.images)))
    BY NoRows
  <2>4. items \in Seq(RowsOf(Pages)) /\ checkpoints' \subseteq Seq(RowsOf(Pages))
    BY <1>1 DEF WorkspaceInv
  <2>5. items \in Seq(RowsOf(PagesOf(state.documents, state.images)))
    BY <1>2, <2>4, RestorableIs
  <2> HIDE DEF none
  <2>6. new \in Workspace
    BY <2>2, <2>3, <2>5, WithRowsAndTrash
  <2> HIDE DEF new
  <2> QED
    BY <1>1, <2>1, <2>4, <2>6, Replaced
<1>3. CASE ~Restorable(state, items)
  BY <1>1, <1>3, WorkspaceKept
<1> QED
  BY <1>2, <1>3

\* The workspace file written.
LEMMA SaveWorkspaceKeeps == WorkspaceInv /\ SaveWorkspace => WorkspaceInv'
<1> SUFFICES ASSUME WorkspaceInv, SaveWorkspace PROVE WorkspaceInv'
  OBVIOUS
<1> DEFINE saved == [state |-> state, checkpoints |-> checkpoints]
<1>1. project' = {saved} /\ UNCHANGED <<state, undo, redo, checkpoints, clipboard>>
  BY DEF SaveWorkspace
<1>2. saved.state \in Workspace /\ saved.checkpoints \subseteq Seq(RowsOf(Pages))
  BY RowsShown DEF WorkspaceInv
<1> HIDE DEF saved
<1>3. \A p \in project' : p.state \in Workspace /\ p.checkpoints \subseteq Seq(RowsOf(Pages))
  BY <1>1, <1>2
<1> QED
  BY <1>1, <1>3 DEF WorkspaceInv, Holds

\* The workspace file read, with the documents as they are by then.
LEMMA OpenWorkspaceKeeps == WorkspaceInv /\ OpenWorkspace => WorkspaceInv'
<1> SUFFICES ASSUME WorkspaceInv, OpenWorkspace PROVE WorkspaceInv'
  OBVIOUS
<1>1. PICK p \in project : \E counts \in [DOMAIN p.state.documents -> UNION {Counts[f] : f \in Files}] :
         LET documents == [d \in DOMAIN counts |-> [p.state.documents[d] EXCEPT !.count = counts[d]]]
             loaded == [p.state EXCEPT !.items = <<>>, !.trash = <<>>, !.documents = documents]
         IN  /\ IF Restorable(loaded, p.state.items)
                THEN Replace([loaded EXCEPT !.items = p.state.items]) /\ checkpoints' = p.checkpoints
                ELSE Replace(loaded) /\ UNCHANGED checkpoints
             /\ UNCHANGED <<clipboard, project>>
  BY DEF OpenWorkspace
<1> DEFINE saved == p.state
<1>2. PICK counts \in [DOMAIN saved.documents -> UNION {Counts[f] : f \in Files}] :
         LET documents == [d \in DOMAIN counts |-> [saved.documents[d] EXCEPT !.count = counts[d]]]
             loaded == [saved EXCEPT !.items = <<>>, !.trash = <<>>, !.documents = documents]
         IN  /\ IF Restorable(loaded, saved.items)
                THEN Replace([loaded EXCEPT !.items = saved.items]) /\ checkpoints' = p.checkpoints
                ELSE Replace(loaded) /\ UNCHANGED checkpoints
             /\ UNCHANGED <<clipboard, project>>
  BY <1>1
<1> DEFINE documents == [d \in DOMAIN counts |-> [saved.documents[d] EXCEPT !.count = counts[d]]]
           loaded == [saved EXCEPT !.items = <<>>, !.trash = <<>>, !.documents = documents]
           items == saved.items
<1>3. /\ \/ /\ Restorable(loaded, items)
            /\ Replace([loaded EXCEPT !.items = items]) /\ checkpoints' = p.checkpoints
         \/ Replace(loaded) /\ checkpoints' = checkpoints
      /\ UNCHANGED <<clipboard, project>>
  BY <1>2
<1>4. saved \in Workspace /\ p.checkpoints \subseteq Seq(RowsOf(Pages)) /\ checkpoints \subseteq Seq(RowsOf(Pages))
  BY DEF WorkspaceInv
<1>5. items \in Seq(RowsOf(Pages))
  BY <1>4, WorkspaceHolds
<1>6. counts \in [DOMAIN saved.documents -> Nat]
  <2>1. UNION {Counts[f] : f \in Files} \subseteq Nat
    BY DataAssumption
  <2> HIDE DEF saved
  <2> QED
    BY <2>1
<1>7. ReadAnew(documents, saved, counts)
  BY DEF ReadAnew
<1> HIDE DEF saved, documents
<1>8. loaded \in Workspace
  BY <1>4, <1>6, <1>7, ReloadedIs
<1> HIDE DEF loaded, items
<1>9. CASE Replace(loaded) /\ checkpoints' = checkpoints
  BY <1>3, <1>4, <1>8, <1>9, Replaced
<1>10. CASE Restorable(loaded, items) /\ Replace([loaded EXCEPT !.items = items]) /\ checkpoints' = p.checkpoints
  <2> DEFINE new == [loaded EXCEPT !.items = items]
  <2>1. items \in Seq(RowsOf(PagesOf(loaded.documents, loaded.images)))
    BY <1>5, <1>10, RestorableIs
  <2>2. new \in Workspace
    BY <1>8, <2>1, WithRows
  <2>3. Replace(new)
    BY <1>10
  <2> HIDE DEF new
  <2> QED
    BY <1>3, <1>4, <1>10, <2>2, <2>3, Replaced
<1> QED
  BY <1>3, <1>9, <1>10

-----------------------------------------------------------------------------
(* The theorems about the workspace. *)

\* The model starts with a workspace and no history.
LEMMA WorkspaceInitially == Init => WorkspaceInv
<1> SUFFICES ASSUME Init PROVE WorkspaceInv
  OBVIOUS
<1> DEFINE W == Workspace
<1>1. state \in W
  BY DataAssumption DEF Init
<1>2. undo = <<>> /\ redo = <<>> /\ checkpoints = {} /\ project = {} /\ clipboard = [rows |-> {}, move |-> FALSE]
  BY DEF Init
<1> HIDE DEF W
<1>3. undo \in Seq(W) /\ redo \in Seq(W)
  BY <1>2, EmptySeq
<1> QED
  BY <1>1, <1>2, <1>3 DEF WorkspaceInv, Holds, W

\* Every step keeps the invariant.
LEMMA WorkspaceStep == WorkspaceInv /\ [Next]_vars => WorkspaceInv'
<1> SUFFICES ASSUME WorkspaceInv, [Next]_vars PROVE WorkspaceInv'
  OBVIOUS
<1>1. CASE UNCHANGED vars
  BY <1>1, WorkspaceKept DEF vars
<1>2. CASE InsertDocument \/ InsertImage \/ InsertEmptyPage \/ Clone \/ Rotate
  BY <1>2, InsertDocumentKeeps, InsertImageKeeps, InsertEmptyPageKeeps, CloneKeeps, RotateKeeps
<1>3. CASE Rearranging
  BY <1>3, GroupKeeps, UngroupKeeps, RegroupKeeps, RemoveSelectionKeeps, RestoreRemovedItemsKeeps,
     ReverseItemsKeeps, SortItemsKeeps DEF Rearranging
<1>4. CASE Drop \/ CutOrCopy \/ Paste \/ ReplaceSelection
  BY <1>4, DropKeeps, CutOrCopyKeeps, PasteKeeps, ReplaceSelectionKeeps
<1>5. CASE Undo \/ Redo \/ Clear
  BY <1>5, UndoKeeps, RedoKeeps, ClearKeeps
<1>6. CASE SaveCheckpoint \/ LoadCheckpoint \/ SaveWorkspace \/ OpenWorkspace
  BY <1>6, SaveCheckpointKeeps, LoadCheckpointKeeps, SaveWorkspaceKeeps, OpenWorkspaceKeeps
<1> QED
  BY <1>1, <1>2, <1>3, <1>4, <1>5, <1>6 DEF Next

\* Whatever is done, the workspace is well-formed.
LEMMA WorkspaceInvariance == Spec => []WorkspaceInv
<1> QED
  BY WorkspaceInitially, WorkspaceStep, PTL DEF Spec

\* The pages of a workspace are pages of what it has loaded.
LEMMA WorkspaceResolves ==
    ASSUME NEW s \in Workspace
    PROVE  /\ \A page \in ToSet(FlattenSeq(s.items \o s.trash)) :
                 CASE page.type = "document" ->
                           /\ page.source \in DOMAIN s.documents
                           /\ page.page \in 1..s.documents[page.source].count
                   [] page.type = "image" -> page.source \in 1..s.images
                   [] page.type = "empty" -> TRUE
           /\ \A row \in ToSet(s.items \o s.trash) : row # <<>>
           /\ \A d, e \in DOMAIN s.documents : s.documents[d].file = s.documents[e].file => d = e
<1> DEFINE P == PagesOf(s.documents, s.images)
           R == RowsOf(P)
           all == s.items \o s.trash
           pages == FlattenSeq(all)
<1>1. s.documents \in Loaded /\ s.items \in Seq(R) /\ s.trash \in Seq(R)
  BY WorkspaceHolds
<1>2. all \in Seq(R)
  <2> HIDE DEF R
  <2> QED
    BY <1>1, ConcatProperties
<1> HIDE DEF all, P
<1>3. pages \in Seq(P)
  BY <1>2, FlattenedIs
<1>4. ASSUME NEW page \in ToSet(pages) PROVE page \in P
  <2> HIDE DEF pages
  <2>1. PICK k \in DOMAIN pages : pages[k] = page
    BY DEF ToSet
  <2>2. k \in 1 .. Len(pages)
    BY <1>3, LenProperties
  <2> QED
    BY <1>3, <2>1, <2>2, ElementOfSeq
<1>5. ASSUME NEW page \in P
      PROVE  CASE page.type = "document" ->
                      /\ page.source \in DOMAIN s.documents
                      /\ page.page \in 1..s.documents[page.source].count
              [] page.type = "image" -> page.source \in 1..s.images
              [] page.type = "empty" -> TRUE
  <2>1. page.type \in {"document", "image", "empty"}
    BY DEF P, PagesOf, Pages
  <2>2. page.type = "document" => page.source \in DOMAIN s.documents /\ page.page \in 1..s.documents[page.source].count
    BY DEF P, PagesOf
  <2>3. page.type = "image" => page.source \in 1..s.images
    BY DEF P, PagesOf
  <2> QED
    BY <2>1, <2>2, <2>3
<1>6. ASSUME NEW row \in ToSet(all) PROVE row # <<>>
  <2>1. PICK r \in DOMAIN all : all[r] = row
    BY DEF ToSet
  <2>2. r \in 1 .. Len(all)
    BY <1>2, LenProperties
  <2>3. all[r] # <<>>
    BY <1>2, <2>2, RowsOfPages
  <2> QED
    BY <2>1, <2>3
<1>7. \A d, e \in DOMAIN s.documents : s.documents[d].file = s.documents[e].file => d = e
  BY <1>1 DEF Loaded
<1> QED
  BY <1>4, <1>5, <1>6, <1>7 DEF all, pages

\* Every page shown, in the trash or in a snapshot is a page of a document or an image that its
\* own workspace has loaded, and no row is without a page, for all files, page counts and limits.
THEOREM PagesResolve == Spec => []Resolvable
<1>1. ASSUME WorkspaceInv PROVE Resolvable
  <2>1. undo \in Seq(Workspace) /\ state \in Workspace /\ redo \in Seq(Workspace)
    BY <1>1 DEF WorkspaceInv, Holds
  <2>2. \A s \in {state} \cup ToSet(undo) \cup ToSet(redo) : s \in Workspace
    <3> DEFINE W == Workspace
    <3>1. undo \in Seq(W) /\ state \in W /\ redo \in Seq(W)
      BY <2>1
    <3> HIDE DEF W
    <3>2. \A x \in Seq(W) : \A s \in ToSet(x) : s \in W
      <4> SUFFICES ASSUME NEW x \in Seq(W), NEW s \in ToSet(x) PROVE s \in W
        OBVIOUS
      <4>1. PICK k \in DOMAIN x : x[k] = s
        BY DEF ToSet
      <4>2. k \in 1 .. Len(x)
        BY LenProperties
      <4> QED
        BY <4>1, <4>2, ElementOfSeq
    <3> QED
      BY <3>1, <3>2 DEF W
  <2> QED
    BY <2>2, WorkspaceResolves DEF Resolvable
<1> QED
  BY <1>1, WorkspaceInvariance, PTL

\* However rows are dropped, those not moved keep their order around the place of the drop, and
\* taking pages out keeps theirs, for all workspaces and selections.
THEOREM DropsSplice == Spec => []DropIsSplice
<1>1. ASSUME WorkspaceInv PROVE DropIsSplice
  <2> DEFINE P == PagesOf(state.documents, state.images)
  <2>1. state.items \in Seq(RowsOf(P))
    BY <1>1, RowsShown
  <2> HIDE DEF P
  <2>2. state.items \in Seq(Seq(P))
    BY <2>1, RowsOfPages
  <2> QED
    BY <2>2, DropsAreSplices
<1> QED
  BY <1>1, WorkspaceInvariance, PTL

\* Whatever the split, the documents exported hold the pages once and in their order, none is
\* empty, and a split by size fills each as far as it goes, for all workspaces.
THEOREM SplitsPartitionPages == Spec => []SplitsPartition
<1>1. ASSUME WorkspaceInv PROVE SplitsPartition
  <2> DEFINE P == PagesOf(state.documents, state.images)
  <2>1. state.items \in Seq(RowsOf(P))
    BY <1>1, RowsShown
  <2> HIDE DEF P
  <2> QED
    BY <2>1, SplitsArePartitions
<1> QED
  BY <1>1, WorkspaceInvariance, PTL
=============================================================================
