---------------------------- MODULE StoreCallProofs ----------------------------
(***************************************************************************)
(* What every method of the two stores does, for any data: the lemmas that *)
(* module StoreProofs puts together.  They are in four layers.             *)
(*   - Slices: a Go slice without repeated rows under append, replacement, *)
(*     cutting out and copying.  What the copying loop computes is shown   *)
(*     from its smallest counterexample.                                   *)
(*   - Tables and view: one table replaced, one slice or map replaced, and *)
(*     the view of the one as the other.                                   *)
(*   - Replies: the loops of the in-memory store against the statements of *)
(*     the SQL store, for rows found by a key.                             *)
(*   - Methods: one lemma <Method>Call each.  The SQL method keeps the keys *)
(*     of the tables (Step), and the in-memory method over slices that the *)
(*     tables are the view of gives the same reply and leaves the same     *)
(*     data (Agree), up to the differences StoreRefinement names.          *)
(***************************************************************************)
EXTENDS StoreRefinement, FiniteSetTheorems, SequenceTheorems, WellFoundedInduction, TLAPS

(* Slices *)

\* A slice whose rows are all different.
Slice(s) ==
  /\ s \in Seq(Rows(s))
  /\ \A i, j \in DOMAIN s : s[i] = s[j] => i = j

\* A row is a row of the slice at some place.
LEMMA SliceRows ==
  ASSUME NEW s, Slice(s)
  PROVE  /\ Len(s) \in Nat /\ DOMAIN s = 1 .. Len(s)
         /\ s = [i \in 1 .. Len(s) |-> s[i]]
         /\ \A i \in DOMAIN s : s[i] \in Rows(s)
         /\ \A r : r \in Rows(s) <=> \E i \in DOMAIN s : s[i] = r
  BY DEF Slice, Rows

\* What makes a sequence of given length a slice.
LEMMA IsSlice ==
  ASSUME NEW s, NEW n \in Nat, s = [i \in 1 .. n |-> s[i]],
         \A i, j \in 1 .. n : s[i] = s[j] => i = j
  PROVE  Slice(s) /\ Len(s) = n
<1>1. DOMAIN s = 1 .. n
  OBVIOUS
<1>2. \A i \in 1 .. n : s[i] \in Rows(s)
  BY <1>1 DEF Rows
<1>3. s \in Seq(Rows(s)) /\ Len(s) = n
  <2>1. PICK R : R = Rows(s)
    OBVIOUS
  <2>2. s \in [1 .. n -> R]
    BY <1>2, <2>1
  <2> QED
    BY <2>1, <2>2
<1> QED
  BY <1>1, <1>3 DEF Slice

\* The empty slice.
LEMMA EmptySlice == Slice(<<>>) /\ Rows(<<>>) = {}
  BY DEF Slice, Rows

\* A new row at the end.
LEMMA AppendSlice ==
  ASSUME NEW s, Slice(s), NEW x, x \notin Rows(s)
  PROVE  Slice(Append(s, x)) /\ Rows(Append(s, x)) = Rows(s) \cup {x}
<1> DEFINE n == Len(s)
           y == Append(s, x)
<1>1. n \in Nat /\ DOMAIN s = 1 .. n /\ \A i \in 1 .. n : s[i] \in Rows(s)
  BY SliceRows
<1>2. /\ y \in Seq(Rows(s) \cup {x}) /\ Len(y) = n + 1
      /\ \A i \in 1 .. n : y[i] = s[i]
      /\ y[n + 1] = x
  <2>1. PICK R : R = Rows(s) \cup {x}
    OBVIOUS
  <2>2. s \in Seq(R) /\ x \in R
    BY <2>1 DEF Slice
  <2> QED
    BY ONLY <2>1, <2>2, AppendProperties
<1>3. y = [i \in 1 .. n + 1 |-> y[i]] /\ n + 1 \in Nat
  <2> HIDE DEF y, n
  <2> QED
    BY ONLY <1>1, <1>2
<1>4. \A i, j \in 1 .. n : s[i] = s[j] => i = j
  BY <1>1 DEF Slice
<1> HIDE DEF y, n
<1>5. \A i, j \in 1 .. n + 1 : y[i] = y[j] => i = j
  BY <1>1, <1>2, <1>4
<1>6. Slice(y)
  BY <1>3, <1>5, IsSlice
<1>7. Rows(y) = Rows(s) \cup {x}
  <2>1. Rows(y) = {y[i] : i \in 1 .. n + 1} /\ Rows(s) = {s[i] : i \in 1 .. n}
    BY <1>1, <1>3 DEF Rows
  <2>2. \A i \in 1 .. n + 1 : i \in 1 .. n \/ i = n + 1
    BY <1>1
  <2>3. (\A i \in 1 .. n : i \in 1 .. n + 1) /\ n + 1 \in 1 .. n + 1
    BY <1>1
  <2> QED
    BY ONLY <1>2, <2>1, <2>2, <2>3
<1> QED
  BY <1>6, <1>7 DEF y

\* The row at a place is replaced.
Put(s, i, x) == [s EXCEPT ![i] = x]

\* A row is changed in place.
LEMMA ChangeSlice ==
  ASSUME NEW s, Slice(s), NEW i \in DOMAIN s, NEW x, x \notin Rows(s) \ {s[i]}
  PROVE  Slice(Put(s, i, x)) /\ Rows(Put(s, i, x)) = (Rows(s) \ {s[i]}) \cup {x}
<1> DEFINE n == Len(s)
           y == Put(s, i, x)
<1>1. n \in Nat /\ DOMAIN s = 1 .. n /\ \A k \in 1 .. n : s[k] \in Rows(s)
  BY SliceRows
<1>2. y = [k \in 1 .. n |-> IF k = i THEN x ELSE s[k]]
  BY <1>1 DEF Put
<1>3. \A k, j \in 1 .. n : s[k] = s[j] => k = j
  BY <1>1 DEF Slice
<1> HIDE DEF y, n
<1>4. \A k, j \in 1 .. n : y[k] = y[j] => k = j
  BY <1>1, <1>2, <1>3
<1>5. Slice(y)
  BY <1>1, <1>2, <1>4, IsSlice
<1>6. Rows(y) = (Rows(s) \ {s[i]}) \cup {x}
  BY <1>1, <1>2, <1>3 DEF Rows
<1> QED
  BY <1>5, <1>6 DEF y

\* A row is cut out.
LEMMA CutSlice ==
  ASSUME NEW s, Slice(s), NEW i \in DOMAIN s
  PROVE  /\ Slice(Mem!RemoveAt(s, i))
         /\ Rows(Mem!RemoveAt(s, i)) = Rows(s) \ {s[i]}
<1> DEFINE n == Len(s)
           y == Mem!RemoveAt(s, i)
           a == SubSeq(s, 1, i - 1)
           b == SubSeq(s, i + 1, n)
<1>1. n \in Nat /\ DOMAIN s = 1 .. n /\ \A k \in 1 .. n : s[k] \in Rows(s)
  BY SliceRows
<1>2. s \in Seq(Rows(s)) /\ i \in 1 .. n
  BY <1>1 DEF Slice
<1>3. y = a \o b
  BY DEF Mem!RemoveAt
<1>4. a \in Seq(Rows(s)) /\ Len(a) = i - 1 /\ \A k \in 1 .. i - 1 : a[k] = s[k]
  <2>1. PICK R : R = Rows(s)
    OBVIOUS
  <2>2. s \in Seq(R)
    BY <1>2, <2>1
  <2> QED
    BY <1>1, <1>2, <2>1, <2>2, SubSeqProperties
<1>5. b \in Seq(Rows(s)) /\ Len(b) = n - i /\ \A k \in 1 .. n - i : b[k] = s[i + k]
  <2>1. PICK R : R = Rows(s)
    OBVIOUS
  <2>2. s \in Seq(R)
    BY <1>2, <2>1
  <2> QED
    BY <1>1, <1>2, <2>1, <2>2, SubSeqProperties
<1> HIDE DEF y, n, a, b
<1>6. y = [k \in 1 .. n - 1 |-> IF k < i THEN s[k] ELSE s[k + 1]]
  <2>1. PICK R : R = Rows(s)
    OBVIOUS
  <2>2. a \in Seq(R) /\ b \in Seq(R)
    BY <1>4, <1>5, <2>1
  <2>3. y \in Seq(R) /\ Len(y) = (i - 1) + (n - i)
        /\ \A k \in 1 .. (i - 1) + (n - i) :
             y[k] = IF k <= i - 1 THEN a[k] ELSE b[k - (i - 1)]
    <3>1. /\ a \o b \in Seq(R) /\ Len(a \o b) = Len(a) + Len(b)
          /\ \A k \in 1 .. Len(a) + Len(b) :
               (a \o b)[k] = IF k <= Len(a) THEN a[k] ELSE b[k - Len(a)]
      BY ONLY <2>2, ConcatProperties
    <3> QED
      BY <1>3, <1>4, <1>5, <3>1
  <2>4. (i - 1) + (n - i) = n - 1 /\ n - 1 \in Nat
    BY <1>1, <1>2
  <2>5. \A k \in 1 .. n - 1 : y[k] = IF k < i THEN s[k] ELSE s[k + 1]
    <3> SUFFICES ASSUME NEW k \in 1 .. n - 1 PROVE y[k] = IF k < i THEN s[k] ELSE s[k + 1]
      OBVIOUS
    <3>1. y[k] = IF k <= i - 1 THEN a[k] ELSE b[k - (i - 1)]
      BY <2>3, <2>4
    <3>2. CASE k < i
      BY <1>1, <1>2, <1>4, <3>1, <3>2
    <3>3. CASE ~ (k < i)
      <4>1. k - (i - 1) \in 1 .. n - i /\ i + (k - (i - 1)) = k + 1 /\ ~ (k <= i - 1)
        BY <1>1, <1>2, <3>3
      <4> QED
        BY <1>5, <3>1, <3>3, <4>1
    <3> QED
      BY <3>2, <3>3
  <2>6. y = [k \in 1 .. n - 1 |-> y[k]]
    BY <2>3, <2>4
  <2> QED
    BY <2>5, <2>6
<1>7. \A k, j \in 1 .. n : s[k] = s[j] => k = j
  BY <1>1 DEF Slice
<1>8. \A k, j \in 1 .. n - 1 : y[k] = y[j] => k = j
  BY <1>1, <1>2, <1>6, <1>7
<1>9. Slice(y)
  <2>1. n - 1 \in Nat
    BY <1>1, <1>2
  <2>2. y = [k \in 1 .. n - 1 |-> y[k]]
    BY <1>6
  <2> QED
    BY ONLY <1>8, <2>1, <2>2, IsSlice
<1>10. \A r : r \in Rows(y) => r \in Rows(s) /\ r # s[i]
  <2> SUFFICES ASSUME NEW r \in Rows(y) PROVE r \in Rows(s) /\ r # s[i]
    OBVIOUS
  <2>1. DOMAIN y = 1 .. n - 1
    BY ONLY <1>6
  <2>2. PICK k \in 1 .. n - 1 : r = y[k]
    BY ONLY <2>1, r \in Rows(y) DEF Rows
  <2>3. PICK j \in 1 .. n : j # i /\ r = s[j]
    <3>1. CASE k < i
      <4>1. k \in 1 .. n /\ k # i /\ r = s[k]
        BY ONLY <1>1, <1>2, <1>6, <2>2, <3>1
      <4> QED
        BY ONLY <4>1
    <3>2. CASE ~ (k < i)
      <4>1. k + 1 \in 1 .. n /\ k + 1 # i /\ r = s[k + 1]
        BY ONLY <1>1, <1>2, <1>6, <2>2, <3>2
      <4> QED
        BY ONLY <4>1
    <3> QED
      BY ONLY <3>1, <3>2
  <2>4. s[j] \in Rows(s)
    BY ONLY <1>1
  <2> QED
    BY ONLY <1>2, <1>7, <2>3, <2>4
<1>11. ASSUME NEW r \in Rows(s), r # s[i] PROVE r \in Rows(y)
  <2>1. PICK k \in 1 .. n : r = s[k]
    BY <1>1 DEF Rows
  <2>2. CASE k < i
    <3>1. k \in 1 .. n - 1 /\ y[k] = r
      BY <1>1, <1>2, <1>6, <2>1, <2>2
    <3> QED
      BY <3>1, <1>6 DEF Rows
  <2>3. CASE k > i
    <3>1. k - 1 \in 1 .. n - 1 /\ y[k - 1] = r
      BY <1>1, <1>2, <1>6, <2>1, <2>3
    <3> QED
      BY <3>1, <1>6 DEF Rows
  <2> QED
    BY <1>1, <1>2, <1>11, <2>1, <2>2, <2>3
<1> QED
  BY <1>9, <1>10, <1>11 DEF y

\* The smallest element of a nonempty set of numbers.
LEMMA Smallest ==
  ASSUME NEW I, I \subseteq Nat, I # {}
  PROVE  \E x \in I : \A y \in I : ~ (y < x)
<1>1. PICK x \in I : \A y \in I : ~ (<<y, x>> \in OpToRel(<, Nat))
  BY WFMin, NatLessThanWellFounded
<1>2. \A y \in I : ~ (y < x)
  <2> SUFFICES ASSUME NEW y \in I, y < x PROVE FALSE
    OBVIOUS
  <2>1. <<y, x>> \in Nat \X Nat /\ <<y, x>>[1] < <<y, x>>[2]
    OBVIOUS
  <2> QED
    BY <1>1, <2>1 DEF OpToRel
<1> QED
  BY <1>2

\* What the loop of Remaining has made of the first k rows is f[k].
Loop(f, k, s, G) ==
  /\ f = [i \in 0 .. k |-> f[i]]
  /\ f[0] = <<>>
  /\ \A i \in 1 .. k : f[i] = IF s[i] \in G THEN f[i - 1] ELSE Append(f[i - 1], s[i])

\* The loop over the rows ends: its function exists.
LEMMA RemainingIs ==
  ASSUME NEW s, Slice(s), NEW G
  PROVE  \E f : Mem!Remaining(s, G) = f[Len(s)] /\ Loop(f, Len(s), s, G)
<1> DEFINE n == Len(s)
           Good(k) == \E f : Loop(f, k, s, G)
           Bad == {k \in 0 .. n : ~ Good(k)}
<1>1. n \in Nat
  BY SliceRows
<1>2. Good(n)
  <2> HIDE DEF Good
  <2>1. SUFFICES ASSUME Bad # {} PROVE FALSE
    BY <1>1
  <2>2. PICK k \in 0 .. n : ~ Good(k) /\ \A j \in 0 .. n : ~ Good(j) => ~ (j < k)
    <3>1. Bad \subseteq Nat
      BY <1>1
    <3>2. PICK k \in Bad : \A j \in Bad : ~ (j < k)
      <4> HIDE DEF Bad
      <4> QED
        BY <2>1, <3>1, Smallest
    <3> QED
      BY <3>2
  <2>3. k # 0
    <3>1. PICK f : f = [i \in 0 .. 0 |-> <<>>]
      OBVIOUS
    <3>2. Loop(f, 0, s, G)
      BY <3>1 DEF Loop
    <3> QED
      BY <2>2, <3>2 DEF Good
  <2>4. k - 1 \in 0 .. n /\ k - 1 < k
    BY <1>1, <2>2, <2>3
  <2>5. PICK f : Loop(f, k - 1, s, G)
    BY <2>2, <2>4 DEF Good
  <2>6. PICK g : g = [i \in 0 .. k |-> IF i = k
                        THEN IF s[k] \in G THEN f[k - 1] ELSE Append(f[k - 1], s[k])
                        ELSE f[i]]
    BY ONLY <2>4
  <2>7. /\ \A i \in 0 .. k - 1 : i \in 0 .. k /\ i # k /\ g[i] = f[i]
        /\ k \in 0 .. k /\ k - 1 \in 0 .. k - 1 /\ 0 \in 0 .. k - 1
    BY <1>1, <2>2, <2>3, <2>6
  <2>8. g[k] = IF s[k] \in G THEN g[k - 1] ELSE Append(g[k - 1], s[k])
    BY <2>6, <2>7
  <2>9. g[0] = <<>>
    BY <2>5, <2>7 DEF Loop
  <2>10. \A i \in 1 .. k - 1 : g[i] = IF s[i] \in G THEN g[i - 1] ELSE Append(g[i - 1], s[i])
    <3> SUFFICES ASSUME NEW i \in 1 .. k - 1
                 PROVE  g[i] = IF s[i] \in G THEN g[i - 1] ELSE Append(g[i - 1], s[i])
      OBVIOUS
    <3>1. i \in 0 .. k - 1 /\ i - 1 \in 0 .. k - 1
      BY <1>1, <2>2, <2>3
    <3> QED
      BY <2>5, <2>7, <3>1 DEF Loop
  <2>11. \A i \in 1 .. k : i \in 1 .. k - 1 \/ i = k
    BY <1>1, <2>2
  <2>12. Loop(g, k, s, G)
    <3>1. g = [i \in 0 .. k |-> g[i]]
      BY <2>6
    <3>2. \A i \in 1 .. k : g[i] = IF s[i] \in G THEN g[i - 1] ELSE Append(g[i - 1], s[i])
      BY ONLY <2>8, <2>10, <2>11
    <3> QED
      BY ONLY <2>9, <3>1, <3>2 DEF Loop
  <2> QED
    BY <2>2, <2>12 DEF Good
<1> DEFINE def(f) == f = [i \in 0 .. n |->
                            IF i = 0 THEN <<>>
                            ELSE IF s[i] \in G THEN f[i - 1] ELSE Append(f[i - 1], s[i])]
<1>3. \A f : Loop(f, n, s, G) <=> def(f)
  <2> SUFFICES ASSUME NEW f PROVE Loop(f, n, s, G) <=> def(f)
    OBVIOUS
  <2>1. \A i \in 0 .. n : i = 0 \/ i \in 1 .. n
    BY <1>1
  <2>2. 0 \in 0 .. n /\ \A i \in 1 .. n : i \in 0 .. n /\ i # 0
    BY <1>1
  <2>3. ASSUME Loop(f, n, s, G) PROVE def(f)
    <3>1. \A i \in 0 .. n : f[i] = IF i = 0 THEN <<>>
             ELSE IF s[i] \in G THEN f[i - 1] ELSE Append(f[i - 1], s[i])
      <4> HIDE DEF n
      <4> QED
        BY <2>1, <2>3 DEF Loop
    <3>2. f = [i \in 0 .. n |-> f[i]]
      BY <2>3 DEF Loop
    <3> HIDE DEF n
    <3> QED
      BY ONLY <3>1, <3>2
  <2>4. ASSUME def(f) PROVE Loop(f, n, s, G)
    <3>1. \A i \in 0 .. n : f[i] = IF i = 0 THEN <<>>
             ELSE IF s[i] \in G THEN f[i - 1] ELSE Append(f[i - 1], s[i])
      <4> HIDE DEF n
      <4> QED
        BY ONLY <2>4
    <3>2. f = [i \in 0 .. n |-> f[i]]
      <4> HIDE DEF n
      <4> QED
        BY ONLY <2>4
    <3>3. f[0] = <<>>
      BY <2>2, <3>1
    <3>4. \A i \in 1 .. n : f[i] = IF s[i] \in G THEN f[i - 1] ELSE Append(f[i - 1], s[i])
      <4> HIDE DEF n
      <4> QED
        BY <2>2, <3>1
    <3> QED
      BY ONLY <3>2, <3>3, <3>4 DEF Loop
  <2> QED
    BY <2>3, <2>4
<1>4. Mem!Remaining(s, G) = (CHOOSE f : def(f))[n]
  BY DEF Mem!Remaining
<1> HIDE DEF def
<1>5. PICK f : f = CHOOSE g : def(g)
  OBVIOUS
<1>6. def(f)
  BY <1>2, <1>3, <1>5
<1> QED
  BY <1>3, <1>4, <1>5, <1>6

\* The rows that are not gone are kept, each once.
LEMMA KeepSlice ==
  ASSUME NEW s, Slice(s), NEW G
  PROVE  Slice(Mem!Remaining(s, G)) /\ Rows(Mem!Remaining(s, G)) = Rows(s) \ G
<1> DEFINE n == Len(s)
<1>1. PICK f : Mem!Remaining(s, G) = f[n] /\ Loop(f, n, s, G)
  BY RemainingIs
<1>2. n \in Nat /\ DOMAIN s = 1 .. n /\ \A k, j \in 1 .. n : s[k] = s[j] => k = j
  BY SliceRows DEF Slice
<1>3. \A r : r \in Rows(s) <=> \E i \in 1 .. n : s[i] = r
  BY SliceRows
<1> DEFINE Up(k) == {s[i] : i \in 1 .. k} \ G
           Good(k) == Slice(f[k]) /\ Rows(f[k]) = Up(k)
           Bad == {k \in 0 .. n : ~ Good(k)}
<1>4. Good(n)
  <2> HIDE DEF Good
  <2>1. SUFFICES ASSUME Bad # {} PROVE FALSE
    BY <1>2
  <2>2. PICK k \in 0 .. n : ~ Good(k) /\ \A j \in 0 .. n : ~ Good(j) => ~ (j < k)
    <3>1. Bad \subseteq Nat
      BY <1>2
    <3>2. PICK k \in Bad : \A j \in Bad : ~ (j < k)
      <4> HIDE DEF Bad
      <4> QED
        BY <2>1, <3>1, Smallest
    <3> QED
      BY <3>2
  <2>3. k # 0
    <3>1. f[0] = <<>> /\ Up(0) = {}
      BY <1>1 DEF Loop
    <3> QED
      BY <2>2, <3>1, EmptySlice DEF Good
  <2>4. k - 1 \in 0 .. n /\ k - 1 < k /\ k \in 1 .. n
    BY <1>2, <2>2, <2>3
  <2>5. Slice(f[k - 1]) /\ Rows(f[k - 1]) = Up(k - 1)
    BY <2>2, <2>4 DEF Good
  <2>6. Up(k) = Up(k - 1) \cup ({s[k]} \ G)
    <3>1. \A i \in 1 .. k : i \in 1 .. k - 1 \/ i = k
      BY <1>2, <2>4
    <3>2. k \in 1 .. k /\ \A i \in 1 .. k - 1 : i \in 1 .. k
      BY <1>2, <2>4
    <3> QED
      BY ONLY <3>1, <3>2
  <2>7. f[k] = IF s[k] \in G THEN f[k - 1] ELSE Append(f[k - 1], s[k])
    BY <1>1, <2>4 DEF Loop
  <2>8. s[k] \notin Up(k - 1)
    <3>1. \A i \in 1 .. k - 1 : i \in 1 .. n /\ i # k
      BY <1>2, <2>4
    <3> QED
      BY <1>2, <2>4, <3>1
  <2> HIDE DEF Up
  <2>9. CASE s[k] \in G
    BY <2>2, <2>5, <2>6, <2>7, <2>9 DEF Good
  <2>10. CASE s[k] \notin G
    <3>1. Slice(f[k]) /\ Rows(f[k]) = Up(k - 1) \cup {s[k]}
      BY <2>5, <2>7, <2>8, <2>10, AppendSlice
    <3> QED
      BY <2>2, <2>6, <2>10, <3>1 DEF Good
  <2> QED
    BY <2>9, <2>10
<1>5. Rows(s) = {s[i] : i \in 1 .. n}
  BY <1>2 DEF Rows
<1> QED
  BY <1>1, <1>4, <1>5

\* A slice has as many rows as places.
LEMMA SliceCardinality ==
  ASSUME NEW s, Slice(s)
  PROVE  Cardinality(Rows(s)) = Len(s)
<1>1. Len(s) \in Nat /\ DOMAIN s = 1 .. Len(s)
  BY SliceRows
<1>2. PICK n \in Nat : n = Len(s)
  BY <1>1
<1>3. s \in Bijection(1 .. n, Rows(s))
  <2>1. s \in [1 .. n -> Rows(s)]
    BY <1>1, <1>2, SliceRows
  <2>2. \A i, j \in 1 .. n : s[i] = s[j] => i = j
    BY <1>1, <1>2 DEF Slice
  <2>3. \A r \in Rows(s) : \E i \in 1 .. n : s[i] = r
    BY <1>1, <1>2 DEF Rows
  <2> QED
    BY <2>1, <2>2, <2>3 DEF Bijection, Injection, Surjection, IsInjective
<1>4. IsFiniteSet(1 .. n) /\ Cardinality(1 .. n) = n
  <2>1. 1 \in Int /\ n \in Int
    BY <1>2
  <2>2. IsFiniteSet(1 .. n) /\ Cardinality(1 .. n) = IF 1 > n THEN 0 ELSE n - 1 + 1
    BY ONLY <2>1, FS_Interval
  <2> QED
    BY <1>2, <2>2
<1>5. ExistsBijection(1 .. n, Rows(s))
  BY <1>3 DEF ExistsBijection
<1> QED
  BY <1>2, <1>4, <1>5, FS_Bijection

\* The first place of a nonempty set of places.
LEMMA FirstPlace ==
  ASSUME NEW I, I \subseteq Nat, I # {}
  PROVE  Mem!Min(I) \in I
<1>1. PICK x \in I : \A y \in I : ~ (y < x)
  BY Smallest
<1>2. \A y \in I : x <= y
  BY <1>1
<1> QED
  BY <1>2 DEF Mem!Min
-----------------------------------------------------------------------------
(* The tables *)

IsUser(u) ==
  /\ u = [id |-> u.id, name |-> u.name, role |-> u.role, disabled |-> u.disabled,
          hash |-> u.hash]
  /\ u.name \in Names
IsAgent(a) == a = [id |-> a.id, owner |-> a.owner, state |-> a.state,
                   lastError |-> a.lastError]
IsModel(m) == m = [id |-> m.id, display |-> m.display, provider |-> m.provider,
                   enabled |-> m.enabled]
IsConnection(c) ==
  /\ c = [user |-> c.user, provider |-> c.provider, secret |-> c.secret,
          revision |-> c.revision]
  /\ c.revision \in Nat
IsSwitch(r) ==
  /\ r = [agent |-> r.agent, provider |-> r.provider, enabled |-> r.enabled,
          revision |-> r.revision]
  /\ r.revision \in Nat
IsIdentity(i) == i = [provider |-> i.provider, subject |-> i.subject, user |-> i.user,
                      seen |-> i.seen]
Manifest == [id : PluginIds, yaml : Yamls, enabled : BOOLEAN, revision : Nat]

\* The identifiers in use are the ones newID has handed out.
Numbered(T, f) == \A r \in T : r.id \in Nat /\ r.id < f
ById(T) == \A r, q \in T : r.id = q.id => r = q

UsersInv(U, f) ==
  /\ \A u \in U : IsUser(u)
  /\ Numbered(U, f) /\ ById(U) /\ \A u, v \in U : u.name = v.name => u = v
AgentsInv(A, f) == (\A a \in A : IsAgent(a)) /\ Numbered(A, f) /\ ById(A)
ModelsInv(L, f) == (\A m \in L : IsModel(m)) /\ Numbered(L, f) /\ ById(L)
ConnectionsInv(C) ==
  /\ \A c \in C : IsConnection(c)
  /\ \A c, e \in C : c.user = e.user /\ c.provider = e.provider => c = e
SwitchesInv(S) ==
  /\ \A r \in S : IsSwitch(r)
  /\ \A r, q \in S : r.agent = q.agent /\ r.provider = q.provider => r = q
ManifestsInv(M) == M \subseteq Manifest /\ ById(M)
IdentitiesInv(I, U) ==
  /\ \A i \in I : IsIdentity(i) /\ \E u \in U : u.id = i.user
  /\ \A i, j \in I : i.provider = j.provider /\ i.subject = j.subject => i = j
SettingsInv(K) ==
  /\ \A k \in K : k = [key |-> k.key, value |-> k.value] /\ k.key \in Keys /\ k.value # ""
  /\ \A k, j \in K : k.key = j.key => k = j
GatewayInv(G) == \A g, h \in G : g = h

Tables(u, a, l, g, c, s, m, i, k) ==
  [users |-> u, agents |-> a, llm_models |-> l, gateway |-> g,
   integration_connections |-> c, agent_integrations |-> s, plugin_manifests |-> m,
   user_identities |-> i, app_settings |-> k]
IsTables(t) ==
  t = Tables(t.users, t.agents, t.llm_models, t.gateway, t.integration_connections,
             t.agent_integrations, t.plugin_manifests, t.user_identities, t.app_settings)

\* The keys of the tables, and the reference of an identity to its user.
TablesInv(t, f) ==
  /\ IsTables(t)
  /\ UsersInv(t.users, f) /\ AgentsInv(t.agents, f) /\ ModelsInv(t.llm_models, f)
  /\ ConnectionsInv(t.integration_connections) /\ SwitchesInv(t.agent_integrations)
  /\ ManifestsInv(t.plugin_manifests) /\ IdentitiesInv(t.user_identities, t.users)
  /\ SettingsInv(t.app_settings) /\ GatewayInv(t.gateway)

\* What IdentitiesStayPut says of a step from the tables t to the tables u.
StayPut(t, u) ==
  \A i \in t.user_identities, j \in u.user_identities :
    i.provider = j.provider /\ i.subject = j.subject =>
      i.user = j.user /\ \E x \in u.users : x.id = i.user
Step(t, u, g) == TablesInv(u, g) /\ StayPut(t, u)

\* The fields of the record of tables.
LEMMA TheTables ==
  ASSUME NEW u, NEW a, NEW l, NEW g, NEW c, NEW s, NEW m, NEW i, NEW k
  PROVE  LET t == Tables(u, a, l, g, c, s, m, i, k)
         IN  /\ IsTables(t)
             /\ t.users = u /\ t.agents = a /\ t.llm_models = l /\ t.gateway = g
             /\ t.integration_connections = c /\ t.agent_integrations = s
             /\ t.plugin_manifests = m /\ t.user_identities = i /\ t.app_settings = k
  BY DEF Tables, IsTables

\* The table, or the slice, of a name is replaced.
Set(t, n, X) == [t EXCEPT ![n] = X]

\* One table is replaced.
LEMMA SetTable ==
  ASSUME NEW u, NEW a, NEW l, NEW g, NEW c, NEW s, NEW m, NEW i, NEW k, NEW X
  PROVE  LET t == Tables(u, a, l, g, c, s, m, i, k)
         IN  /\ Set(t, "users", X) = Tables(X, a, l, g, c, s, m, i, k)
             /\ Set(t, "agents", X) = Tables(u, X, l, g, c, s, m, i, k)
             /\ Set(t, "llm_models", X) = Tables(u, a, X, g, c, s, m, i, k)
             /\ Set(t, "gateway", X) = Tables(u, a, l, X, c, s, m, i, k)
             /\ Set(t, "integration_connections", X) =
                  Tables(u, a, l, g, X, s, m, i, k)
             /\ Set(t, "agent_integrations", X) = Tables(u, a, l, g, c, X, m, i, k)
             /\ Set(t, "plugin_manifests", X) = Tables(u, a, l, g, c, s, X, i, k)
             /\ Set(t, "user_identities", X) = Tables(u, a, l, g, c, s, m, X, k)
             /\ Set(t, "app_settings", X) = Tables(u, a, l, g, c, s, m, i, X)
<1> DEFINE t == Tables(u, a, l, g, c, s, m, i, k)
<1>1. Set(t, "users", X) = Tables(X, a, l, g, c, s, m, i, k)
  BY DEF Tables, Set
<1>2. Set(t, "agents", X) = Tables(u, X, l, g, c, s, m, i, k)
  BY DEF Tables, Set
<1>3. Set(t, "llm_models", X) = Tables(u, a, X, g, c, s, m, i, k)
  BY DEF Tables, Set
<1>4. Set(t, "gateway", X) = Tables(u, a, l, X, c, s, m, i, k)
  BY DEF Tables, Set
<1>5. Set(t, "integration_connections", X) = Tables(u, a, l, g, X, s, m, i, k)
  BY DEF Tables, Set
<1>6. Set(t, "agent_integrations", X) = Tables(u, a, l, g, c, X, m, i, k)
  BY DEF Tables, Set
<1>7. Set(t, "plugin_manifests", X) = Tables(u, a, l, g, c, s, X, i, k)
  BY DEF Tables, Set
<1>8. Set(t, "user_identities", X) = Tables(u, a, l, g, c, s, m, X, k)
  BY DEF Tables, Set
<1>9. Set(t, "app_settings", X) = Tables(u, a, l, g, c, s, m, i, X)
  BY DEF Tables, Set
<1> HIDE DEF t
<1> QED
  BY <1>1, <1>2, <1>3, <1>4, <1>5, <1>6, <1>7, <1>8, <1>9 DEF t

\* The invariant, table by table.
LEMMA InvOfTables ==
  ASSUME NEW u, NEW a, NEW l, NEW g, NEW c, NEW s, NEW m, NEW i, NEW k, NEW f
  PROVE  TablesInv(Tables(u, a, l, g, c, s, m, i, k), f) <=>
           /\ UsersInv(u, f) /\ AgentsInv(a, f) /\ ModelsInv(l, f)
           /\ ConnectionsInv(c) /\ SwitchesInv(s) /\ ManifestsInv(m)
           /\ IdentitiesInv(i, u) /\ SettingsInv(k) /\ GatewayInv(g)
<1>1. PICK t : t = Tables(u, a, l, g, c, s, m, i, k)
  OBVIOUS
<1>2. /\ IsTables(t)
      /\ t.users = u /\ t.agents = a /\ t.llm_models = l /\ t.gateway = g
      /\ t.integration_connections = c /\ t.agent_integrations = s
      /\ t.plugin_manifests = m /\ t.user_identities = i /\ t.app_settings = k
  BY <1>1, TheTables
<1> QED
  BY ONLY <1>1, <1>2 DEF TablesInv

\* More identifiers may be handed out without being used.
LEMMA LaterTables ==
  ASSUME NEW t, NEW f \in Nat, TablesInv(t, f), NEW g \in Nat, f <= g
  PROVE  TablesInv(t, g)
<1>1. \A T : Numbered(T, f) => Numbered(T, g)
  BY DEF Numbered
<1> QED
  BY <1>1 DEF TablesInv, UsersInv, AgentsInv, ModelsInv

\* Nothing changes.
LEMMA SameTables ==
  ASSUME NEW t, NEW f, TablesInv(t, f)
  PROVE  Step(t, t, f)
  BY DEF Step, StayPut, TablesInv, IdentitiesInv

\* A table other than users and user_identities is replaced.
LEMMA OtherTable ==
  ASSUME NEW t, NEW f \in Nat, TablesInv(t, f), NEW g \in Nat, f <= g, NEW X
  PROVE  /\ AgentsInv(X, g) => Step(t, Set(t, "agents", X), g)
         /\ ModelsInv(X, g) => Step(t, Set(t, "llm_models", X), g)
         /\ GatewayInv(X) => Step(t, Set(t, "gateway", X), g)
         /\ ConnectionsInv(X) => Step(t, Set(t, "integration_connections", X), g)
         /\ SwitchesInv(X) => Step(t, Set(t, "agent_integrations", X), g)
         /\ ManifestsInv(X) => Step(t, Set(t, "plugin_manifests", X), g)
         /\ SettingsInv(X) => Step(t, Set(t, "app_settings", X), g)
<1>1. PICK u, a, l, gw, c, s, m, i, k : t = Tables(u, a, l, gw, c, s, m, i, k)
  BY DEF TablesInv, IsTables
<1>2. /\ UsersInv(u, g) /\ AgentsInv(a, g) /\ ModelsInv(l, g)
      /\ ConnectionsInv(c) /\ SwitchesInv(s) /\ ManifestsInv(m)
      /\ IdentitiesInv(i, u) /\ SettingsInv(k) /\ GatewayInv(gw)
  BY <1>1, LaterTables, InvOfTables
<1>3. t.users = u /\ t.user_identities = i
  BY <1>1, TheTables
<1>4. ASSUME NEW v, v.users = u, v.user_identities = i PROVE StayPut(t, v)
  BY <1>2, <1>3, <1>4 DEF StayPut, IdentitiesInv
<1>5. AgentsInv(X, g) => Step(t, Set(t, "agents", X), g)
  <2>1. PICK v : v = Tables(u, X, l, gw, c, s, m, i, k)
    OBVIOUS
  <2>2. Set(t, "agents", X) = v
    BY <1>1, <2>1, SetTable
  <2>3. AgentsInv(X, g) => TablesInv(v, g)
    BY <1>2, <2>1, InvOfTables
  <2>4. StayPut(t, v)
    BY <1>4, <2>1, TheTables
  <2> QED
    BY <2>2, <2>3, <2>4 DEF Step
<1>6. ModelsInv(X, g) => Step(t, Set(t, "llm_models", X), g)
  <2>1. PICK v : v = Tables(u, a, X, gw, c, s, m, i, k)
    OBVIOUS
  <2>2. Set(t, "llm_models", X) = v
    BY <1>1, <2>1, SetTable
  <2>3. ModelsInv(X, g) => TablesInv(v, g)
    BY <1>2, <2>1, InvOfTables
  <2>4. StayPut(t, v)
    BY <1>4, <2>1, TheTables
  <2> QED
    BY <2>2, <2>3, <2>4 DEF Step
<1>7. GatewayInv(X) => Step(t, Set(t, "gateway", X), g)
  <2>1. PICK v : v = Tables(u, a, l, X, c, s, m, i, k)
    OBVIOUS
  <2>2. Set(t, "gateway", X) = v
    BY <1>1, <2>1, SetTable
  <2>3. GatewayInv(X) => TablesInv(v, g)
    BY <1>2, <2>1, InvOfTables
  <2>4. StayPut(t, v)
    BY <1>4, <2>1, TheTables
  <2> QED
    BY <2>2, <2>3, <2>4 DEF Step
<1>8. ConnectionsInv(X) => Step(t, Set(t, "integration_connections", X), g)
  <2>1. PICK v : v = Tables(u, a, l, gw, X, s, m, i, k)
    OBVIOUS
  <2>2. Set(t, "integration_connections", X) = v
    BY <1>1, <2>1, SetTable
  <2>3. ConnectionsInv(X) => TablesInv(v, g)
    BY <1>2, <2>1, InvOfTables
  <2>4. StayPut(t, v)
    BY <1>4, <2>1, TheTables
  <2> QED
    BY <2>2, <2>3, <2>4 DEF Step
<1>9. SwitchesInv(X) => Step(t, Set(t, "agent_integrations", X), g)
  <2>1. PICK v : v = Tables(u, a, l, gw, c, X, m, i, k)
    OBVIOUS
  <2>2. Set(t, "agent_integrations", X) = v
    BY <1>1, <2>1, SetTable
  <2>3. SwitchesInv(X) => TablesInv(v, g)
    BY <1>2, <2>1, InvOfTables
  <2>4. StayPut(t, v)
    BY <1>4, <2>1, TheTables
  <2> QED
    BY <2>2, <2>3, <2>4 DEF Step
<1>10. ManifestsInv(X) => Step(t, Set(t, "plugin_manifests", X), g)
  <2>1. PICK v : v = Tables(u, a, l, gw, c, s, X, i, k)
    OBVIOUS
  <2>2. Set(t, "plugin_manifests", X) = v
    BY <1>1, <2>1, SetTable
  <2>3. ManifestsInv(X) => TablesInv(v, g)
    BY <1>2, <2>1, InvOfTables
  <2>4. StayPut(t, v)
    BY <1>4, <2>1, TheTables
  <2> QED
    BY <2>2, <2>3, <2>4 DEF Step
<1>11. SettingsInv(X) => Step(t, Set(t, "app_settings", X), g)
  <2>1. PICK v : v = Tables(u, a, l, gw, c, s, m, i, X)
    OBVIOUS
  <2>2. Set(t, "app_settings", X) = v
    BY <1>1, <2>1, SetTable
  <2>3. SettingsInv(X) => TablesInv(v, g)
    BY <1>2, <2>1, InvOfTables
  <2>4. StayPut(t, v)
    BY <1>4, <2>1, TheTables
  <2> QED
    BY <2>2, <2>3, <2>4 DEF Step
<1> QED
  BY ONLY <1>5, <1>6, <1>7, <1>8, <1>9, <1>10, <1>11

\* The users are replaced and none of them is gone.
LEMMA UsersTable ==
  ASSUME NEW t, NEW f \in Nat, TablesInv(t, f), NEW g \in Nat, f <= g, NEW X,
         UsersInv(X, g), \A u \in t.users : \E v \in X : v.id = u.id
  PROVE  Step(t, Set(t, "users", X), g)
<1>1. PICK u, a, l, gw, c, s, m, i, k : t = Tables(u, a, l, gw, c, s, m, i, k)
  BY DEF TablesInv, IsTables
<1>2. /\ AgentsInv(a, g) /\ ModelsInv(l, g)
      /\ ConnectionsInv(c) /\ SwitchesInv(s) /\ ManifestsInv(m)
      /\ IdentitiesInv(i, u) /\ SettingsInv(k) /\ GatewayInv(gw)
  BY <1>1, LaterTables, InvOfTables
<1>3. t.users = u /\ t.user_identities = i
  BY <1>1, TheTables
<1>4. IdentitiesInv(i, X)
  BY <1>2, <1>3 DEF IdentitiesInv
<1>5. PICK v : v = Tables(X, a, l, gw, c, s, m, i, k)
  OBVIOUS
<1>6. Set(t, "users", X) = v /\ v.users = X /\ v.user_identities = i
  BY <1>1, <1>5, SetTable, TheTables
<1>7. TablesInv(v, g)
  BY <1>2, <1>4, <1>5, InvOfTables
<1>8. StayPut(t, v)
  BY <1>3, <1>4, <1>6 DEF StayPut, IdentitiesInv
<1> QED
  BY <1>6, <1>7, <1>8 DEF Step

\* The identities are replaced and none of them is another user's.
LEMMA IdentitiesTable ==
  ASSUME NEW t, NEW f, TablesInv(t, f), NEW X, IdentitiesInv(X, t.users),
         \A i \in t.user_identities, j \in X :
           i.provider = j.provider /\ i.subject = j.subject => i.user = j.user
  PROVE  Step(t, Set(t, "user_identities", X), f)
<1>1. PICK u, a, l, gw, c, s, m, i, k : t = Tables(u, a, l, gw, c, s, m, i, k)
  BY DEF TablesInv, IsTables
<1>2. /\ UsersInv(u, f) /\ AgentsInv(a, f) /\ ModelsInv(l, f)
      /\ ConnectionsInv(c) /\ SwitchesInv(s) /\ ManifestsInv(m)
      /\ IdentitiesInv(i, u) /\ SettingsInv(k) /\ GatewayInv(gw)
  BY <1>1, InvOfTables
<1>3. t.users = u /\ t.user_identities = i
  BY <1>1, TheTables
<1>5. PICK v : v = Tables(u, a, l, gw, c, s, m, X, k)
  OBVIOUS
<1>6. Set(t, "user_identities", X) = v /\ v.users = u /\ v.user_identities = X
  BY <1>1, <1>5, SetTable, TheTables
<1>7. TablesInv(v, f)
  BY <1>2, <1>3, <1>5, InvOfTables
<1>8. StayPut(t, v)
  BY <1>2, <1>3, <1>6 DEF StayPut, IdentitiesInv
<1> QED
  BY <1>6, <1>7, <1>8 DEF Step
-----------------------------------------------------------------------------
(* The slices and maps *)

Memory(us, ph, ag, lm, gw, ic, ai, pm, ui, st) ==
  [users |-> us, passwordHashes |-> ph, agents |-> ag, llmModels |-> lm, gateway |-> gw,
   integrations |-> ic, agentIntegrations |-> ai, pluginManifests |-> pm,
   userIdentities |-> ui, appSettings |-> st]
IsMemory(d) ==
  d = Memory(d.users, d.passwordHashes, d.agents, d.llmModels, d.gateway, d.integrations,
             d.agentIntegrations, d.pluginManifests, d.userIdentities, d.appSettings)

\* A name that is nobody's has no password.
AccountsInv(us, ph) ==
  /\ Slice(us)
  /\ \A u \in Rows(us) :
       /\ u = [id |-> u.id, name |-> u.name, role |-> u.role, disabled |-> u.disabled]
       /\ u.name \in Names
  /\ ph = [n \in Names |-> ph[n]]
  /\ \A n \in Names : (\A u \in Rows(us) : u.name # n) => ph[n] = None
ByPluginId(pm) ==
  /\ pm = [p \in PluginIds |-> pm[p]]
  /\ \A p \in PluginIds : pm[p] # None => pm[p].id = p
ByKey(st) == st = [k \in Keys |-> st[k]]

MemoryInv(d) ==
  /\ IsMemory(d)
  /\ AccountsInv(d.users, d.passwordHashes)
  /\ Slice(d.agents) /\ Slice(d.llmModels) /\ Slice(d.integrations)
  /\ Slice(d.agentIntegrations) /\ Slice(d.userIdentities)
  /\ ByPluginId(d.pluginManifests) /\ ByKey(d.appSettings)

\* The parts of View.
UserOf(u, ph) == [id |-> u.id, name |-> u.name, role |-> u.role, disabled |-> u.disabled,
                  hash |-> ph[u.name]]
UsersOf(us, ph) == {UserOf(u, ph) : u \in Rows(us)}
GatewayOf(gw) == IF gw = [enabled |-> FALSE, secret |-> None] THEN {} ELSE {gw}
ManifestsOf(pm) == Rows(pm) \ {None}
SettingsOf(st) == {[key |-> k, value |-> st[k]] : k \in {j \in Keys : st[j] # ""}}

\* The fields of the record.
LEMMA TheSlices ==
  ASSUME NEW us, NEW ph, NEW ag, NEW lm, NEW gw, NEW ic, NEW ai, NEW pm, NEW ui, NEW st
  PROVE  LET d == Memory(us, ph, ag, lm, gw, ic, ai, pm, ui, st)
         IN  /\ IsMemory(d)
             /\ d.users = us /\ d.passwordHashes = ph /\ d.agents = ag /\ d.llmModels = lm
             /\ d.gateway = gw /\ d.integrations = ic /\ d.agentIntegrations = ai
             /\ d.pluginManifests = pm /\ d.userIdentities = ui /\ d.appSettings = st
  BY DEF Memory, IsMemory

\* One slice or map is replaced.
LEMMA SetSlice ==
  ASSUME NEW us, NEW ph, NEW ag, NEW lm, NEW gw, NEW ic, NEW ai, NEW pm, NEW ui, NEW st,
         NEW X
  PROVE  LET d == Memory(us, ph, ag, lm, gw, ic, ai, pm, ui, st)
         IN  /\ Set(d, "users", X) = Memory(X, ph, ag, lm, gw, ic, ai, pm, ui, st)
             /\ Set(d, "passwordHashes", X) = Memory(us, X, ag, lm, gw, ic, ai, pm, ui, st)
             /\ Set(d, "agents", X) = Memory(us, ph, X, lm, gw, ic, ai, pm, ui, st)
             /\ Set(d, "llmModels", X) = Memory(us, ph, ag, X, gw, ic, ai, pm, ui, st)
             /\ Set(d, "gateway", X) = Memory(us, ph, ag, lm, X, ic, ai, pm, ui, st)
             /\ Set(d, "integrations", X) = Memory(us, ph, ag, lm, gw, X, ai, pm, ui, st)
             /\ Set(d, "agentIntegrations", X) = Memory(us, ph, ag, lm, gw, ic, X, pm, ui, st)
             /\ Set(d, "pluginManifests", X) = Memory(us, ph, ag, lm, gw, ic, ai, X, ui, st)
             /\ Set(d, "userIdentities", X) = Memory(us, ph, ag, lm, gw, ic, ai, pm, X, st)
             /\ Set(d, "appSettings", X) = Memory(us, ph, ag, lm, gw, ic, ai, pm, ui, X)
<1> DEFINE d == Memory(us, ph, ag, lm, gw, ic, ai, pm, ui, st)
<1>1. Set(d, "users", X) = Memory(X, ph, ag, lm, gw, ic, ai, pm, ui, st)
  BY DEF Memory, Set
<1>2. Set(d, "passwordHashes", X) = Memory(us, X, ag, lm, gw, ic, ai, pm, ui, st)
  BY DEF Memory, Set
<1>3. Set(d, "agents", X) = Memory(us, ph, X, lm, gw, ic, ai, pm, ui, st)
  BY DEF Memory, Set
<1>4. Set(d, "llmModels", X) = Memory(us, ph, ag, X, gw, ic, ai, pm, ui, st)
  BY DEF Memory, Set
<1>5. Set(d, "gateway", X) = Memory(us, ph, ag, lm, X, ic, ai, pm, ui, st)
  BY DEF Memory, Set
<1>6. Set(d, "integrations", X) = Memory(us, ph, ag, lm, gw, X, ai, pm, ui, st)
  BY DEF Memory, Set
<1>7. Set(d, "agentIntegrations", X) = Memory(us, ph, ag, lm, gw, ic, X, pm, ui, st)
  BY DEF Memory, Set
<1>8. Set(d, "pluginManifests", X) = Memory(us, ph, ag, lm, gw, ic, ai, X, ui, st)
  BY DEF Memory, Set
<1>9. Set(d, "userIdentities", X) = Memory(us, ph, ag, lm, gw, ic, ai, pm, X, st)
  BY DEF Memory, Set
<1>10. Set(d, "appSettings", X) = Memory(us, ph, ag, lm, gw, ic, ai, pm, ui, X)
  BY DEF Memory, Set
<1> HIDE DEF d
<1> QED
  BY <1>1, <1>2, <1>3, <1>4, <1>5, <1>6, <1>7, <1>8, <1>9, <1>10 DEF d

\* The view, table by table.
LEMMA ViewOfSlices ==
  ASSUME NEW us, NEW ph, NEW ag, NEW lm, NEW gw, NEW ic, NEW ai, NEW pm, NEW ui, NEW st
  PROVE  View(Memory(us, ph, ag, lm, gw, ic, ai, pm, ui, st)) =
           Tables(UsersOf(us, ph), Rows(ag), Rows(lm), GatewayOf(gw), Rows(ic), Rows(ai),
                  ManifestsOf(pm), Rows(ui), SettingsOf(st))
<1>1. PICK d : d = Memory(us, ph, ag, lm, gw, ic, ai, pm, ui, st)
  OBVIOUS
<1>2. /\ d.users = us /\ d.passwordHashes = ph /\ d.agents = ag /\ d.llmModels = lm
      /\ d.gateway = gw /\ d.integrations = ic /\ d.agentIntegrations = ai
      /\ d.pluginManifests = pm /\ d.userIdentities = ui /\ d.appSettings = st
  BY <1>1, TheSlices
<1>3. Mem!EmptyMemory.gateway = [enabled |-> FALSE, secret |-> None]
  BY DEF Mem!EmptyMemory
<1>4. View(d) = Tables(UsersOf(us, ph), Rows(ag), Rows(lm), GatewayOf(gw), Rows(ic), Rows(ai),
                       ManifestsOf(pm), Rows(ui), SettingsOf(st))
  BY ONLY <1>2, <1>3 DEF View, Tables, UsersOf, UserOf, GatewayOf, ManifestsOf, SettingsOf
<1> QED
  BY ONLY <1>1, <1>4

\* The tables of the view.
LEMMA ViewTables ==
  ASSUME NEW d, IsMemory(d)
  PROVE  /\ IsTables(View(d))
         /\ View(d).users = UsersOf(d.users, d.passwordHashes)
         /\ View(d).agents = Rows(d.agents) /\ View(d).llm_models = Rows(d.llmModels)
         /\ View(d).gateway = GatewayOf(d.gateway)
         /\ View(d).integration_connections = Rows(d.integrations)
         /\ View(d).agent_integrations = Rows(d.agentIntegrations)
         /\ View(d).plugin_manifests = ManifestsOf(d.pluginManifests)
         /\ View(d).user_identities = Rows(d.userIdentities)
         /\ View(d).app_settings = SettingsOf(d.appSettings)
<1>1. View(d) = Tables(UsersOf(d.users, d.passwordHashes), Rows(d.agents), Rows(d.llmModels),
                       GatewayOf(d.gateway), Rows(d.integrations), Rows(d.agentIntegrations),
                       ManifestsOf(d.pluginManifests), Rows(d.userIdentities),
                       SettingsOf(d.appSettings))
  BY ViewOfSlices DEF IsMemory
<1> QED
  BY ONLY <1>1, TheTables

\* A replaced slice is a replaced table.
LEMMA ViewStep ==
  ASSUME NEW d, MemoryInv(d), NEW X
  PROVE  /\ Slice(X) => /\ MemoryInv(Set(d, "agents", X))
                        /\ View(Set(d, "agents", X)) = Set(View(d), "agents", Rows(X))
         /\ Slice(X) => /\ MemoryInv(Set(d, "llmModels", X))
                        /\ View(Set(d, "llmModels", X)) = Set(View(d), "llm_models", Rows(X))
         /\ Slice(X) => /\ MemoryInv(Set(d, "integrations", X))
                        /\ View(Set(d, "integrations", X)) =
                             Set(View(d), "integration_connections", Rows(X))
         /\ Slice(X) => /\ MemoryInv(Set(d, "agentIntegrations", X))
                        /\ View(Set(d, "agentIntegrations", X)) =
                             Set(View(d), "agent_integrations", Rows(X))
         /\ Slice(X) => /\ MemoryInv(Set(d, "userIdentities", X))
                        /\ View(Set(d, "userIdentities", X)) =
                             Set(View(d), "user_identities", Rows(X))
         /\ AccountsInv(X, d.passwordHashes) =>
              /\ MemoryInv(Set(d, "users", X))
              /\ View(Set(d, "users", X)) =
                   Set(View(d), "users", UsersOf(X, d.passwordHashes))
         /\ AccountsInv(d.users, X) =>
              /\ MemoryInv(Set(d, "passwordHashes", X))
              /\ View(Set(d, "passwordHashes", X)) =
                   Set(View(d), "users", UsersOf(d.users, X))
         /\ ByPluginId(X) => /\ MemoryInv(Set(d, "pluginManifests", X))
                             /\ View(Set(d, "pluginManifests", X)) =
                                  Set(View(d), "plugin_manifests", ManifestsOf(X))
         /\ ByKey(X) => /\ MemoryInv(Set(d, "appSettings", X))
                        /\ View(Set(d, "appSettings", X)) =
                             Set(View(d), "app_settings", SettingsOf(X))
         /\ /\ MemoryInv(Set(d, "gateway", X))
            /\ View(Set(d, "gateway", X)) = Set(View(d), "gateway", GatewayOf(X))
<1>1. PICK us, ph, ag, lm, gw, ic, ai, pm, ui, st :
         d = Memory(us, ph, ag, lm, gw, ic, ai, pm, ui, st)
  BY DEF MemoryInv, IsMemory
<1>2. /\ d.users = us /\ d.passwordHashes = ph /\ d.agents = ag /\ d.llmModels = lm
      /\ d.gateway = gw /\ d.integrations = ic /\ d.agentIntegrations = ai
      /\ d.pluginManifests = pm /\ d.userIdentities = ui /\ d.appSettings = st
  BY <1>1, TheSlices
<1>3. /\ AccountsInv(us, ph) /\ Slice(ag) /\ Slice(lm) /\ Slice(ic) /\ Slice(ai) /\ Slice(ui)
      /\ ByPluginId(pm) /\ ByKey(st)
  BY <1>2 DEF MemoryInv
<1>4. View(d) = Tables(UsersOf(us, ph), Rows(ag), Rows(lm), GatewayOf(gw), Rows(ic), Rows(ai),
                       ManifestsOf(pm), Rows(ui), SettingsOf(st))
  BY <1>1, ViewOfSlices
<1>5. AccountsInv(X, ph) => /\ MemoryInv(Set(d, "users", X))
         /\ View(Set(d, "users", X)) = Set(View(d), "users", UsersOf(X, ph))
  <2>1. PICK e : e = Memory(X, ph, ag, lm, gw, ic, ai, pm, ui, st)
    OBVIOUS
  <2>2. Set(d, "users", X) = e
    BY <1>1, <2>1, SetSlice
  <2>3. AccountsInv(X, ph) => MemoryInv(e)
    <3>1. /\ IsMemory(e)
          /\ e.users = X /\ e.passwordHashes = ph /\ e.agents = ag
          /\ e.llmModels = lm /\ e.integrations = ic /\ e.agentIntegrations = ai
          /\ e.pluginManifests = pm /\ e.userIdentities = ui /\ e.appSettings = st
      BY <2>1, TheSlices
    <3> QED
      BY ONLY <1>3, <3>1 DEF MemoryInv
  <2>4. View(e) = Tables(UsersOf(X, ph), Rows(ag), Rows(lm), GatewayOf(gw), Rows(ic),
                         Rows(ai), ManifestsOf(pm), Rows(ui), SettingsOf(st))
    BY ONLY <2>1, ViewOfSlices
  <2>5. Set(View(d), "users", UsersOf(X, ph)) = View(e)
    BY ONLY <1>4, <2>4, SetTable
  <2> QED
    BY ONLY <2>2, <2>3, <2>5
<1>6. AccountsInv(us, X) => /\ MemoryInv(Set(d, "passwordHashes", X))
         /\ View(Set(d, "passwordHashes", X)) = Set(View(d), "users", UsersOf(us, X))
  <2>1. PICK e : e = Memory(us, X, ag, lm, gw, ic, ai, pm, ui, st)
    OBVIOUS
  <2>2. Set(d, "passwordHashes", X) = e
    BY <1>1, <2>1, SetSlice
  <2>3. AccountsInv(us, X) => MemoryInv(e)
    <3>1. /\ IsMemory(e)
          /\ e.users = us /\ e.passwordHashes = X /\ e.agents = ag
          /\ e.llmModels = lm /\ e.integrations = ic /\ e.agentIntegrations = ai
          /\ e.pluginManifests = pm /\ e.userIdentities = ui /\ e.appSettings = st
      BY <2>1, TheSlices
    <3> QED
      BY ONLY <1>3, <3>1 DEF MemoryInv
  <2>4. View(e) = Tables(UsersOf(us, X), Rows(ag), Rows(lm), GatewayOf(gw), Rows(ic),
                         Rows(ai), ManifestsOf(pm), Rows(ui), SettingsOf(st))
    BY ONLY <2>1, ViewOfSlices
  <2>5. Set(View(d), "users", UsersOf(us, X)) = View(e)
    BY ONLY <1>4, <2>4, SetTable
  <2> QED
    BY ONLY <2>2, <2>3, <2>5
<1>7. Slice(X) => /\ MemoryInv(Set(d, "agents", X))
         /\ View(Set(d, "agents", X)) = Set(View(d), "agents", Rows(X))
  <2>1. PICK e : e = Memory(us, ph, X, lm, gw, ic, ai, pm, ui, st)
    OBVIOUS
  <2>2. Set(d, "agents", X) = e
    BY <1>1, <2>1, SetSlice
  <2>3. Slice(X) => MemoryInv(e)
    <3>1. /\ IsMemory(e)
          /\ e.users = us /\ e.passwordHashes = ph /\ e.agents = X
          /\ e.llmModels = lm /\ e.integrations = ic /\ e.agentIntegrations = ai
          /\ e.pluginManifests = pm /\ e.userIdentities = ui /\ e.appSettings = st
      BY <2>1, TheSlices
    <3> QED
      BY ONLY <1>3, <3>1 DEF MemoryInv
  <2>4. View(e) = Tables(UsersOf(us, ph), Rows(X), Rows(lm), GatewayOf(gw), Rows(ic),
                         Rows(ai), ManifestsOf(pm), Rows(ui), SettingsOf(st))
    BY ONLY <2>1, ViewOfSlices
  <2>5. Set(View(d), "agents", Rows(X)) = View(e)
    BY ONLY <1>4, <2>4, SetTable
  <2> QED
    BY ONLY <2>2, <2>3, <2>5
<1>8. Slice(X) => /\ MemoryInv(Set(d, "llmModels", X))
         /\ View(Set(d, "llmModels", X)) = Set(View(d), "llm_models", Rows(X))
  <2>1. PICK e : e = Memory(us, ph, ag, X, gw, ic, ai, pm, ui, st)
    OBVIOUS
  <2>2. Set(d, "llmModels", X) = e
    BY <1>1, <2>1, SetSlice
  <2>3. Slice(X) => MemoryInv(e)
    <3>1. /\ IsMemory(e)
          /\ e.users = us /\ e.passwordHashes = ph /\ e.agents = ag
          /\ e.llmModels = X /\ e.integrations = ic /\ e.agentIntegrations = ai
          /\ e.pluginManifests = pm /\ e.userIdentities = ui /\ e.appSettings = st
      BY <2>1, TheSlices
    <3> QED
      BY ONLY <1>3, <3>1 DEF MemoryInv
  <2>4. View(e) = Tables(UsersOf(us, ph), Rows(ag), Rows(X), GatewayOf(gw), Rows(ic),
                         Rows(ai), ManifestsOf(pm), Rows(ui), SettingsOf(st))
    BY ONLY <2>1, ViewOfSlices
  <2>5. Set(View(d), "llm_models", Rows(X)) = View(e)
    BY ONLY <1>4, <2>4, SetTable
  <2> QED
    BY ONLY <2>2, <2>3, <2>5
<1>9. TRUE => /\ MemoryInv(Set(d, "gateway", X))
         /\ View(Set(d, "gateway", X)) = Set(View(d), "gateway", GatewayOf(X))
  <2>1. PICK e : e = Memory(us, ph, ag, lm, X, ic, ai, pm, ui, st)
    OBVIOUS
  <2>2. Set(d, "gateway", X) = e
    BY <1>1, <2>1, SetSlice
  <2>3. TRUE => MemoryInv(e)
    <3>1. /\ IsMemory(e)
          /\ e.users = us /\ e.passwordHashes = ph /\ e.agents = ag
          /\ e.llmModels = lm /\ e.integrations = ic /\ e.agentIntegrations = ai
          /\ e.pluginManifests = pm /\ e.userIdentities = ui /\ e.appSettings = st
      BY <2>1, TheSlices
    <3> QED
      BY ONLY <1>3, <3>1 DEF MemoryInv
  <2>4. View(e) = Tables(UsersOf(us, ph), Rows(ag), Rows(lm), GatewayOf(X), Rows(ic),
                         Rows(ai), ManifestsOf(pm), Rows(ui), SettingsOf(st))
    BY ONLY <2>1, ViewOfSlices
  <2>5. Set(View(d), "gateway", GatewayOf(X)) = View(e)
    BY ONLY <1>4, <2>4, SetTable
  <2> QED
    BY ONLY <2>2, <2>3, <2>5
<1>10. Slice(X) => /\ MemoryInv(Set(d, "integrations", X))
         /\ View(Set(d, "integrations", X)) = Set(View(d), "integration_connections", Rows(X))
  <2>1. PICK e : e = Memory(us, ph, ag, lm, gw, X, ai, pm, ui, st)
    OBVIOUS
  <2>2. Set(d, "integrations", X) = e
    BY <1>1, <2>1, SetSlice
  <2>3. Slice(X) => MemoryInv(e)
    <3>1. /\ IsMemory(e)
          /\ e.users = us /\ e.passwordHashes = ph /\ e.agents = ag
          /\ e.llmModels = lm /\ e.integrations = X /\ e.agentIntegrations = ai
          /\ e.pluginManifests = pm /\ e.userIdentities = ui /\ e.appSettings = st
      BY <2>1, TheSlices
    <3> QED
      BY ONLY <1>3, <3>1 DEF MemoryInv
  <2>4. View(e) = Tables(UsersOf(us, ph), Rows(ag), Rows(lm), GatewayOf(gw), Rows(X),
                         Rows(ai), ManifestsOf(pm), Rows(ui), SettingsOf(st))
    BY ONLY <2>1, ViewOfSlices
  <2>5. Set(View(d), "integration_connections", Rows(X)) = View(e)
    BY ONLY <1>4, <2>4, SetTable
  <2> QED
    BY ONLY <2>2, <2>3, <2>5
<1>11. Slice(X) => /\ MemoryInv(Set(d, "agentIntegrations", X))
         /\ View(Set(d, "agentIntegrations", X)) = Set(View(d), "agent_integrations", Rows(X))
  <2>1. PICK e : e = Memory(us, ph, ag, lm, gw, ic, X, pm, ui, st)
    OBVIOUS
  <2>2. Set(d, "agentIntegrations", X) = e
    BY <1>1, <2>1, SetSlice
  <2>3. Slice(X) => MemoryInv(e)
    <3>1. /\ IsMemory(e)
          /\ e.users = us /\ e.passwordHashes = ph /\ e.agents = ag
          /\ e.llmModels = lm /\ e.integrations = ic /\ e.agentIntegrations = X
          /\ e.pluginManifests = pm /\ e.userIdentities = ui /\ e.appSettings = st
      BY <2>1, TheSlices
    <3> QED
      BY ONLY <1>3, <3>1 DEF MemoryInv
  <2>4. View(e) = Tables(UsersOf(us, ph), Rows(ag), Rows(lm), GatewayOf(gw), Rows(ic),
                         Rows(X), ManifestsOf(pm), Rows(ui), SettingsOf(st))
    BY ONLY <2>1, ViewOfSlices
  <2>5. Set(View(d), "agent_integrations", Rows(X)) = View(e)
    BY ONLY <1>4, <2>4, SetTable
  <2> QED
    BY ONLY <2>2, <2>3, <2>5
<1>12. ByPluginId(X) => /\ MemoryInv(Set(d, "pluginManifests", X))
         /\ View(Set(d, "pluginManifests", X)) = Set(View(d), "plugin_manifests", ManifestsOf(X))
  <2>1. PICK e : e = Memory(us, ph, ag, lm, gw, ic, ai, X, ui, st)
    OBVIOUS
  <2>2. Set(d, "pluginManifests", X) = e
    BY <1>1, <2>1, SetSlice
  <2>3. ByPluginId(X) => MemoryInv(e)
    <3>1. /\ IsMemory(e)
          /\ e.users = us /\ e.passwordHashes = ph /\ e.agents = ag
          /\ e.llmModels = lm /\ e.integrations = ic /\ e.agentIntegrations = ai
          /\ e.pluginManifests = X /\ e.userIdentities = ui /\ e.appSettings = st
      BY <2>1, TheSlices
    <3> QED
      BY ONLY <1>3, <3>1 DEF MemoryInv
  <2>4. View(e) = Tables(UsersOf(us, ph), Rows(ag), Rows(lm), GatewayOf(gw), Rows(ic),
                         Rows(ai), ManifestsOf(X), Rows(ui), SettingsOf(st))
    BY ONLY <2>1, ViewOfSlices
  <2>5. Set(View(d), "plugin_manifests", ManifestsOf(X)) = View(e)
    BY ONLY <1>4, <2>4, SetTable
  <2> QED
    BY ONLY <2>2, <2>3, <2>5
<1>13. Slice(X) => /\ MemoryInv(Set(d, "userIdentities", X))
         /\ View(Set(d, "userIdentities", X)) = Set(View(d), "user_identities", Rows(X))
  <2>1. PICK e : e = Memory(us, ph, ag, lm, gw, ic, ai, pm, X, st)
    OBVIOUS
  <2>2. Set(d, "userIdentities", X) = e
    BY <1>1, <2>1, SetSlice
  <2>3. Slice(X) => MemoryInv(e)
    <3>1. /\ IsMemory(e)
          /\ e.users = us /\ e.passwordHashes = ph /\ e.agents = ag
          /\ e.llmModels = lm /\ e.integrations = ic /\ e.agentIntegrations = ai
          /\ e.pluginManifests = pm /\ e.userIdentities = X /\ e.appSettings = st
      BY <2>1, TheSlices
    <3> QED
      BY ONLY <1>3, <3>1 DEF MemoryInv
  <2>4. View(e) = Tables(UsersOf(us, ph), Rows(ag), Rows(lm), GatewayOf(gw), Rows(ic),
                         Rows(ai), ManifestsOf(pm), Rows(X), SettingsOf(st))
    BY ONLY <2>1, ViewOfSlices
  <2>5. Set(View(d), "user_identities", Rows(X)) = View(e)
    BY ONLY <1>4, <2>4, SetTable
  <2> QED
    BY ONLY <2>2, <2>3, <2>5
<1>14. ByKey(X) => /\ MemoryInv(Set(d, "appSettings", X))
         /\ View(Set(d, "appSettings", X)) = Set(View(d), "app_settings", SettingsOf(X))
  <2>1. PICK e : e = Memory(us, ph, ag, lm, gw, ic, ai, pm, ui, X)
    OBVIOUS
  <2>2. Set(d, "appSettings", X) = e
    BY <1>1, <2>1, SetSlice
  <2>3. ByKey(X) => MemoryInv(e)
    <3>1. /\ IsMemory(e)
          /\ e.users = us /\ e.passwordHashes = ph /\ e.agents = ag
          /\ e.llmModels = lm /\ e.integrations = ic /\ e.agentIntegrations = ai
          /\ e.pluginManifests = pm /\ e.userIdentities = ui /\ e.appSettings = X
      BY <2>1, TheSlices
    <3> QED
      BY ONLY <1>3, <3>1 DEF MemoryInv
  <2>4. View(e) = Tables(UsersOf(us, ph), Rows(ag), Rows(lm), GatewayOf(gw), Rows(ic),
                         Rows(ai), ManifestsOf(pm), Rows(ui), SettingsOf(X))
    BY ONLY <2>1, ViewOfSlices
  <2>5. Set(View(d), "app_settings", SettingsOf(X)) = View(e)
    BY ONLY <1>4, <2>4, SetTable
  <2> QED
    BY ONLY <2>2, <2>3, <2>5
<1> QED
  BY ONLY <1>2, <1>5, <1>6, <1>7, <1>8, <1>9, <1>10, <1>11, <1>12, <1>13, <1>14
-----------------------------------------------------------------------------
(* Replies *)

\* The two backends answer alike and hold the same data afterwards.
Agree(m, p) == MemoryInv(m.db) /\ SameReply(m, p)

\* The two kinds of reply.
LEMMA Replies ==
  ASSUME NEW x, NEW R, NEW e
  PROVE  /\ Mem!Ok(x, R).err = "" /\ Mem!Ok(x, R).rows = R /\ Mem!Ok(x, R).db = x
         /\ Pg!Ok(x, R).err = "" /\ Pg!Ok(x, R).rows = R /\ Pg!Ok(x, R).db = x
         /\ Mem!Fail(x, e).err = e /\ Mem!Fail(x, e).rows = {} /\ Mem!Fail(x, e).db = x
         /\ Pg!Fail(x, e).err = e /\ Pg!Fail(x, e).rows = {} /\ Pg!Fail(x, e).db = x
  BY DEF Mem!Ok, Mem!Fail, Pg!Ok, Pg!Fail

\* Equal replies to equal data.
LEMMA Agreement ==
  ASSUME NEW d, MemoryInv(d), NEW t, View(d) = t, NEW R, NEW e
  PROVE  Agree(Mem!Ok(d, R), Pg!Ok(t, R)) /\ Agree(Mem!Fail(d, e), Pg!Fail(t, e))
<1>1. PICK mo, po, mf, pf : /\ mo = Mem!Ok(d, R) /\ po = Pg!Ok(t, R)
                            /\ mf = Mem!Fail(d, e) /\ pf = Pg!Fail(t, e)
  OBVIOUS
<1>2. /\ mo.err = "" /\ mo.rows = R /\ mo.db = d /\ po.err = "" /\ po.rows = R /\ po.db = t
      /\ mf.err = e /\ mf.rows = {} /\ mf.db = d /\ pf.err = e /\ pf.rows = {} /\ pf.db = t
  BY ONLY <1>1 DEF Mem!Ok, Mem!Fail, Pg!Ok, Pg!Fail
<1>3. Agree(mo, po) /\ Agree(mf, pf)
  BY <1>2 DEF Agree, SameReply
<1> QED
  BY <1>1, <1>3

\* The first place of a row of K.
Place(s, K) ==
  LET I == {i \in 1 .. Len(s) : s[i] \in K} IN IF I # {} THEN Mem!Min(I) ELSE 0

\* At most one row is looked for.
LEMMA PlaceOf ==
  ASSUME NEW s, Slice(s), NEW K, K \subseteq Rows(s), \A r, q \in K : r = q
  PROVE  \/ K = {} /\ Place(s, K) = 0
         \/ /\ K = {s[Place(s, K)]}
            /\ Place(s, K) \in DOMAIN s /\ Place(s, K) # 0
<1> DEFINE I == {i \in 1 .. Len(s) : s[i] \in K}
<1>1. Len(s) \in Nat /\ DOMAIN s = 1 .. Len(s) /\ \A r \in K : \E i \in 1 .. Len(s) : s[i] = r
  BY SliceRows
<1>2. I \subseteq Nat
  BY <1>1
<1>3. CASE K = {}
  BY <1>3 DEF Place
<1>4. CASE K # {}
  <2>1. I # {}
    BY <1>1, <1>4
  <2>2. Place(s, K) = Mem!Min(I)
    BY <2>1 DEF Place
  <2>3. Mem!Min(I) \in I
    <3> HIDE DEF I
    <3> QED
      BY <1>2, <2>1, FirstPlace
  <2>4. Place(s, K) \in 1 .. Len(s) /\ s[Place(s, K)] \in K
    BY <2>2, <2>3
  <2> QED
    BY <1>1, <2>4
<1> QED
  BY <1>3, <1>4

\* The slices and the tables that hold the same rows.
Paired(n, p) ==
  \/ n = "agents" /\ p = "agents"
  \/ n = "llmModels" /\ p = "llm_models"
  \/ n = "integrations" /\ p = "integration_connections"
  \/ n = "agentIntegrations" /\ p = "agent_integrations"
  \/ n = "userIdentities" /\ p = "user_identities"

\* A slice and its table.
LEMMA PairedStep ==
  ASSUME NEW d, MemoryInv(d), NEW n, NEW p, Paired(n, p)
  PROVE  /\ Slice(d[n]) /\ Rows(d[n]) = View(d)[p]
         /\ \A X : Slice(X) => /\ MemoryInv(Set(d, n, X))
                               /\ View(Set(d, n, X)) = Set(View(d), p, Rows(X))
<1>1. Slice(d[n]) /\ Rows(d[n]) = View(d)[p]
  BY ViewTables DEF MemoryInv, Paired
<1>2. ASSUME NEW X, Slice(X)
      PROVE  /\ MemoryInv(Set(d, n, X))
             /\ View(Set(d, n, X)) = Set(View(d), p, Rows(X))
  <2>1. /\ MemoryInv(Set(d, "agents", X))
        /\ View(Set(d, "agents", X)) = Set(View(d), "agents", Rows(X))
        /\ MemoryInv(Set(d, "llmModels", X))
        /\ View(Set(d, "llmModels", X)) = Set(View(d), "llm_models", Rows(X))
        /\ MemoryInv(Set(d, "integrations", X))
        /\ View(Set(d, "integrations", X)) = Set(View(d), "integration_connections", Rows(X))
        /\ MemoryInv(Set(d, "agentIntegrations", X))
        /\ View(Set(d, "agentIntegrations", X)) = Set(View(d), "agent_integrations", Rows(X))
        /\ MemoryInv(Set(d, "userIdentities", X))
        /\ View(Set(d, "userIdentities", X)) = Set(View(d), "user_identities", Rows(X))
    BY ONLY MemoryInv(d), <1>2, ViewStep
  <2> QED
    BY ONLY <2>1, Paired(n, p) DEF Paired
<1> QED
  BY <1>1, <1>2

\* The loops of the in-memory store and the statements of the SQL store, for
\* the set K of the rows that match and the function N to the changed row.
MemFirst(d, n, K) == IF Place(d[n], K) = 0 THEN Mem!Fail(d, "notfound")
                     ELSE Mem!Ok(d, {d[n][Place(d[n], K)]})
PgSelect(t, K) == IF K = {} THEN Pg!Fail(t, "notfound") ELSE Pg!Ok(t, K)
MemChange(d, n, K, N) ==
  IF Place(d[n], K) = 0 THEN Mem!Fail(d, "notfound")
  ELSE Mem!Ok(Set(d, n, Put(d[n], Place(d[n], K), N[d[n][Place(d[n], K)]])),
              {N[d[n][Place(d[n], K)]]})
PgUpdate(t, p, K, N) ==
  IF K = {} THEN Pg!Fail(t, "notfound")
  ELSE Pg!Ok(Set(t, p, (t[p] \ K) \cup {N[r] : r \in K}), {N[r] : r \in K})
MemCut(d, n, K) == IF Place(d[n], K) = 0 THEN Mem!Fail(d, "notfound")
                   ELSE Mem!Ok(Set(d, n, Mem!RemoveAt(d[n], Place(d[n], K))), {})
PgDelete(t, p, K) == IF K = {} THEN Pg!Fail(t, "notfound")
                     ELSE Pg!Ok(Set(t, p, t[p] \ K), {})
MemPush(d, n, r) == Mem!Ok(Set(d, n, Append(d[n], r)), {r})
PgInsert(t, p, r) == Pg!Ok(Set(t, p, t[p] \cup {r}), {r})

\* A new row.
LEMMA PushAgrees ==
  ASSUME NEW d, MemoryInv(d), NEW t, View(d) = t, NEW n, NEW p, Paired(n, p),
         NEW r, r \notin t[p]
  PROVE  Agree(MemPush(d, n, r), PgInsert(t, p, r))
<1>1. PICK y, Y : y = Append(d[n], r) /\ Y = t[p] \cup {r}
  OBVIOUS
<1>2. Slice(y) /\ Rows(y) = Y
  BY <1>1, PairedStep, AppendSlice
<1>3. MemoryInv(Set(d, n, y)) /\ View(Set(d, n, y)) = Set(t, p, Y)
  BY <1>2, PairedStep
<1> QED
  BY <1>1, <1>3, Agreement DEF MemPush, PgInsert

\* A lookup, a change and a removal of a row with a given key.
LEMMA KeyedAgrees ==
  ASSUME NEW d, MemoryInv(d), NEW t, View(d) = t, NEW n, NEW p, Paired(n, p),
         NEW K, K \subseteq t[p], \A r, q \in K : r = q, NEW N
  PROVE  /\ Agree(MemFirst(d, n, K), PgSelect(t, K))
         /\ (\A r \in K : N[r] \notin t[p] \ K) =>
              Agree(MemChange(d, n, K, N), PgUpdate(t, p, K, N))
         /\ Agree(MemCut(d, n, K), PgDelete(t, p, K))
<1>1. PICK s, i : s = d[n] /\ i = Place(s, K)
  OBVIOUS
<1>2. Slice(s) /\ Rows(s) = t[p]
  BY <1>1, PairedStep
<1>3. \/ K = {} /\ i = 0
      \/ K = {s[i]} /\ i \in DOMAIN s /\ i # 0
  BY <1>1, <1>2, PlaceOf
<1>4. CASE K = {} /\ i = 0
  <2>1. /\ MemFirst(d, n, K) = Mem!Fail(d, "notfound")
        /\ MemChange(d, n, K, N) = Mem!Fail(d, "notfound")
        /\ MemCut(d, n, K) = Mem!Fail(d, "notfound")
        /\ PgSelect(t, K) = Pg!Fail(t, "notfound")
        /\ PgUpdate(t, p, K, N) = Pg!Fail(t, "notfound")
        /\ PgDelete(t, p, K) = Pg!Fail(t, "notfound")
    BY <1>1, <1>4 DEF MemFirst, MemChange, MemCut, PgSelect, PgUpdate, PgDelete
  <2> QED
    BY <2>1, Agreement
<1>5. CASE K = {s[i]} /\ i \in DOMAIN s /\ i # 0
  <2>1. PICK r : r = s[i]
    OBVIOUS
  <2>2. Agree(MemFirst(d, n, K), PgSelect(t, K))
    <3>1. MemFirst(d, n, K) = Mem!Ok(d, K) /\ PgSelect(t, K) = Pg!Ok(t, K)
      BY <1>1, <1>5 DEF MemFirst, PgSelect
    <3> QED
      BY <3>1, Agreement
  <2>3. ASSUME N[r] \notin t[p] \ K
        PROVE  Agree(MemChange(d, n, K, N), PgUpdate(t, p, K, N))
    <3>1. PICK x, y, Y : /\ x = N[r] /\ y = Put(s, i, x)
                         /\ Y = (t[p] \ K) \cup {x}
      OBVIOUS
    <3>2. Slice(y) /\ Rows(y) = Y
      <4>1. x \notin Rows(s) \ {s[i]} /\ Y = (Rows(s) \ {s[i]}) \cup {x}
        BY <1>2, <1>5, <2>3, <3>1
      <4> QED
        BY ONLY <1>2, <1>5, <3>1, <4>1, ChangeSlice
    <3>3. MemoryInv(Set(d, n, y)) /\ View(Set(d, n, y)) = Set(t, p, Y)
      BY <3>2, PairedStep
    <3>4. MemChange(d, n, K, N) = Mem!Ok(Set(d, n, y), {x})
      BY <1>1, <1>5, <2>1, <3>1 DEF MemChange
    <3>5. PgUpdate(t, p, K, N) = Pg!Ok(Set(t, p, Y), {x})
      <4>1. {N[q] : q \in K} = {x} /\ K # {}
        BY <1>5, <2>1, <3>1
      <4> QED
        BY <3>1, <4>1 DEF PgUpdate
    <3> QED
      BY ONLY <3>3, <3>4, <3>5, Agreement
  <2>4. Agree(MemCut(d, n, K), PgDelete(t, p, K))
    <3>1. PICK y, Y : y = Mem!RemoveAt(s, i) /\ Y = t[p] \ K
      OBVIOUS
    <3>2. Slice(y) /\ Rows(y) = Y
      BY <1>2, <1>5, <3>1, CutSlice
    <3>3. MemoryInv(Set(d, n, y)) /\ View(Set(d, n, y)) = Set(t, p, Y)
      BY <3>2, PairedStep
    <3>4. MemCut(d, n, K) = Mem!Ok(Set(d, n, y), {}) /\ PgDelete(t, p, K) =
              Pg!Ok(Set(t, p, Y), {})
      BY <1>1, <1>5, <3>1 DEF MemCut, PgDelete
    <3> QED
      BY ONLY <3>3, <3>4, Agreement
  <2> QED
    BY <1>5, <2>1, <2>2, <2>3, <2>4
<1> QED
  BY <1>3, <1>4, <1>5

\* A lookup.
LEMMA FirstAgrees ==
  ASSUME NEW d, MemoryInv(d), NEW t, View(d) = t, NEW n, NEW p, Paired(n, p),
         NEW K, K \subseteq t[p], \A r, q \in K : r = q
  PROVE  Agree(MemFirst(d, n, K), PgSelect(t, K))
<1>1. PICK N : N = <<>>
  OBVIOUS
<1> QED
  BY KeyedAgrees

\* A removal.
LEMMA CutAgrees ==
  ASSUME NEW d, MemoryInv(d), NEW t, View(d) = t, NEW n, NEW p, Paired(n, p),
         NEW K, K \subseteq t[p], \A r, q \in K : r = q
  PROVE  Agree(MemCut(d, n, K), PgDelete(t, p, K))
<1>1. PICK N : N = <<>>
  OBVIOUS
<1> QED
  BY KeyedAgrees

\* What the statements leave in the tables: a selection,
LEMMA SelectEffect ==
  ASSUME NEW t, NEW K
  PROVE  PgSelect(t, K).db = t
  BY DEF PgSelect, Pg!Ok, Pg!Fail

\* an update,
LEMMA UpdateEffect ==
  ASSUME NEW t, NEW p, NEW K, NEW N
  PROVE  PgUpdate(t, p, K, N).db =
           IF K = {} THEN t ELSE Set(t, p, (t[p] \ K) \cup {N[q] : q \in K})
<1>1. PICK X, R : /\ X = Set(t, p, (t[p] \ K) \cup {N[q] : q \in K})
                  /\ R = {N[q] : q \in K}
  OBVIOUS
<1>2. PgUpdate(t, p, K, N) = IF K = {} THEN Pg!Fail(t, "notfound") ELSE Pg!Ok(X, R)
  BY <1>1 DEF PgUpdate
<1>3. Pg!Fail(t, "notfound").db = t /\ Pg!Ok(X, R).db = X
  BY ONLY TRUE DEF Pg!Ok, Pg!Fail
<1> QED
  BY ONLY <1>1, <1>2, <1>3

\* a delete
LEMMA DeleteEffect ==
  ASSUME NEW t, NEW p, NEW K
  PROVE  PgDelete(t, p, K).db = IF K = {} THEN t ELSE Set(t, p, t[p] \ K)
<1>1. PICK X : X = Set(t, p, t[p] \ K)
  OBVIOUS
<1>2. PgDelete(t, p, K) = IF K = {} THEN Pg!Fail(t, "notfound") ELSE Pg!Ok(X, {})
  BY <1>1 DEF PgDelete
<1>3. Pg!Fail(t, "notfound").db = t /\ Pg!Ok(X, {}).db = X
  BY ONLY TRUE DEF Pg!Ok, Pg!Fail
<1> QED
  BY ONLY <1>1, <1>2, <1>3

\* and an insert.
LEMMA InsertEffect ==
  ASSUME NEW t, NEW p, NEW r
  PROVE  PgInsert(t, p, r).db = Set(t, p, t[p] \cup {r})
  BY DEF PgInsert, Pg!Ok

\* The row at a place of a slice is replaced.
LEMMA PutInSlice ==
  ASSUME NEW d, NEW n, NEW i, NEW x
  PROVE  [d EXCEPT ![n][i] = x] = Set(d, n, Put(d[n], i, x))
  BY DEF Set, Put

\* The rows with an identifier, and the loop that looks for the first one.
OfId(T, id) == {r \in T : r.id = id}
PlaceOfId(s, id) ==
  LET I == {i \in 1 .. Len(s) : s[i].id = id} IN IF I # {} THEN Mem!Min(I) ELSE 0

\* The loop finds the row.
LEMMA IdPlace ==
  ASSUME NEW s, Slice(s), NEW T, Rows(s) = T, ById(T), NEW id
  PROVE  /\ OfId(T, id) \subseteq T /\ \A r, q \in OfId(T, id) : r = q
         /\ PlaceOfId(s, id) = Place(s, OfId(T, id))
         /\ PlaceOfId(s, id) # 0 => s[PlaceOfId(s, id)] \in OfId(T, id)
<1>1. PICK K : K = OfId(T, id)
  OBVIOUS
<1>2. K \subseteq T /\ \A r, q \in K : r = q
  BY <1>1 DEF OfId, ById
<1>3. {i \in 1 .. Len(s) : s[i].id = id} = {i \in 1 .. Len(s) : s[i] \in K}
  BY <1>1, SliceRows DEF OfId
<1>4. PlaceOfId(s, id) = Place(s, K)
  BY <1>3 DEF PlaceOfId, Place
<1> QED
  BY <1>1, <1>2, <1>4, PlaceOf
-----------------------------------------------------------------------------
(* Agents *)

\* An agent is added.
LEMMA AgentAdded ==
  ASSUME NEW t, NEW f \in Nat, TablesInv(t, f), NEW r, IsAgent(r), r.id = f
  PROVE  r \notin t.agents /\ Step(t, PgInsert(t, "agents", r).db, f + 1)
<1>1. AgentsInv(t.agents, f)
  BY DEF TablesInv
<1>2. r \notin t.agents
  BY <1>1 DEF AgentsInv, Numbered
<1>3. PICK X : X = t.agents \cup {r}
  OBVIOUS
<1>4. AgentsInv(X, f + 1)
  BY <1>1, <1>3 DEF AgentsInv, Numbered, ById
<1>5. f + 1 \in Nat /\ f <= f + 1
  OBVIOUS
<1>6. Step(t, Set(t, "agents", X), f + 1)
  BY <1>4, <1>5, OtherTable
<1> QED
  BY <1>2, <1>3, <1>6, InsertEffect

\* The agent with an identifier is changed.
LEMMA AgentChanged ==
  ASSUME NEW t, NEW f \in Nat, TablesInv(t, f), NEW id, NEW N,
         \A r \in OfId(t.agents, id) : IsAgent(N[r]) /\ N[r].id = id
  PROVE  /\ \A r \in OfId(t.agents, id) : N[r] \notin t.agents \ OfId(t.agents, id)
         /\ Step(t, PgUpdate(t, "agents", OfId(t.agents, id), N).db, f)
<1>1. AgentsInv(t.agents, f)
  BY DEF TablesInv
<1>2. PICK K : K = OfId(t.agents, id)
  OBVIOUS
<1>3. \A r \in K : N[r] \notin t.agents \ K
  BY <1>2 DEF OfId
<1>4. PICK X : X = (t.agents \ K) \cup {N[r] : r \in K}
  OBVIOUS
<1>5. AgentsInv(X, f)
  BY <1>1, <1>2, <1>4 DEF AgentsInv, Numbered, ById, OfId
<1>6. Step(t, Set(t, "agents", X), f)
  BY <1>5, OtherTable
<1>7. PgUpdate(t, "agents", K, N).db = t \/ PgUpdate(t, "agents", K, N).db = Set(t, "agents", X)
  BY <1>4, UpdateEffect
<1> QED
  BY <1>2, <1>3, <1>6, <1>7, SameTables

\* CreateAgent for a user that exists.
LEMMA CreateAgentCall ==
  ASSUME NEW t, NEW f \in Nat, TablesInv(t, f), NEW owner, \E u \in t.users : u.id = owner
  PROVE  /\ Step(t, Pg!CreateAgent(t, f, owner).db, f + 1)
         /\ Pg!CreateAgent(t, f, owner).err = ""
         /\ \A d : MemoryInv(d) /\ View(d) = t =>
              Agree(Mem!CreateAgent(d, f, owner), Pg!CreateAgent(t, f, owner))
<1>1. PICK r : r = [id |-> f, owner |-> owner, state |-> "idle", lastError |-> None]
  OBVIOUS
<1>2. Pg!CreateAgent(t, f, owner) = PgInsert(t, "agents", r)
  BY <1>1 DEF Pg!CreateAgent, Pg!InsertRow, PgInsert, Set
<1>3. IsAgent(r) /\ r.id = f
  BY <1>1 DEF IsAgent
<1>4. r \notin t.agents /\ Step(t, PgInsert(t, "agents", r).db, f + 1)
  BY <1>3, AgentAdded
<1>5. PgInsert(t, "agents", r).err = ""
  BY DEF PgInsert, Pg!Ok
<1>6. ASSUME NEW d, MemoryInv(d), View(d) = t
      PROVE  Agree(Mem!CreateAgent(d, f, owner), Pg!CreateAgent(t, f, owner))
  <2>1. Mem!CreateAgent(d, f, owner) = MemPush(d, "agents", r)
    BY <1>1 DEF Mem!CreateAgent, Mem!Push, MemPush, Set
  <2>2. Agree(MemPush(d, "agents", r), PgInsert(t, "agents", r))
    BY <1>4, <1>6, PushAgrees DEF Paired
  <2> QED
    BY <1>2, <2>1, <2>2
<1> QED
  BY <1>2, <1>4, <1>5, <1>6

\* GetAgent.
LEMMA GetAgentCall ==
  ASSUME NEW t, NEW f \in Nat, TablesInv(t, f), NEW id
  PROVE  /\ Step(t, Pg!GetAgent(t, id).db, f)
         /\ \A d : MemoryInv(d) /\ View(d) = t =>
              Agree(Mem!GetAgent(d, id), Pg!GetAgent(t, id))
<1>1. PICK K : K = OfId(t.agents, id)
  OBVIOUS
<1>2. Pg!GetAgent(t, id) = PgSelect(t, K)
  BY <1>1 DEF Pg!GetAgent, Pg!SelectRow, Pg!Where, PgSelect, OfId
<1>3. Step(t, PgSelect(t, K).db, f)
  BY SelectEffect, SameTables
<1>4. ASSUME NEW d, MemoryInv(d), View(d) = t
      PROVE  Agree(Mem!GetAgent(d, id), Pg!GetAgent(t, id))
  <2>1. PICK s, i : s = d.agents /\ i = PlaceOfId(s, id)
    OBVIOUS
  <2>2. Slice(s) /\ Rows(s) = t.agents /\ ById(t.agents)
    BY <1>4, <2>1, PairedStep DEF Paired, TablesInv, AgentsInv
  <2>3. K \subseteq t.agents /\ (\A r, q \in K : r = q) /\ i = Place(s, K)
    BY ONLY <1>1, <2>1, <2>2, IdPlace
  <2>4. Mem!GetAgent(d, id) = MemFirst(d, "agents", K)
    BY <2>1, <2>3 DEF Mem!GetAgent, Mem!First, Mem!SelectInSeq, PlaceOfId, MemFirst
  <2>5. Agree(MemFirst(d, "agents", K), PgSelect(t, K))
    BY <1>4, <2>3, FirstAgrees DEF Paired
  <2> QED
    BY <1>2, <2>4, <2>5
<1> QED
  BY <1>2, <1>3, <1>4

\* ListAgents.
LEMMA ListAgentsCall ==
  ASSUME NEW t, NEW f \in Nat, TablesInv(t, f), NEW owner
  PROVE  /\ Step(t, Pg!ListAgents(t, owner).db, f)
         /\ \A d : MemoryInv(d) /\ View(d) = t =>
              Agree(Mem!ListAgents(d, owner), Pg!ListAgents(t, owner))
<1>1. PICK R : R = {r \in t.agents : r.owner = owner}
  OBVIOUS
<1>2. Pg!ListAgents(t, owner) = Pg!Ok(t, R)
  BY <1>1 DEF Pg!ListAgents, Pg!Where
<1>3. Pg!ListAgents(t, owner).db = t
  BY DEF Pg!ListAgents, Pg!Ok
<1>4. ASSUME NEW d, MemoryInv(d), View(d) = t
      PROVE  Agree(Mem!ListAgents(d, owner), Pg!ListAgents(t, owner))
  <2>1. Rows(d.agents) = t.agents
    BY <1>4, PairedStep DEF Paired
  <2>2. Mem!ListAgents(d, owner) = Mem!Ok(d, R)
    <3>1. Mem!ToSet(d.agents) = t.agents
      BY <2>1 DEF Mem!ToSet, Rows
    <3> QED
      BY <1>1, <3>1 DEF Mem!ListAgents, Mem!All, Mem!Ok
  <2> QED
    BY <1>2, <1>4, <2>2, Agreement
<1> QED
  BY <1>3, <1>4, SameTables

\* UpdateAgentState.
LEMMA UpdateAgentStateCall ==
  ASSUME NEW t, NEW f \in Nat, TablesInv(t, f), NEW id, NEW state
  PROVE  /\ Step(t, Pg!UpdateAgentState(t, id, state).db, f)
         /\ \A d : MemoryInv(d) /\ View(d) = t =>
              Agree(Mem!UpdateAgentState(d, id, state), Pg!UpdateAgentState(t, id, state))
<1>1. PICK K, N : /\ K = OfId(t.agents, id)
                  /\ N = [r \in K |-> [r EXCEPT !.state = state]]
  OBVIOUS
<1>2. Pg!UpdateAgentState(t, id, state) = PgUpdate(t, "agents", K, N)
  <2>1. {[r EXCEPT !.state = state] : r \in K} = {N[r] : r \in K}
    BY <1>1
  <2>2. {N[r] : r \in K} = {} <=> K = {}
    OBVIOUS
  <2> QED
    BY <1>1, <2>1, <2>2
       DEF Pg!UpdateAgentState, Pg!UpdateWhere, Pg!Where, PgUpdate, Set, OfId
<1>3. \A r \in K : IsAgent(N[r]) /\ N[r].id = id
  BY <1>1 DEF IsAgent, TablesInv, AgentsInv, OfId
<1>4. /\ \A r \in K : N[r] \notin t.agents \ K
      /\ Step(t, PgUpdate(t, "agents", K, N).db, f)
  BY <1>1, <1>3, AgentChanged
<1>5. ASSUME NEW d, MemoryInv(d), View(d) = t
      PROVE  Agree(Mem!UpdateAgentState(d, id, state), Pg!UpdateAgentState(t, id, state))
  <2>1. PICK s, i : s = d.agents /\ i = PlaceOfId(s, id)
    OBVIOUS
  <2>2. Slice(s) /\ Rows(s) = t.agents /\ ById(t.agents)
    BY <1>5, <2>1, PairedStep DEF Paired, TablesInv, AgentsInv
  <2>3. /\ K \subseteq t.agents /\ \A r, q \in K : r = q
        /\ i = Place(s, K) /\ (i # 0 => s[i] \in K)
    BY ONLY <1>1, <2>1, <2>2, IdPlace
  <2>4. PICK x : x = [s[i] EXCEPT !.state = state]
    OBVIOUS
  <2>5. Mem!UpdateAgentState(d, id, state) = IF i = 0 THEN Mem!Fail(d, "notfound")
                ELSE Mem!Ok([d EXCEPT !["agents"][i] = x], {x})
    BY <2>1, <2>4 DEF Mem!UpdateAgentState, Mem!Change, Mem!SelectInSeq, PlaceOfId
  <2>6. i # 0 => N[s[i]] = x
    BY <1>1, <2>3, <2>4
  <2>7. Mem!UpdateAgentState(d, id, state) = MemChange(d, "agents", K, N)
    <3>1. [d EXCEPT !["agents"][i] = x] = Set(d, "agents", Put(s, i, x))
      BY ONLY <2>1 DEF Set, Put
    <3> QED
      BY <2>1, <2>3, <2>5, <2>6, <3>1 DEF MemChange
  <2>8. Agree(MemChange(d, "agents", K, N), PgUpdate(t, "agents", K, N))
    BY <1>4, <1>5, <2>3, KeyedAgrees DEF Paired
  <2> QED
    BY <1>2, <2>7, <2>8
<1> QED
  BY <1>2, <1>4, <1>5

\* UpdateAgentError.
LEMMA UpdateAgentErrorCall ==
  ASSUME NEW t, NEW f \in Nat, TablesInv(t, f), NEW id, NEW lastError
  PROVE  /\ Step(t, Pg!UpdateAgentError(t, id, lastError).db, f)
         /\ \A d : MemoryInv(d) /\ View(d) = t =>
              Agree(Mem!UpdateAgentError(d, id, lastError), Pg!UpdateAgentError(t, id, lastError))
<1>1. PICK K, N : /\ K = OfId(t.agents, id)
                  /\ N = [r \in K |-> [r EXCEPT !.lastError = lastError]]
  OBVIOUS
<1>2. Pg!UpdateAgentError(t, id, lastError) = PgUpdate(t, "agents", K, N)
  <2>1. {[r EXCEPT !.lastError = lastError] : r \in K} = {N[r] : r \in K}
    BY <1>1
  <2>2. {N[r] : r \in K} = {} <=> K = {}
    OBVIOUS
  <2> QED
    BY <1>1, <2>1, <2>2
       DEF Pg!UpdateAgentError, Pg!UpdateWhere, Pg!Where, PgUpdate, Set, OfId
<1>3. \A r \in K : IsAgent(N[r]) /\ N[r].id = id
  BY <1>1 DEF IsAgent, TablesInv, AgentsInv, OfId
<1>4. /\ \A r \in K : N[r] \notin t.agents \ K
      /\ Step(t, PgUpdate(t, "agents", K, N).db, f)
  BY <1>1, <1>3, AgentChanged
<1>5. ASSUME NEW d, MemoryInv(d), View(d) = t
      PROVE  Agree(Mem!UpdateAgentError(d, id, lastError), Pg!UpdateAgentError(t, id, lastError))
  <2>1. PICK s, i : s = d.agents /\ i = PlaceOfId(s, id)
    OBVIOUS
  <2>2. Slice(s) /\ Rows(s) = t.agents /\ ById(t.agents)
    BY <1>5, <2>1, PairedStep DEF Paired, TablesInv, AgentsInv
  <2>3. /\ K \subseteq t.agents /\ \A r, q \in K : r = q
        /\ i = Place(s, K) /\ (i # 0 => s[i] \in K)
    BY ONLY <1>1, <2>1, <2>2, IdPlace
  <2>4. PICK x : x = [s[i] EXCEPT !.lastError = lastError]
    OBVIOUS
  <2>5. Mem!UpdateAgentError(d, id, lastError) = IF i = 0 THEN Mem!Fail(d, "notfound")
                ELSE Mem!Ok([d EXCEPT !["agents"][i] = x], {x})
    BY <2>1, <2>4 DEF Mem!UpdateAgentError, Mem!Change, Mem!SelectInSeq, PlaceOfId
  <2>6. i # 0 => N[s[i]] = x
    BY <1>1, <2>3, <2>4
  <2>7. Mem!UpdateAgentError(d, id, lastError) = MemChange(d, "agents", K, N)
    <3>1. [d EXCEPT !["agents"][i] = x] = Set(d, "agents", Put(s, i, x))
      BY ONLY <2>1 DEF Set, Put
    <3> QED
      BY <2>1, <2>3, <2>5, <2>6, <3>1 DEF MemChange
  <2>8. Agree(MemChange(d, "agents", K, N), PgUpdate(t, "agents", K, N))
    BY <1>4, <1>5, <2>3, KeyedAgrees DEF Paired
  <2> QED
    BY <1>2, <2>7, <2>8
<1> QED
  BY <1>2, <1>4, <1>5

-----------------------------------------------------------------------------
(* LLM models and the gateway's settings *)

\* A model is added.
LEMMA ModelAdded ==
  ASSUME NEW t, NEW f \in Nat, TablesInv(t, f), NEW r, IsModel(r), r.id = f
  PROVE  r \notin t.llm_models /\ Step(t, PgInsert(t, "llm_models", r).db, f + 1)
<1>1. ModelsInv(t.llm_models, f)
  BY DEF TablesInv
<1>2. r \notin t.llm_models
  BY <1>1 DEF ModelsInv, Numbered
<1>3. PICK X : X = t.llm_models \cup {r}
  OBVIOUS
<1>4. ModelsInv(X, f + 1)
  BY <1>1, <1>3 DEF ModelsInv, Numbered, ById
<1>5. f + 1 \in Nat /\ f <= f + 1
  OBVIOUS
<1>6. Step(t, Set(t, "llm_models", X), f + 1)
  BY <1>4, <1>5, OtherTable
<1> QED
  BY <1>2, <1>3, <1>6, InsertEffect

\* The model with an identifier is changed.
LEMMA ModelChanged ==
  ASSUME NEW t, NEW f \in Nat, TablesInv(t, f), NEW id, NEW N,
         \A r \in OfId(t.llm_models, id) : IsModel(N[r]) /\ N[r].id = id
  PROVE  /\ \A r \in OfId(t.llm_models, id) : N[r] \notin t.llm_models \ OfId(t.llm_models, id)
         /\ Step(t, PgUpdate(t, "llm_models", OfId(t.llm_models, id), N).db, f)
<1>1. ModelsInv(t.llm_models, f)
  BY DEF TablesInv
<1>2. PICK K : K = OfId(t.llm_models, id)
  OBVIOUS
<1>3. \A r \in K : N[r] \notin t.llm_models \ K
  BY <1>2 DEF OfId
<1>4. PICK X : X = (t.llm_models \ K) \cup {N[r] : r \in K}
  OBVIOUS
<1>5. ModelsInv(X, f)
  BY <1>1, <1>2, <1>4 DEF ModelsInv, Numbered, ById, OfId
<1>6. Step(t, Set(t, "llm_models", X), f)
  BY <1>5, OtherTable
<1>7. PgUpdate(t, "llm_models", K, N).db = t \/ PgUpdate(t, "llm_models", K, N).db = Set(t, "llm_models", X)
  BY <1>4, UpdateEffect
<1> QED
  BY <1>2, <1>3, <1>6, <1>7, SameTables

\* CreateLLMModel.
LEMMA CreateLLMModelCall ==
  ASSUME NEW t, NEW f \in Nat, TablesInv(t, f), NEW display, NEW provider, NEW enabled
  PROVE  /\ Step(t, Pg!CreateLLMModel(t, f, display, provider, enabled).db, f + 1)
         /\ Pg!CreateLLMModel(t, f, display, provider, enabled).err = ""
         /\ \A d : MemoryInv(d) /\ View(d) = t =>
              Agree(Mem!CreateLLMModel(d, f, display, provider, enabled),
                        Pg!CreateLLMModel(t, f, display, provider, enabled))
<1>1. PICK r : r = [id |-> f, display |-> display, provider |-> provider, enabled |-> enabled]
  OBVIOUS
<1>2. Pg!CreateLLMModel(t, f, display, provider, enabled) = PgInsert(t, "llm_models", r)
  BY <1>1 DEF Pg!CreateLLMModel, Pg!InsertRow, PgInsert, Set
<1>3. IsModel(r) /\ r.id = f
  BY <1>1 DEF IsModel
<1>4. r \notin t.llm_models /\ Step(t, PgInsert(t, "llm_models", r).db, f + 1)
  BY <1>3, ModelAdded
<1>5. PgInsert(t, "llm_models", r).err = ""
  BY DEF PgInsert, Pg!Ok
<1>6. ASSUME NEW d, MemoryInv(d), View(d) = t
      PROVE  Agree(Mem!CreateLLMModel(d, f, display, provider, enabled),
                Pg!CreateLLMModel(t, f, display, provider, enabled))
  <2>1. Mem!CreateLLMModel(d, f, display, provider, enabled) = MemPush(d, "llmModels", r)
    BY <1>1 DEF Mem!CreateLLMModel, Mem!Push, MemPush, Set
  <2>2. Agree(MemPush(d, "llmModels", r), PgInsert(t, "llm_models", r))
    BY <1>4, <1>6, PushAgrees DEF Paired
  <2> QED
    BY <1>2, <2>1, <2>2
<1> QED
  BY <1>2, <1>4, <1>5, <1>6

\* GetLLMModel.
LEMMA GetLLMModelCall ==
  ASSUME NEW t, NEW f \in Nat, TablesInv(t, f), NEW id
  PROVE  /\ Step(t, Pg!GetLLMModel(t, id).db, f)
         /\ \A d : MemoryInv(d) /\ View(d) = t =>
              Agree(Mem!GetLLMModel(d, id), Pg!GetLLMModel(t, id))
<1>1. PICK K : K = OfId(t.llm_models, id)
  OBVIOUS
<1>2. Pg!GetLLMModel(t, id) = PgSelect(t, K)
  BY <1>1 DEF Pg!GetLLMModel, Pg!SelectRow, Pg!Where, PgSelect, OfId
<1>3. Step(t, PgSelect(t, K).db, f)
  BY SelectEffect, SameTables
<1>4. ASSUME NEW d, MemoryInv(d), View(d) = t
      PROVE  Agree(Mem!GetLLMModel(d, id), Pg!GetLLMModel(t, id))
  <2>1. PICK s, i : s = d.llmModels /\ i = PlaceOfId(s, id)
    OBVIOUS
  <2>2. Slice(s) /\ Rows(s) = t.llm_models /\ ById(t.llm_models)
    BY <1>4, <2>1, PairedStep DEF Paired, TablesInv, ModelsInv
  <2>3. K \subseteq t.llm_models /\ (\A r, q \in K : r = q) /\ i = Place(s, K)
    BY ONLY <1>1, <2>1, <2>2, IdPlace
  <2>4. Mem!GetLLMModel(d, id) = MemFirst(d, "llmModels", K)
    BY <2>1, <2>3 DEF Mem!GetLLMModel, Mem!First, Mem!SelectInSeq, PlaceOfId, MemFirst
  <2>5. Agree(MemFirst(d, "llmModels", K), PgSelect(t, K))
    BY <1>4, <2>3, FirstAgrees DEF Paired
  <2> QED
    BY <1>2, <2>4, <2>5
<1> QED
  BY <1>2, <1>3, <1>4

\* ListLLMModels.
LEMMA ListLLMModelsCall ==
  ASSUME NEW t, NEW f \in Nat, TablesInv(t, f)
  PROVE  /\ Step(t, Pg!ListLLMModels(t).db, f)
         /\ \A d : MemoryInv(d) /\ View(d) = t =>
              Agree(Mem!ListLLMModels(d), Pg!ListLLMModels(t))
<1>1. PICK R : R = t.llm_models
  OBVIOUS
<1>2. Pg!ListLLMModels(t) = Pg!Ok(t, R)
  BY <1>1 DEF Pg!ListLLMModels, Pg!Where
<1>3. Pg!ListLLMModels(t).db = t
  BY DEF Pg!ListLLMModels, Pg!Ok
<1>4. ASSUME NEW d, MemoryInv(d), View(d) = t
      PROVE  Agree(Mem!ListLLMModels(d), Pg!ListLLMModels(t))
  <2>1. Rows(d.llmModels) = t.llm_models
    BY <1>4, PairedStep DEF Paired
  <2>2. Mem!ListLLMModels(d) = Mem!Ok(d, R)
    <3>1. Mem!ToSet(d.llmModels) = t.llm_models
      BY <2>1 DEF Mem!ToSet, Rows
    <3> QED
      BY <1>1, <3>1 DEF Mem!ListLLMModels, Mem!All, Mem!Ok
  <2> QED
    BY <1>2, <1>4, <2>2, Agreement
<1> QED
  BY <1>3, <1>4, SameTables

\* UpdateLLMModel.
LEMMA UpdateLLMModelCall ==
  ASSUME NEW t, NEW f \in Nat, TablesInv(t, f), NEW id, NEW display, NEW provider, NEW enabled
  PROVE  /\ Step(t, Pg!UpdateLLMModel(t, id, display, provider, enabled).db, f)
         /\ \A d : MemoryInv(d) /\ View(d) = t =>
              Agree(Mem!UpdateLLMModel(d, id, display, provider, enabled),
                        Pg!UpdateLLMModel(t, id, display, provider, enabled))
<1>1. PICK K, N : /\ K = OfId(t.llm_models, id)
                  /\ N = [r \in K |-> [r EXCEPT !.display = Pg!Given(display, @),
                                          !.provider = Pg!Given(provider, @),
                                          !.enabled = Pg!Given(enabled, @)]]
  OBVIOUS
<1>2. Pg!UpdateLLMModel(t, id, display, provider, enabled) = PgUpdate(t, "llm_models", K, N)
  <2>1. {[r EXCEPT !.display = Pg!Given(display, @),
                                          !.provider = Pg!Given(provider, @),
                                          !.enabled = Pg!Given(enabled, @)] : r \in K} = {N[r] : r \in K}
    BY <1>1
  <2>2. {N[r] : r \in K} = {} <=> K = {}
    OBVIOUS
  <2> QED
    BY <1>1, <2>1, <2>2
       DEF Pg!UpdateLLMModel, Pg!UpdateWhere, Pg!Where, PgUpdate, Set, OfId
<1>3. \A r \in K : IsModel(N[r]) /\ N[r].id = id
  <2> SUFFICES ASSUME NEW r \in K PROVE IsModel(N[r]) /\ N[r].id = id
    OBVIOUS
  <2>1. r = [id |-> r.id, display |-> r.display, provider |-> r.provider,
             enabled |-> r.enabled] /\ r.id = id
    BY <1>1 DEF TablesInv, ModelsInv, IsModel, OfId
  <2>2. N[r] = [r EXCEPT !.display = Pg!Given(display, @),
                         !.provider = Pg!Given(provider, @),
                         !.enabled = Pg!Given(enabled, @)]
    BY <1>1
  <2>3. PICK x, y, z : /\ x = Pg!Given(display, r.display)
                       /\ y = Pg!Given(provider, r.provider)
                       /\ z = Pg!Given(enabled, r.enabled)
    OBVIOUS
  <2>4. N[r] = [id |-> r.id, display |-> x, provider |-> y, enabled |-> z]
    BY ONLY <2>1, <2>2, <2>3
  <2> QED
    BY ONLY <2>1, <2>4 DEF IsModel
<1>4. /\ \A r \in K : N[r] \notin t.llm_models \ K
      /\ Step(t, PgUpdate(t, "llm_models", K, N).db, f)
  BY <1>1, <1>3, ModelChanged
<1>5. ASSUME NEW d, MemoryInv(d), View(d) = t
      PROVE  Agree(Mem!UpdateLLMModel(d, id, display, provider, enabled),
                Pg!UpdateLLMModel(t, id, display, provider, enabled))
  <2>1. PICK s, i : s = d.llmModels /\ i = PlaceOfId(s, id)
    OBVIOUS
  <2>2. Slice(s) /\ Rows(s) = t.llm_models /\ ById(t.llm_models)
    BY <1>5, <2>1, PairedStep DEF Paired, TablesInv, ModelsInv
  <2>3. /\ K \subseteq t.llm_models /\ \A r, q \in K : r = q
        /\ i = Place(s, K) /\ (i # 0 => s[i] \in K)
    BY ONLY <1>1, <2>1, <2>2, IdPlace
  <2>4. PICK x : x = [s[i] EXCEPT !.display = Mem!Given(display, @),
                                          !.provider = Mem!Given(provider, @),
                                          !.enabled = Mem!Given(enabled, @)]
    OBVIOUS
  <2>5. Mem!UpdateLLMModel(d, id, display, provider, enabled) =
            IF i = 0 THEN Mem!Fail(d, "notfound")
                ELSE Mem!Ok([d EXCEPT !["llmModels"][i] = x], {x})
    BY <2>1, <2>4, ZenonT(60) DEF Mem!UpdateLLMModel, Mem!Change, Mem!SelectInSeq, PlaceOfId
  <2>6. i # 0 => N[s[i]] = x
    BY <1>1, <2>3, <2>4 DEF Mem!Given, Pg!Given
  <2>7. Mem!UpdateLLMModel(d, id, display, provider, enabled) = MemChange(d, "llmModels", K, N)
    <3>1. [d EXCEPT !["llmModels"][i] = x] = Set(d, "llmModels", Put(s, i, x))
      BY ONLY <2>1 DEF Set, Put
    <3> QED
      BY <2>1, <2>3, <2>5, <2>6, <3>1 DEF MemChange
  <2>8. Agree(MemChange(d, "llmModels", K, N), PgUpdate(t, "llm_models", K, N))
    BY <1>4, <1>5, <2>3, KeyedAgrees DEF Paired
  <2> QED
    BY <1>2, <2>7, <2>8
<1> QED
  BY <1>2, <1>4, <1>5
-----------------------------------------------------------------------------
(* Integrations: connections and switches *)

\* A user's connection to a provider, and the loop that looks for it.
OfConnection(T, user, provider) == {r \in T : r.user = user /\ r.provider = provider}
PlaceOfConnection(s, user, provider) ==
  LET I == {i \in 1 .. Len(s) : s[i].user = user /\ s[i].provider = provider}
  IN  IF I # {} THEN Mem!Min(I) ELSE 0

\* The loop finds the row.
LEMMA ConnectionPlace ==
  ASSUME NEW s, Slice(s), NEW T, Rows(s) = T, ConnectionsInv(T), NEW user, NEW provider
  PROVE  /\ OfConnection(T, user, provider) \subseteq T
         /\ \A r, q \in OfConnection(T, user, provider) : r = q
         /\ PlaceOfConnection(s, user, provider) = Place(s, OfConnection(T, user, provider))
         /\ \/ /\ PlaceOfConnection(s, user, provider) = 0
               /\ OfConnection(T, user, provider) = {}
            \/ /\ PlaceOfConnection(s, user, provider) # 0
               /\ s[PlaceOfConnection(s, user, provider)] \in OfConnection(T, user, provider)
<1>1. PICK K : K = OfConnection(T, user, provider)
  OBVIOUS
<1>2. K \subseteq T /\ \A r, q \in K : r = q
  BY <1>1 DEF OfConnection, ConnectionsInv
<1>3. {i \in 1 .. Len(s) : s[i].user = user /\ s[i].provider = provider} =
        {i \in 1 .. Len(s) : s[i] \in K}
  BY <1>1, SliceRows DEF OfConnection
<1>4. PlaceOfConnection(s, user, provider) = Place(s, K)
  BY <1>3 DEF PlaceOfConnection, Place
<1> QED
  BY <1>1, <1>2, <1>4, PlaceOf

\* An agent's switch of a provider, and the loop that looks for it.
OfSwitch(T, agent, provider) == {r \in T : r.agent = agent /\ r.provider = provider}
PlaceOfSwitch(s, agent, provider) ==
  LET I == {i \in 1 .. Len(s) : s[i].agent = agent /\ s[i].provider = provider}
  IN  IF I # {} THEN Mem!Min(I) ELSE 0

\* The loop finds the row.
LEMMA SwitchPlace ==
  ASSUME NEW s, Slice(s), NEW T, Rows(s) = T, SwitchesInv(T), NEW agent, NEW provider
  PROVE  /\ OfSwitch(T, agent, provider) \subseteq T
         /\ \A r, q \in OfSwitch(T, agent, provider) : r = q
         /\ PlaceOfSwitch(s, agent, provider) = Place(s, OfSwitch(T, agent, provider))
         /\ \/ /\ PlaceOfSwitch(s, agent, provider) = 0
               /\ OfSwitch(T, agent, provider) = {}
            \/ /\ PlaceOfSwitch(s, agent, provider) # 0
               /\ s[PlaceOfSwitch(s, agent, provider)] \in OfSwitch(T, agent, provider)
<1>1. PICK K : K = OfSwitch(T, agent, provider)
  OBVIOUS
<1>2. K \subseteq T /\ \A r, q \in K : r = q
  BY <1>1 DEF OfSwitch, SwitchesInv
<1>3. {i \in 1 .. Len(s) : s[i].agent = agent /\ s[i].provider = provider} =
        {i \in 1 .. Len(s) : s[i] \in K}
  BY <1>1, SliceRows DEF OfSwitch
<1>4. PlaceOfSwitch(s, agent, provider) = Place(s, K)
  BY <1>3 DEF PlaceOfSwitch, Place
<1> QED
  BY <1>1, <1>2, <1>4, PlaceOf

\* A connection is added.
LEMMA ConnectionAdded ==
  ASSUME NEW t, NEW f \in Nat, TablesInv(t, f), NEW x,
         IsConnection(x), OfConnection(t.integration_connections, x.user, x.provider) = {}
  PROVE  x \notin t.integration_connections /\ Step(t, PgInsert(t, "integration_connections", x).db, f)
<1>1. ConnectionsInv(t.integration_connections)
  BY DEF TablesInv
<1>2. \A r \in t.integration_connections : ~ (r.user = x.user /\ r.provider = x.provider)
  BY DEF OfConnection
<1>3. PICK Y : Y = t.integration_connections \cup {x}
  OBVIOUS
<1>4. ConnectionsInv(Y)
  BY <1>1, <1>2, <1>3 DEF ConnectionsInv
<1>5. Step(t, Set(t, "integration_connections", Y), f)
  BY <1>4, OtherTable
<1> QED
  BY <1>2, <1>3, <1>5, InsertEffect

\* A connection is changed.
LEMMA ConnectionChanged ==
  ASSUME NEW t, NEW f \in Nat, TablesInv(t, f), NEW user, NEW provider, NEW N,
         \A r \in OfConnection(t.integration_connections, user, provider) :
           IsConnection(N[r]) /\ N[r].user = user /\ N[r].provider = provider
  PROVE  /\ \A r \in OfConnection(t.integration_connections, user, provider) :
              N[r] \notin t.integration_connections \ OfConnection(t.integration_connections, user, provider)
         /\ Step(t, PgUpdate(t, "integration_connections", OfConnection(t.integration_connections, user, provider), N).db, f)
<1>1. ConnectionsInv(t.integration_connections)
  BY DEF TablesInv
<1>2. PICK K : K = OfConnection(t.integration_connections, user, provider)
  OBVIOUS
<1>3. \A r \in K : N[r] \notin t.integration_connections \ K
  BY <1>2 DEF OfConnection
<1>4. PICK X : X = (t.integration_connections \ K) \cup {N[r] : r \in K}
  OBVIOUS
<1>5. ConnectionsInv(X)
  <2>1. \A r \in K : IsConnection(N[r]) /\ N[r].user = user /\ N[r].provider = provider
    BY <1>2
  <2>2. \A r \in t.integration_connections \ K : ~ (r.user = user /\ r.provider = provider)
    BY <1>2 DEF OfConnection
  <2>3. \A r, q \in K : r = q
    BY <1>1, <1>2 DEF ConnectionsInv, OfConnection
  <2>4. \A y \in X : IsConnection(y)
    BY <1>1, <1>4, <2>1 DEF ConnectionsInv
  <2>5. \A y, z \in X : y.user = z.user /\ y.provider = z.provider => y = z
    BY <1>1, <1>4, <2>1, <2>2, <2>3 DEF ConnectionsInv
  <2> QED
    BY <2>4, <2>5 DEF ConnectionsInv
<1>6. Step(t, Set(t, "integration_connections", X), f)
  BY <1>5, OtherTable
<1>7. PgUpdate(t, "integration_connections", K, N).db = t \/ PgUpdate(t, "integration_connections", K, N).db = Set(t, "integration_connections", X)
  BY <1>4, UpdateEffect
<1> QED
  BY <1>2, <1>3, <1>6, <1>7, SameTables

\* A switch is added.
LEMMA SwitchAdded ==
  ASSUME NEW t, NEW f \in Nat, TablesInv(t, f), NEW x,
         IsSwitch(x), OfSwitch(t.agent_integrations, x.agent, x.provider) = {}
  PROVE  x \notin t.agent_integrations /\ Step(t, PgInsert(t, "agent_integrations", x).db, f)
<1>1. SwitchesInv(t.agent_integrations)
  BY DEF TablesInv
<1>2. \A r \in t.agent_integrations : ~ (r.agent = x.agent /\ r.provider = x.provider)
  BY DEF OfSwitch
<1>3. PICK Y : Y = t.agent_integrations \cup {x}
  OBVIOUS
<1>4. SwitchesInv(Y)
  BY <1>1, <1>2, <1>3 DEF SwitchesInv
<1>5. Step(t, Set(t, "agent_integrations", Y), f)
  BY <1>4, OtherTable
<1> QED
  BY <1>2, <1>3, <1>5, InsertEffect

\* A switch is changed.
LEMMA SwitchChanged ==
  ASSUME NEW t, NEW f \in Nat, TablesInv(t, f), NEW agent, NEW provider, NEW N,
         \A r \in OfSwitch(t.agent_integrations, agent, provider) :
           IsSwitch(N[r]) /\ N[r].agent = agent /\ N[r].provider = provider
  PROVE  /\ \A r \in OfSwitch(t.agent_integrations, agent, provider) :
              N[r] \notin t.agent_integrations \ OfSwitch(t.agent_integrations, agent, provider)
         /\ Step(t, PgUpdate(t, "agent_integrations", OfSwitch(t.agent_integrations, agent, provider), N).db, f)
<1>1. SwitchesInv(t.agent_integrations)
  BY DEF TablesInv
<1>2. PICK K : K = OfSwitch(t.agent_integrations, agent, provider)
  OBVIOUS
<1>3. \A r \in K : N[r] \notin t.agent_integrations \ K
  BY <1>2 DEF OfSwitch
<1>4. PICK X : X = (t.agent_integrations \ K) \cup {N[r] : r \in K}
  OBVIOUS
<1>5. SwitchesInv(X)
  <2>1. \A r \in K : IsSwitch(N[r]) /\ N[r].agent = agent /\ N[r].provider = provider
    BY <1>2
  <2>2. \A r \in t.agent_integrations \ K : ~ (r.agent = agent /\ r.provider = provider)
    BY <1>2 DEF OfSwitch
  <2>3. \A r, q \in K : r = q
    BY <1>1, <1>2 DEF SwitchesInv, OfSwitch
  <2>4. \A y \in X : IsSwitch(y)
    BY <1>1, <1>4, <2>1 DEF SwitchesInv
  <2>5. \A y, z \in X : y.agent = z.agent /\ y.provider = z.provider => y = z
    BY <1>1, <1>4, <2>1, <2>2, <2>3 DEF SwitchesInv
  <2> QED
    BY <2>4, <2>5 DEF SwitchesInv
<1>6. Step(t, Set(t, "agent_integrations", X), f)
  BY <1>5, OtherTable
<1>7. PgUpdate(t, "agent_integrations", K, N).db = t \/ PgUpdate(t, "agent_integrations", K, N).db = Set(t, "agent_integrations", X)
  BY <1>4, UpdateEffect
<1> QED
  BY <1>2, <1>3, <1>6, <1>7, SameTables

\* GetIntegrationConnection.
LEMMA GetIntegrationConnectionCall ==
  ASSUME NEW t, NEW f \in Nat, TablesInv(t, f), NEW user, NEW provider
  PROVE  /\ Step(t, Pg!GetIntegrationConnection(t, user, provider).db, f)
         /\ \A d : MemoryInv(d) /\ View(d) = t =>
              Agree(Mem!GetIntegrationConnection(d, user, provider),
                        Pg!GetIntegrationConnection(t, user, provider))
<1>1. PICK K : K = OfConnection(t.integration_connections, user, provider)
  OBVIOUS
<1>2. Pg!GetIntegrationConnection(t, user, provider) = PgSelect(t, K)
  BY <1>1 DEF Pg!GetIntegrationConnection, Pg!SelectRow, Pg!Where, PgSelect, OfConnection
<1>3. Step(t, PgSelect(t, K).db, f)
  BY SelectEffect, SameTables
<1>4. ASSUME NEW d, MemoryInv(d), View(d) = t
      PROVE  Agree(Mem!GetIntegrationConnection(d, user, provider),
                Pg!GetIntegrationConnection(t, user, provider))
  <2>1. PICK s, i : s = d.integrations /\ i = PlaceOfConnection(s, user, provider)
    OBVIOUS
  <2>2. Slice(s) /\ Rows(s) = t.integration_connections /\ ConnectionsInv(t.integration_connections)
    BY <1>4, <2>1, PairedStep DEF Paired, TablesInv, ConnectionsInv
  <2>3. K \subseteq t.integration_connections /\ (\A r, q \in K : r = q) /\ i = Place(s, K)
    BY ONLY <1>1, <2>1, <2>2, ConnectionPlace
  <2>4. Mem!GetIntegrationConnection(d, user, provider) = MemFirst(d, "integrations", K)
    BY <2>1, <2>3 DEF Mem!GetIntegrationConnection, Mem!First, Mem!SelectInSeq,
       PlaceOfConnection, MemFirst
  <2>5. Agree(MemFirst(d, "integrations", K), PgSelect(t, K))
    BY <1>4, <2>3, FirstAgrees DEF Paired
  <2> QED
    BY <1>2, <2>4, <2>5
<1> QED
  BY <1>2, <1>3, <1>4

\* GetAgentIntegration.
LEMMA GetAgentIntegrationCall ==
  ASSUME NEW t, NEW f \in Nat, TablesInv(t, f), NEW agent, NEW provider
  PROVE  /\ Step(t, Pg!GetAgentIntegration(t, agent, provider).db, f)
         /\ \A d : MemoryInv(d) /\ View(d) = t =>
              Agree(Mem!GetAgentIntegration(d, agent, provider),
                        Pg!GetAgentIntegration(t, agent, provider))
<1>1. PICK K : K = OfSwitch(t.agent_integrations, agent, provider)
  OBVIOUS
<1>2. Pg!GetAgentIntegration(t, agent, provider) = PgSelect(t, K)
  BY <1>1 DEF Pg!GetAgentIntegration, Pg!SelectRow, Pg!Where, PgSelect, OfSwitch
<1>3. Step(t, PgSelect(t, K).db, f)
  BY SelectEffect, SameTables
<1>4. ASSUME NEW d, MemoryInv(d), View(d) = t
      PROVE  Agree(Mem!GetAgentIntegration(d, agent, provider),
                Pg!GetAgentIntegration(t, agent, provider))
  <2>1. PICK s, i : s = d.agentIntegrations /\ i = PlaceOfSwitch(s, agent, provider)
    OBVIOUS
  <2>2. Slice(s) /\ Rows(s) = t.agent_integrations /\ SwitchesInv(t.agent_integrations)
    BY <1>4, <2>1, PairedStep DEF Paired, TablesInv, SwitchesInv
  <2>3. K \subseteq t.agent_integrations /\ (\A r, q \in K : r = q) /\ i = Place(s, K)
    BY ONLY <1>1, <2>1, <2>2, SwitchPlace
  <2>4. Mem!GetAgentIntegration(d, agent, provider) = MemFirst(d, "agentIntegrations", K)
    BY <2>1, <2>3 DEF Mem!GetAgentIntegration, Mem!First, Mem!SelectInSeq, PlaceOfSwitch,
       MemFirst
  <2>5. Agree(MemFirst(d, "agentIntegrations", K), PgSelect(t, K))
    BY <1>4, <2>3, FirstAgrees DEF Paired
  <2> QED
    BY <1>2, <2>4, <2>5
<1> QED
  BY <1>2, <1>3, <1>4

\* ListAgentIntegrations.
LEMMA ListAgentIntegrationsCall ==
  ASSUME NEW t, NEW f \in Nat, TablesInv(t, f), NEW agent
  PROVE  /\ Step(t, Pg!ListAgentIntegrations(t, agent).db, f)
         /\ \A d : MemoryInv(d) /\ View(d) = t =>
              Agree(Mem!ListAgentIntegrations(d, agent), Pg!ListAgentIntegrations(t, agent))
<1>1. PICK R : R = {r \in t.agent_integrations : r.agent = agent}
  OBVIOUS
<1>2. Pg!ListAgentIntegrations(t, agent) = Pg!Ok(t, R)
  BY <1>1 DEF Pg!ListAgentIntegrations, Pg!Where
<1>3. Pg!ListAgentIntegrations(t, agent).db = t
  BY DEF Pg!ListAgentIntegrations, Pg!Ok
<1>4. ASSUME NEW d, MemoryInv(d), View(d) = t
      PROVE  Agree(Mem!ListAgentIntegrations(d, agent), Pg!ListAgentIntegrations(t, agent))
  <2>1. Rows(d.agentIntegrations) = t.agent_integrations
    BY <1>4, PairedStep DEF Paired
  <2>2. Mem!ListAgentIntegrations(d, agent) = Mem!Ok(d, R)
    <3>1. Mem!ToSet(d.agentIntegrations) = t.agent_integrations
      BY <2>1 DEF Mem!ToSet, Rows
    <3> QED
      BY <1>1, <3>1 DEF Mem!ListAgentIntegrations, Mem!All, Mem!Ok
  <2> QED
    BY <1>2, <1>4, <2>2, Agreement
<1> QED
  BY <1>3, <1>4, SameTables

\* ListUserIntegrationProviderIDs.
LEMMA ListUserIntegrationProviderIDsCall ==
  ASSUME NEW t, NEW f \in Nat, TablesInv(t, f), NEW user
  PROVE  /\ Step(t, Pg!ListUserIntegrationProviderIDs(t, user).db, f)
         /\ \A d : MemoryInv(d) /\ View(d) = t =>
              Agree(Mem!ListUserIntegrationProviderIDs(d, user),
                        Pg!ListUserIntegrationProviderIDs(t, user))
<1>1. PICK R : R = {[provider |-> c.provider] : c \in {e \in t.integration_connections : e.user = user}}
  OBVIOUS
<1>2. Pg!ListUserIntegrationProviderIDs(t, user) = Pg!Ok(t, R)
  BY <1>1 DEF Pg!ListUserIntegrationProviderIDs, Pg!Where
<1>3. Pg!ListUserIntegrationProviderIDs(t, user).db = t
  BY DEF Pg!ListUserIntegrationProviderIDs, Pg!Ok
<1>4. ASSUME NEW d, MemoryInv(d), View(d) = t
      PROVE  Agree(Mem!ListUserIntegrationProviderIDs(d, user),
                Pg!ListUserIntegrationProviderIDs(t, user))
  <2>1. Rows(d.integrations) = t.integration_connections
    BY <1>4, PairedStep DEF Paired
  <2>2. Mem!ListUserIntegrationProviderIDs(d, user) = Mem!Ok(d, R)
    <3>1. Mem!ToSet(d.integrations) = t.integration_connections
      BY <2>1 DEF Mem!ToSet, Rows
    <3> QED
      BY <1>1, <3>1 DEF Mem!ListUserIntegrationProviderIDs, Mem!All, Mem!Ok
  <2> QED
    BY <1>2, <1>4, <2>2, Agreement
<1> QED
  BY <1>3, <1>4, SameTables

\* What UpsertIntegrationConnection writes.
UpsertedConnection(t, user, provider, secret) ==
  LET K == OfConnection(t.integration_connections, user, provider)
  IN  IF K = {} THEN PgInsert(t, "integration_connections", [user |-> user, provider |-> provider,
                                secret |-> secret, revision |-> 1])
      ELSE PgUpdate(t, "integration_connections", K, [r \in K |-> [r EXCEPT !.secret = secret, !.revision = @ + 1]])

\* UpsertIntegrationConnection.
LEMMA UpsertIntegrationConnectionCall ==
  ASSUME NEW t, NEW f \in Nat, TablesInv(t, f), NEW user, NEW provider, NEW secret
  PROVE  LET u == UpsertedConnection(t, user, provider, secret)
         IN  /\ Step(t, u.db, f)
             /\ Pg!UpsertIntegrationConnection(t, user, provider, secret, 0) =
                  IF \A r \in t.users : r.id # user THEN Pg!Fail(t, "reference") ELSE u
             /\ \A d : MemoryInv(d) /\ View(d) = t =>
                  Agree(Mem!UpsertIntegrationConnection(d, user, provider, secret, 0), u)
<1>0. PICK K : K = OfConnection(t.integration_connections, user, provider)
  OBVIOUS
<1>1. PICK N, x :
        /\ N = [r \in K |-> [r EXCEPT !.secret = secret, !.revision = @ + 1]]
        /\ x = [user |-> user, provider |-> provider, secret |-> secret, revision |-> 1]
  OBVIOUS
<1>2. PICK u : u = IF K = {} THEN PgInsert(t, "integration_connections", x) ELSE PgUpdate(t, "integration_connections", K, N)
  OBVIOUS
<1>3. u = UpsertedConnection(t, user, provider, secret)
  BY <1>0, <1>1, <1>2 DEF UpsertedConnection
<1>4. \A r \in K : r.revision \in Nat
  BY <1>0, <1>1 DEF IsConnection, TablesInv, ConnectionsInv, OfConnection
<1>5. \A r \in K : IsConnection(N[r]) /\ N[r].user = user /\ N[r].provider = provider
  <2> SUFFICES ASSUME NEW r \in K
               PROVE  IsConnection(N[r]) /\ N[r].user = user /\ N[r].provider = provider
    OBVIOUS
  <2>1. r = [user |-> r.user, provider |-> r.provider, secret |-> r.secret,
             revision |-> r.revision] /\ r.user = user /\ r.provider = provider
    BY <1>0, <1>1 DEF IsConnection, TablesInv, ConnectionsInv, OfConnection
  <2>2. PICK v \in Nat : v = r.revision + 1
    BY <1>4
  <2>3. N[r] = [user |-> user, provider |-> provider, secret |-> secret, revision |-> v]
    BY <1>0, <1>1, <2>1, <2>2
  <2> QED
    BY <2>2, <2>3 DEF IsConnection
<1>6. IsConnection(x) /\ x.user = user /\ x.provider = provider
  BY <1>0, <1>1 DEF IsConnection
<1>7. /\ K = {} => /\ x \notin t.integration_connections
                   /\ Step(t, PgInsert(t, "integration_connections", x).db, f)
      /\ \A r \in K : N[r] \notin t.integration_connections \ K
      /\ Step(t, PgUpdate(t, "integration_connections", K, N).db, f)
  BY ONLY TablesInv(t, f), f \in Nat, <1>0, <1>5, <1>6, ConnectionAdded, ConnectionChanged
<1>8. Step(t, u.db, f)
  BY <1>2, <1>7
<1>9. Pg!UpsertIntegrationConnection(t, user, provider, secret, 0) =
        IF \A r \in t.users : r.id # user THEN Pg!Fail(t, "reference") ELSE u
  <2>1. {[r EXCEPT !.secret = secret, !.revision = @ + 1] : r \in K} = {N[r] : r \in K}
    BY <1>0, <1>1
  <2>2. {N[r] : r \in K} = {} <=> K = {}
    OBVIOUS
  <2>3. Pg!FirstRevision(0) = 1
    BY DEF Pg!FirstRevision
  <2> QED
    BY <1>0, <1>1, <1>2, <2>1, <2>2, <2>3
       DEF Pg!UpsertIntegrationConnection, Pg!OnConflict, Pg!InsertRow, Pg!UpdateWhere, Pg!Where,
           PgInsert, PgUpdate, Set, OfConnection
<1>10. ASSUME NEW d, MemoryInv(d), View(d) = t
       PROVE  Agree(Mem!UpsertIntegrationConnection(d, user, provider, secret, 0), u)
  <2>1. PICK s, i : s = d.integrations /\ i = PlaceOfConnection(s, user, provider)
    OBVIOUS
  <2>2. Slice(s) /\ Rows(s) = t.integration_connections /\ ConnectionsInv(t.integration_connections)
    BY <1>0, <1>10, <2>1, PairedStep DEF Paired, TablesInv
  <2>3. /\ K \subseteq t.integration_connections /\ \A r, q \in K : r = q
        /\ i = Place(s, K) /\ (i # 0 => s[i] \in K) /\ (i = 0 <=> K = {})
    BY ONLY <1>0, <2>1, <2>2, ConnectionPlace
  <2>4. PICK y : y = [s[i] EXCEPT !.secret = secret, !.revision = Mem!Larger(@ + 1, 0)]
    OBVIOUS
  <2>5. Mem!UpsertIntegrationConnection(d, user, provider, secret, 0) =
          IF i # 0 THEN Mem!Ok([d EXCEPT !["integrations"][i] = y], {y})
          ELSE Mem!Ok([d EXCEPT !["integrations"] = Append(@, x)], {x})
    BY <1>0, <1>1, <2>1, <2>4
       DEF Mem!UpsertIntegrationConnection, Mem!Has, Mem!Change, Mem!Push, Mem!SelectInSeq, PlaceOfConnection
  <2>6. i # 0 => N[s[i]] = y
    <3>1. i # 0 => s[i] \in K /\ s[i].revision \in Nat
      BY <1>4, <2>3
    <3>2. i # 0 => Mem!Larger(s[i].revision + 1, 0) = s[i].revision + 1
      BY <3>1 DEF Mem!Larger
    <3> QED
      BY <1>0, <1>1, <2>4, <3>1, <3>2
  <2>7. CASE i = 0
    <3>1. Mem!UpsertIntegrationConnection(d, user, provider, secret, 0) = MemPush(d, "integrations", x)
      BY <2>1, <2>5, <2>7 DEF MemPush, Set
    <3>2. Agree(MemPush(d, "integrations", x), PgInsert(t, "integration_connections", x))
      BY <1>7, <1>10, <2>3, <2>7, PushAgrees DEF Paired
    <3> QED
      BY <1>2, <2>3, <2>7, <3>1, <3>2
  <2>8. CASE i # 0
    <3>1. Mem!UpsertIntegrationConnection(d, user, provider, secret, 0) = MemChange(d, "integrations", K, N)
      <4>1. [d EXCEPT !["integrations"][i] = y] = Set(d, "integrations", Put(s, i, y))
        BY ONLY <2>1 DEF Set, Put
      <4> QED
        BY <2>1, <2>3, <2>5, <2>6, <2>8, <4>1 DEF MemChange
    <3>2. Agree(MemChange(d, "integrations", K, N), PgUpdate(t, "integration_connections", K, N))
      BY <1>7, <1>10, <2>3, KeyedAgrees DEF Paired
    <3> QED
      BY <1>2, <2>3, <2>8, <3>1, <3>2
  <2> QED
    BY <2>7, <2>8
<1> QED
  BY <1>3, <1>8, <1>9, <1>10

\* What UpsertAgentIntegration writes.
UpsertedSwitch(t, agent, provider, enabled) ==
  LET K == OfSwitch(t.agent_integrations, agent, provider)
  IN  IF K = {} THEN PgInsert(t, "agent_integrations", [agent |-> agent, provider |-> provider,
                                enabled |-> enabled, revision |-> 1])
      ELSE PgUpdate(t, "agent_integrations", K, [r \in K |-> [r EXCEPT !.enabled = enabled, !.revision = @ + 1]])

\* UpsertAgentIntegration.
LEMMA UpsertAgentIntegrationCall ==
  ASSUME NEW t, NEW f \in Nat, TablesInv(t, f), NEW agent, NEW provider, NEW enabled
  PROVE  LET u == UpsertedSwitch(t, agent, provider, enabled)
         IN  /\ Step(t, u.db, f)
             /\ Pg!UpsertAgentIntegration(t, agent, provider, enabled, 0) =
                  IF \A r \in t.agents : r.id # agent THEN Pg!Fail(t, "reference") ELSE u
             /\ \A d : MemoryInv(d) /\ View(d) = t =>
                  Agree(Mem!UpsertAgentIntegration(d, agent, provider, enabled, 0), u)
<1>0. PICK K : K = OfSwitch(t.agent_integrations, agent, provider)
  OBVIOUS
<1>1. PICK N, x :
        /\ N = [r \in K |-> [r EXCEPT !.enabled = enabled, !.revision = @ + 1]]
        /\ x = [agent |-> agent, provider |-> provider, enabled |-> enabled, revision |-> 1]
  OBVIOUS
<1>2. PICK u : u = IF K = {} THEN PgInsert(t, "agent_integrations", x) ELSE PgUpdate(t, "agent_integrations", K, N)
  OBVIOUS
<1>3. u = UpsertedSwitch(t, agent, provider, enabled)
  BY <1>0, <1>1, <1>2 DEF UpsertedSwitch
<1>4. \A r \in K : r.revision \in Nat
  BY <1>0, <1>1 DEF IsSwitch, TablesInv, SwitchesInv, OfSwitch
<1>5. \A r \in K : IsSwitch(N[r]) /\ N[r].agent = agent /\ N[r].provider = provider
  <2> SUFFICES ASSUME NEW r \in K
               PROVE  IsSwitch(N[r]) /\ N[r].agent = agent /\ N[r].provider = provider
    OBVIOUS
  <2>1. r = [agent |-> r.agent, provider |-> r.provider, enabled |-> r.enabled,
             revision |-> r.revision] /\ r.agent = agent /\ r.provider = provider
    BY <1>0, <1>1 DEF IsSwitch, TablesInv, SwitchesInv, OfSwitch
  <2>2. PICK v \in Nat : v = r.revision + 1
    BY <1>4
  <2>3. N[r] = [agent |-> agent, provider |-> provider, enabled |-> enabled, revision |-> v]
    BY <1>0, <1>1, <2>1, <2>2
  <2> QED
    BY <2>2, <2>3 DEF IsSwitch
<1>6. IsSwitch(x) /\ x.agent = agent /\ x.provider = provider
  BY <1>0, <1>1 DEF IsSwitch
<1>7. /\ K = {} => /\ x \notin t.agent_integrations
                   /\ Step(t, PgInsert(t, "agent_integrations", x).db, f)
      /\ \A r \in K : N[r] \notin t.agent_integrations \ K
      /\ Step(t, PgUpdate(t, "agent_integrations", K, N).db, f)
  BY ONLY TablesInv(t, f), f \in Nat, <1>0, <1>5, <1>6, SwitchAdded, SwitchChanged
<1>8. Step(t, u.db, f)
  BY <1>2, <1>7
<1>9. Pg!UpsertAgentIntegration(t, agent, provider, enabled, 0) =
        IF \A r \in t.agents : r.id # agent THEN Pg!Fail(t, "reference") ELSE u
  <2>1. {[r EXCEPT !.enabled = enabled, !.revision = @ + 1] : r \in K} = {N[r] : r \in K}
    BY <1>0, <1>1
  <2>2. {N[r] : r \in K} = {} <=> K = {}
    OBVIOUS
  <2>3. Pg!FirstRevision(0) = 1
    BY DEF Pg!FirstRevision
  <2> QED
    BY <1>0, <1>1, <1>2, <2>1, <2>2, <2>3
       DEF Pg!UpsertAgentIntegration, Pg!OnConflict, Pg!InsertRow, Pg!UpdateWhere, Pg!Where,
           PgInsert, PgUpdate, Set, OfSwitch
<1>10. ASSUME NEW d, MemoryInv(d), View(d) = t
       PROVE  Agree(Mem!UpsertAgentIntegration(d, agent, provider, enabled, 0), u)
  <2>1. PICK s, i : s = d.agentIntegrations /\ i = PlaceOfSwitch(s, agent, provider)
    OBVIOUS
  <2>2. Slice(s) /\ Rows(s) = t.agent_integrations /\ SwitchesInv(t.agent_integrations)
    BY <1>0, <1>10, <2>1, PairedStep DEF Paired, TablesInv
  <2>3. /\ K \subseteq t.agent_integrations /\ \A r, q \in K : r = q
        /\ i = Place(s, K) /\ (i # 0 => s[i] \in K) /\ (i = 0 <=> K = {})
    BY ONLY <1>0, <2>1, <2>2, SwitchPlace
  <2>4. PICK y : y = [s[i] EXCEPT !.enabled = enabled, !.revision = Mem!Larger(@ + 1, 0)]
    OBVIOUS
  <2>5. Mem!UpsertAgentIntegration(d, agent, provider, enabled, 0) =
          IF i # 0 THEN Mem!Ok([d EXCEPT !["agentIntegrations"][i] = y], {y})
          ELSE Mem!Ok([d EXCEPT !["agentIntegrations"] = Append(@, x)], {x})
    BY <1>0, <1>1, <2>1, <2>4
       DEF Mem!UpsertAgentIntegration, Mem!Has, Mem!Change, Mem!Push, Mem!SelectInSeq, PlaceOfSwitch
  <2>6. i # 0 => N[s[i]] = y
    <3>1. i # 0 => s[i] \in K /\ s[i].revision \in Nat
      BY <1>4, <2>3
    <3>2. i # 0 => Mem!Larger(s[i].revision + 1, 0) = s[i].revision + 1
      BY <3>1 DEF Mem!Larger
    <3> QED
      BY <1>0, <1>1, <2>4, <3>1, <3>2
  <2>7. CASE i = 0
    <3>1. Mem!UpsertAgentIntegration(d, agent, provider, enabled, 0) = MemPush(d, "agentIntegrations", x)
      BY <2>1, <2>5, <2>7 DEF MemPush, Set
    <3>2. Agree(MemPush(d, "agentIntegrations", x), PgInsert(t, "agent_integrations", x))
      BY <1>7, <1>10, <2>3, <2>7, PushAgrees DEF Paired
    <3> QED
      BY <1>2, <2>3, <2>7, <3>1, <3>2
  <2>8. CASE i # 0
    <3>1. Mem!UpsertAgentIntegration(d, agent, provider, enabled, 0) = MemChange(d, "agentIntegrations", K, N)
      <4>1. [d EXCEPT !["agentIntegrations"][i] = y] = Set(d, "agentIntegrations", Put(s, i, y))
        BY ONLY <2>1 DEF Set, Put
      <4> QED
        BY <2>1, <2>3, <2>5, <2>6, <2>8, <4>1 DEF MemChange
    <3>2. Agree(MemChange(d, "agentIntegrations", K, N), PgUpdate(t, "agent_integrations", K, N))
      BY <1>7, <1>10, <2>3, KeyedAgrees DEF Paired
    <3> QED
      BY <1>2, <2>3, <2>8, <3>1, <3>2
  <2> QED
    BY <2>7, <2>8
<1> QED
  BY <1>3, <1>8, <1>9, <1>10
-----------------------------------------------------------------------------
(* Deletes that clear switches *)

\* The other tables when one is replaced.
LEMMA OtherFields ==
  ASSUME NEW t, IsTables(t), NEW X, NEW n,
         n \in {"agents", "integration_connections", "agent_integrations"}
  PROVE  /\ IsTables(Set(t, n, X)) /\ Set(t, n, X)[n] = X /\ Set(t, n, t[n]) = t
         /\ Set(t, n, X).users = t.users /\ Set(t, n, X).user_identities = t.user_identities
         /\ n # "agents" => Set(t, n, X).agents = t.agents
         /\ n # "integration_connections" =>
              Set(t, n, X).integration_connections = t.integration_connections
         /\ n # "agent_integrations" => Set(t, n, X).agent_integrations = t.agent_integrations
<1>1. PICK u, a, l, g, c, s, m, i, k : t = Tables(u, a, l, g, c, s, m, i, k)
  BY DEF IsTables
<1>2. /\ t.users = u /\ t.agents = a /\ t.integration_connections = c
      /\ t.agent_integrations = s /\ t.user_identities = i
  BY <1>1, TheTables
<1>3. CASE n = "agents"
  <2>1. PICK v : v = Tables(u, X, l, g, c, s, m, i, k)
    OBVIOUS
  <2>2. Set(t, n, X) = v /\ Set(t, n, t[n]) = t
    <3>1. t[n] = a
      BY <1>2, <1>3
    <3> QED
      BY <1>1, <1>3, <2>1, <3>1, SetTable
  <2> QED
    BY <1>2, <1>3, <2>1, <2>2, TheTables
<1>4. CASE n = "integration_connections"
  <2>1. PICK v : v = Tables(u, a, l, g, X, s, m, i, k)
    OBVIOUS
  <2>2. Set(t, n, X) = v /\ Set(t, n, t[n]) = t
    <3>1. t[n] = c
      BY <1>2, <1>4
    <3> QED
      BY <1>1, <1>4, <2>1, <3>1, SetTable
  <2> QED
    BY <1>2, <1>4, <2>1, <2>2, TheTables
<1>5. CASE n = "agent_integrations"
  <2>1. PICK v : v = Tables(u, a, l, g, c, X, m, i, k)
    OBVIOUS
  <2>2. Set(t, n, X) = v /\ Set(t, n, t[n]) = t
    <3>1. t[n] = s
      BY <1>2, <1>5
    <3> QED
      BY <1>1, <1>5, <2>1, <3>1, SetTable
  <2> QED
    BY <1>2, <1>5, <2>1, <2>2, TheTables
<1> QED
  BY <1>3, <1>4, <1>5

\* The other slices when one is replaced.
LEMMA OtherSlices ==
  ASSUME NEW d, IsMemory(d), NEW X, NEW n, n \in {"agents", "integrations"}
  PROVE  Set(d, n, X).agentIntegrations = d.agentIntegrations
  BY DEF IsMemory, Memory, Set

\* Rows are deleted from two tables.
LEMMA TwoDeletes ==
  ASSUME NEW t, NEW f \in Nat, TablesInv(t, f), NEW S,
         NEW n, n \in {"agents", "integration_connections"}, NEW K
  PROVE  LET u == Set(t, "agent_integrations", t.agent_integrations \ S)
         IN  Step(t, u, f) /\ Step(t, Set(u, n, t[n] \ K), f)
<1>1. PICK X, Y : X = t.agent_integrations \ S /\ Y = t[n] \ K
  OBVIOUS
<1>2. PICK u : u = Set(t, "agent_integrations", X)
  OBVIOUS
<1>3. SwitchesInv(X)
  BY <1>1 DEF TablesInv, SwitchesInv
<1>4. Step(t, u, f)
  BY <1>2, <1>3, OtherTable
<1>5. /\ IsTables(u) /\ u.users = t.users /\ u.user_identities = t.user_identities
      /\ u[n] = t[n]
  BY <1>2, OtherFields DEF TablesInv
<1>6. Step(u, Set(u, n, Y), f)
  <2>1. TablesInv(u, f)
    BY <1>4 DEF Step
  <2>2. CASE n = "agents"
    <3>1. AgentsInv(Y, f)
      BY <1>1, <2>2 DEF TablesInv, AgentsInv, Numbered, ById
    <3> QED
      BY <2>1, <2>2, <3>1, OtherTable
  <2>3. CASE n = "integration_connections"
    <3>1. ConnectionsInv(Y)
      BY <1>1, <2>3 DEF TablesInv, ConnectionsInv
    <3> QED
      BY <2>1, <2>3, <3>1, OtherTable
  <2> QED
    BY <2>2, <2>3
<1>7. PICK v : v = Set(u, n, Y)
  OBVIOUS
<1>8. v.users = t.users /\ v.user_identities = t.user_identities
  BY <1>5, <1>7, OtherFields
<1>9. Step(t, v, f)
  <2>1. TablesInv(v, f)
    BY <1>6, <1>7 DEF Step
  <2>2. StayPut(t, v)
    <3>1. StayPut(t, t)
      BY SameTables DEF Step
    <3> QED
      BY <1>8, <3>1 DEF StayPut
  <2> QED
    BY <2>1, <2>2 DEF Step
<1> QED
  BY <1>1, <1>2, <1>4, <1>7, <1>9

\* A row is cut out of a slice.
LEMMA CutStep ==
  ASSUME NEW d, MemoryInv(d), NEW t, View(d) = t, NEW n, NEW p, Paired(n, p),
         NEW K, K \subseteq t[p], \A r, q \in K : r = q, K # {}
  PROVE  /\ MemoryInv(Set(d, n, Mem!RemoveAt(d[n], Place(d[n], K))))
         /\ View(Set(d, n, Mem!RemoveAt(d[n], Place(d[n], K)))) = Set(t, p, t[p] \ K)
<1>1. PICK s, i : s = d[n] /\ i = Place(s, K)
  OBVIOUS
<1>2. Slice(s) /\ Rows(s) = t[p]
  BY <1>1, PairedStep
<1>3. K = {s[i]} /\ i \in DOMAIN s
  BY <1>1, <1>2, PlaceOf
<1>4. PICK y : y = Mem!RemoveAt(s, i)
  OBVIOUS
<1>5. Slice(y) /\ Rows(y) = Rows(s) \ {s[i]}
  BY <1>2, <1>3, <1>4, CutSlice
<1>6. MemoryInv(Set(d, n, y)) /\ View(Set(d, n, y)) = Set(View(d), p, Rows(y))
  <2>1. Slice(y)
    BY <1>5
  <2> QED
    BY ONLY MemoryInv(d), Paired(n, p), <2>1, PairedStep
<1> QED
  BY <1>1, <1>2, <1>3, <1>4, <1>5, <1>6

\* Switches are filtered out.
LEMMA FilterStep ==
  ASSUME NEW x, MemoryInv(x), NEW S
  PROVE  /\ MemoryInv(Set(x, "agentIntegrations", Mem!Remaining(x.agentIntegrations, S)))
         /\ View(Set(x, "agentIntegrations", Mem!Remaining(x.agentIntegrations, S))) =
              Set(View(x), "agent_integrations", View(x).agent_integrations \ S)
<1>1. PICK s, z : s = x.agentIntegrations /\ z = Mem!Remaining(s, S)
  OBVIOUS
<1>2. Paired("agentIntegrations", "agent_integrations")
  BY DEF Paired
<1>3. Slice(s) /\ Rows(s) = View(x).agent_integrations
  BY <1>1, <1>2, PairedStep
<1>4. Slice(z) /\ Rows(z) = View(x).agent_integrations \ S
  BY <1>1, <1>3, KeepSlice
<1>5. /\ MemoryInv(Set(x, "agentIntegrations", z))
      /\ View(Set(x, "agentIntegrations", z)) = Set(View(x), "agent_integrations", Rows(z))
  <2>1. Slice(z)
    BY <1>4
  <2> QED
    BY ONLY MemoryInv(x), <1>2, <2>1, PairedStep
<1> QED
  BY <1>1, <1>4, <1>5

\* The order of two replacements is of no importance.
LEMMA SetSwap ==
  ASSUME NEW t, IsTables(t), NEW p, p \in {"agents", "integration_connections"}, NEW X, NEW Y
  PROVE  Set(Set(t, p, Y), "agent_integrations", X) = Set(Set(t, "agent_integrations", X), p, Y)
  BY DEF IsTables, Tables, Set

\* The switches are replaced in the data of a reply.
LEMMA ClearedReply ==
  ASSUME NEW w, NEW z
  PROVE  [Mem!Ok(w, {}) EXCEPT !.db.agentIntegrations = z] =
           Mem!Ok(Set(w, "agentIntegrations", z), {})
<1>1. PICK e, r : e = "" /\ r = {}
  OBVIOUS
<1>2. [[err |-> e, rows |-> r, db |-> w] EXCEPT !.db.agentIntegrations = z] =
        [err |-> e, rows |-> r, db |-> [w EXCEPT !.agentIntegrations = z]]
  OBVIOUS
<1> QED
  BY ONLY <1>1, <1>2 DEF Set, Mem!Ok

\* The rows of a table that a statement deletes, one way or the other.
LEMMA DeletedRows ==
  ASSUME NEW t, IsTables(t), NEW n,
         n \in {"agents", "integration_connections", "agent_integrations"}, NEW K
  PROVE  PgDelete(t, n, K).db = Set(t, n, t[n] \ K)
<1>1. K = {} => t[n] \ K = t[n]
  OBVIOUS
<1>2. Set(t, n, t[n]) = t
  BY OtherFields
<1>3. PICK X : X = Set(t, n, t[n] \ K)
  OBVIOUS
<1>4. PgDelete(t, n, K).db = IF K = {} THEN t ELSE X
  BY ONLY <1>3, DeleteEffect
<1> QED
  BY ONLY <1>1, <1>2, <1>3, <1>4

\* The switches of an agent.
SwitchesOfAgent(T, id) == {r \in T : r.agent = id}

\* DeleteAgent's two statements.
LEMMA PgDeleteAgent ==
  ASSUME NEW t, NEW f \in Nat, TablesInv(t, f), NEW id,
         NEW K, K = OfId(t.agents, id),
         NEW S, S = SwitchesOfAgent(t.agent_integrations, id),
         NEW u, u = Set(t, "agent_integrations", t.agent_integrations \ S)
  PROVE  Pg!DeleteAgent(t, id) = IF K = {} THEN Pg!Fail(u, "notfound")
                                 ELSE Pg!Ok(Set(u, "agents", t.agents \ K), {})
<1>1. IsTables(t)
  BY DEF TablesInv
<1>2. Pg!DeleteAgentSwitches(t, id) = Pg!Ok(u, {})
  <2>1. PgDelete(t, "agent_integrations", S).db = u
    BY <1>1, DeletedRows
  <2>2. Pg!DeleteAgentSwitches(t, id) = Pg!Ok(PgDelete(t, "agent_integrations", S).db, {})
    BY DEF Pg!DeleteAgentSwitches, Pg!DeleteWhere, Pg!Where, PgDelete, SwitchesOfAgent, Set
  <2> QED
    BY <2>1, <2>2
<1>3. /\ IsTables(u) /\ u.agents = t.agents
      /\ u.agent_integrations = t.agent_integrations \ S
  BY <1>1, OtherFields
<1>4. PICK v : v = Set(u, "agents", t.agents \ K)
  OBVIOUS
<1>5. IsTables(v) /\ v.agent_integrations = t.agent_integrations \ S
  <2>1. PICK Y : Y = t.agents \ K
    OBVIOUS
  <2> QED
    BY ONLY <1>3, <1>4, <2>1, OtherFields
<1>6. Pg!DeleteAgentSwitches(v, id) = Pg!Ok(v, {})
  <2>1. SwitchesOfAgent(v.agent_integrations, id) = {}
    BY <1>5 DEF SwitchesOfAgent
  <2>2. PgDelete(v, "agent_integrations", {}) = Pg!Fail(v, "notfound")
    BY DEF PgDelete
  <2>3. Pg!DeleteAgentSwitches(v, id) = Pg!Ok(Pg!Fail(v, "notfound").db, {})
    BY <2>1, <2>2
       DEF Pg!DeleteAgentSwitches, Pg!DeleteWhere, Pg!Where, SwitchesOfAgent
  <2> QED
    BY <2>3, Replies
<1>7. Pg!DeleteWhere(u, "agents", LAMBDA a : a.id = id) =
        IF K = {} THEN Pg!Fail(u, "notfound") ELSE Pg!Ok(v, {})
  BY <1>3, <1>4 DEF Pg!DeleteWhere, Pg!Where, OfId, Set
<1>8. Pg!DeleteAgentRow(u, id) = IF K = {} THEN Pg!Fail(u, "notfound") ELSE Pg!Ok(v, {})
  <2>1. /\ Pg!Fail(u, "notfound").err = "notfound" /\ Pg!Ok(v, {}).err = ""
        /\ Pg!Ok(v, {}).db = v
    BY DEF Pg!Ok, Pg!Fail
  <2>2. Pg!DeleteAgentSwitches(v, id).db = v
    BY ONLY <1>6, <2>1
  <2>3. CASE K = {}
    <3>1. Pg!DeleteWhere(u, "agents", LAMBDA a : a.id = id) = Pg!Fail(u, "notfound")
      BY <1>7, <2>3
    <3>2. "notfound" # ""
      OBVIOUS
    <3> QED
      BY <2>1, <2>3, <3>1, <3>2 DEF Pg!DeleteAgentRow
  <2>4. CASE K # {}
    <3>1. Pg!DeleteWhere(u, "agents", LAMBDA a : a.id = id) = Pg!Ok(v, {})
      BY <1>7, <2>4
    <3> QED
      BY <2>1, <2>2, <2>4, <3>1 DEF Pg!DeleteAgentRow
  <2> QED
    BY <2>3, <2>4
<1>9. Pg!DeleteAgent(t, id) = Pg!DeleteAgentRow(u, id)
  <2>1. Pg!DeleteAgentSwitches(t, id).db = u
    <3>1. Pg!Ok(u, {}).db = u
      BY ONLY TRUE DEF Pg!Ok
    <3> QED
      BY ONLY <1>2, <3>1
  <2> QED
    BY ONLY <2>1 DEF Pg!DeleteAgent
<1> QED
  BY <1>4, <1>8, <1>9

\* DeleteAgent.
LEMMA DeleteAgentCall ==
  ASSUME NEW t, NEW f \in Nat, TablesInv(t, f), NEW id
  PROVE  /\ Step(t, Pg!DeleteAgent(t, id).db, f)
         /\ \A d : MemoryInv(d) /\ View(d) = t =>
              /\ MemoryInv(Mem!DeleteAgent(d, id).db)
              /\ Step(t, View(Mem!DeleteAgent(d, id).db), f)
              /\ OfId(t.agents, id) # {} \/ SwitchesOfAgent(t.agent_integrations, id) = {} =>
                   Agree(Mem!DeleteAgent(d, id), Pg!DeleteAgent(t, id))
<1>1. PICK K : K = OfId(t.agents, id)
  OBVIOUS
<1>2. PICK S : S = SwitchesOfAgent(t.agent_integrations, id)
  OBVIOUS
<1>3. PICK u, v : /\ u = Set(t, "agent_integrations", t.agent_integrations \ S)
                  /\ v = Set(u, "agents", t.agents \ K)
  OBVIOUS
<1>4. Pg!DeleteAgent(t, id) = IF K = {} THEN Pg!Fail(u, "notfound") ELSE Pg!Ok(v, {})
  BY <1>1, <1>2, <1>3, PgDeleteAgent
<1>5. Step(t, u, f) /\ Step(t, v, f)
  BY <1>3, TwoDeletes
<1>6. Step(t, Pg!DeleteAgent(t, id).db, f)
  <2>1. Pg!Fail(u, "notfound").db = u /\ Pg!Ok(v, {}).db = v
    BY DEF Pg!Ok, Pg!Fail
  <2> QED
    BY <1>4, <1>5, <2>1
<1>7. ASSUME NEW d, MemoryInv(d), View(d) = t
      PROVE  /\ MemoryInv(Mem!DeleteAgent(d, id).db)
             /\ Step(t, View(Mem!DeleteAgent(d, id).db), f)
             /\ K # {} \/ S = {} => Agree(Mem!DeleteAgent(d, id), Pg!DeleteAgent(t, id))
  <2>1. PICK s, i : s = d.agents /\ i = PlaceOfId(s, id)
    OBVIOUS
  <2>2. Slice(s) /\ Rows(s) = t.agents /\ ById(t.agents)
    BY <1>7, <2>1, PairedStep DEF Paired, TablesInv, AgentsInv
  <2>3. /\ K \subseteq t.agents /\ \A r, q \in K : r = q
        /\ i = Place(s, K) /\ (i = 0 <=> K = {})
    <3>1. /\ K \subseteq t.agents /\ \A r, q \in K : r = q
          /\ i = Place(s, K)
      BY ONLY <1>1, <2>1, <2>2, IdPlace
    <3> QED
      BY ONLY <2>2, <3>1, PlaceOf
  <2>4. Rows(d.agentIntegrations) = t.agent_integrations
    BY <1>7, PairedStep DEF Paired
  <2>5. PICK e, w : /\ w = Set(d, "agents", Mem!RemoveAt(s, i))
                    /\ e = Set(w, "agentIntegrations", Mem!Remaining(d.agentIntegrations, S))
    OBVIOUS
  <2>6. Mem!DeleteAgent(d, id) = IF i = 0 THEN Mem!Fail(d, "notfound") ELSE Mem!Ok(e, {})
    <3>1. Mem!All(d, "agentIntegrations", LAMBDA r : r.agent = id).rows = S
      BY <1>2, <2>4 DEF Mem!All, Mem!Ok, Mem!ToSet, Rows, SwitchesOfAgent
    <3>2. Mem!Cut(d, "agents", LAMBDA a : a.id = id) =
            IF i = 0 THEN Mem!Fail(d, "notfound") ELSE Mem!Ok(w, {})
      BY <2>1, <2>5 DEF Mem!Cut, Mem!SelectInSeq, PlaceOfId, Set
    <3>3. Mem!Fail(d, "notfound").err # "" /\ Mem!Ok(w, {}).err = ""
      BY DEF Mem!Fail, Mem!Ok
    <3>4. CASE i = 0
      <4>1. Mem!Cut(d, "agents", LAMBDA a : a.id = id) = Mem!Fail(d, "notfound")
        BY <3>2, <3>4
      <4> QED
        BY <3>3, <3>4, <4>1 DEF Mem!DeleteAgent
    <3>5. CASE i # 0
      <4>1. Mem!Cut(d, "agents", LAMBDA a : a.id = id) = Mem!Ok(w, {})
        BY <3>2, <3>5
      <4>2. PICK z : z = Mem!Remaining(d.agentIntegrations, S)
        OBVIOUS
      <4>3. Mem!DeleteAgent(d, id) = [Mem!Ok(w, {}) EXCEPT !.db.agentIntegrations = z]
        BY <3>1, <3>3, <4>1, <4>2 DEF Mem!DeleteAgent
      <4>4. [Mem!Ok(w, {}) EXCEPT !.db.agentIntegrations = z] =
              Mem!Ok(Set(w, "agentIntegrations", z), {})
        BY ClearedReply
      <4> QED
        BY <2>5, <3>5, <4>2, <4>3, <4>4
    <3> QED
      BY <3>4, <3>5
  <2>7. CASE i = 0
    <3>1. Mem!DeleteAgent(d, id) = Mem!Fail(d, "notfound")
      BY <2>6, <2>7
    <3>2. Mem!DeleteAgent(d, id).db = d
      BY <3>1 DEF Mem!Fail
    <3>3. S = {} => Pg!DeleteAgent(t, id) = Pg!Fail(t, "notfound")
      <4>1. S = {} => u = t
        BY <1>3, OtherFields DEF TablesInv
      <4> QED
        BY <1>4, <2>3, <2>7, <4>1
    <3> QED
      BY <1>7, <2>3, <2>7, <3>1, <3>2, <3>3, Agreement, SameTables
  <2>8. CASE i # 0
    <3>1. Mem!DeleteAgent(d, id) = Mem!Ok(e, {}) /\ Pg!DeleteAgent(t, id) = Pg!Ok(v, {})
      BY <1>4, <2>3, <2>6, <2>8
    <3>2. MemoryInv(e) /\ View(e) = v
      <4>1. Paired("agents", "agents")
        BY DEF Paired
      <4>2. K \subseteq t["agents"] /\ (\A r, q \in K : r = q) /\ K # {}
        BY <2>3, <2>8
      <4>3. MemoryInv(w) /\ View(w) = Set(t, "agents", t.agents \ K)
        BY ONLY <1>7, <2>1, <2>3, <2>5, <4>1, <4>2, CutStep
      <4>4. IsTables(t) /\ IsMemory(d)
        BY <1>7 DEF TablesInv, MemoryInv
      <4>5. w.agentIntegrations = d.agentIntegrations
        BY ONLY <2>5, <4>4, OtherSlices
      <4>6. View(w).agent_integrations = t.agent_integrations
        <5>1. PICK Y : Y = t.agents \ K
          OBVIOUS
        <5> QED
          BY ONLY <4>3, <4>4, <5>1, OtherFields
      <4>7. /\ MemoryInv(e)
            /\ View(e) = Set(Set(t, "agents", t.agents \ K), "agent_integrations",
                             t.agent_integrations \ S)
        BY ONLY <2>5, <4>3, <4>5, <4>6, FilterStep
      <4> QED
        BY ONLY <1>3, <4>4, <4>7, SetSwap
    <3>3. Mem!Ok(e, {}).db = e
      BY DEF Mem!Ok
    <3> QED
      BY <1>5, <3>1, <3>2, <3>3, Agreement
  <2> QED
    BY <2>7, <2>8
<1> QED
  BY <1>1, <1>2, <1>6, <1>7

\* The switches of a provider, and those of them that are a user's.
SwitchesOfProvider(T, provider) == {r \in T : r.provider = provider}
SwitchesOfOwner(t, user, provider) ==
  {r \in t.agent_integrations :
     r.provider = provider /\ \E a \in t.agents : a.id = r.agent /\ a.owner = user}

\* DeleteIntegrationConnection's two statements.
LEMMA PgDisconnect ==
  ASSUME NEW t, NEW f \in Nat, TablesInv(t, f), NEW user, NEW provider,
         NEW K, K = OfConnection(t.integration_connections, user, provider),
         NEW S, S = SwitchesOfOwner(t, user, provider),
         NEW u, u = Set(t, "agent_integrations", t.agent_integrations \ S)
  PROVE  Pg!DeleteIntegrationConnection(t, user, provider) =
           Pg!Ok(Set(u, "integration_connections", t.integration_connections \ K), {})
<1>1. IsTables(t)
  BY DEF TablesInv
<1>2. PICK X, Y : X = t.agent_integrations \ S /\ Y = t.integration_connections \ K
  OBVIOUS
<1>3. PICK v : v = Set(t, "integration_connections", Y)
  OBVIOUS
<1>4. Pg!DeleteConnectionRow(t, user, provider) = Pg!Ok(v, {})
  <2>1. PgDelete(t, "integration_connections", K).db = v
    BY <1>1, <1>2, <1>3, DeletedRows
  <2>2. Pg!DeleteConnectionRow(t, user, provider) =
          Pg!Ok(PgDelete(t, "integration_connections", K).db, {})
    BY DEF Pg!DeleteConnectionRow, Pg!DeleteWhere, Pg!Where, PgDelete, OfConnection, Set
  <2> QED
    BY <2>1, <2>2
<1>5. /\ IsTables(v) /\ v.agents = t.agents
      /\ v.agent_integrations = t.agent_integrations
  BY <1>1, <1>3, OtherFields
<1>6. Pg!DeleteOwnersSwitches(v, user, provider) =
        Pg!Ok(Set(v, "agent_integrations", X), {})
  <2>1. SwitchesOfOwner(v, user, provider) = S
    BY <1>5 DEF SwitchesOfOwner
  <2>2. PgDelete(v, "agent_integrations", S).db = Set(v, "agent_integrations", X)
    BY <1>2, <1>5, DeletedRows
  <2>3. Pg!DeleteOwnersSwitches(v, user, provider) =
          Pg!Ok(PgDelete(v, "agent_integrations", SwitchesOfOwner(v, user, provider)).db, {})
    BY DEF Pg!DeleteOwnersSwitches, Pg!DeleteWhere, Pg!Where, PgDelete, SwitchesOfOwner, Set
  <2> QED
    BY ONLY <2>1, <2>2, <2>3
<1>7. Pg!DeleteIntegrationConnection(t, user, provider) =
        Pg!DeleteOwnersSwitches(v, user, provider)
  <2>1. Pg!Ok(v, {}).db = v
    BY ONLY TRUE DEF Pg!Ok
  <2> QED
    BY ONLY <1>4, <2>1 DEF Pg!DeleteIntegrationConnection
<1>8. Set(v, "agent_integrations", X) = Set(u, "integration_connections", Y)
  BY <1>1, <1>2, <1>3, SetSwap
<1> QED
  BY ONLY <1>2, <1>6, <1>7, <1>8

\* DeleteIntegrationConnection.
LEMMA DeleteIntegrationConnectionCall ==
  ASSUME NEW t, NEW f \in Nat, TablesInv(t, f), NEW user, NEW provider
  PROVE  /\ Step(t, Pg!DeleteIntegrationConnection(t, user, provider).db, f)
         /\ \A d : MemoryInv(d) /\ View(d) = t =>
              /\ MemoryInv(Mem!DeleteIntegrationConnection(d, user, provider).db)
              /\ Step(t, View(Mem!DeleteIntegrationConnection(d, user, provider).db), f)
              /\ /\ OfConnection(t.integration_connections, user, provider) # {}
                 /\ SwitchesOfProvider(t.agent_integrations, provider) =
                      SwitchesOfOwner(t, user, provider)
                 => Agree(Mem!DeleteIntegrationConnection(d, user, provider),
                          Pg!DeleteIntegrationConnection(t, user, provider))
<1>1. PICK K : K = OfConnection(t.integration_connections, user, provider)
  OBVIOUS
<1>2. PICK S, R : /\ S = SwitchesOfOwner(t, user, provider)
                  /\ R = SwitchesOfProvider(t.agent_integrations, provider)
  OBVIOUS
<1>3. PICK u, v : /\ u = Set(t, "agent_integrations", t.agent_integrations \ S)
                  /\ v = Set(u, "integration_connections", t.integration_connections \ K)
  OBVIOUS
<1>4. Pg!DeleteIntegrationConnection(t, user, provider) = Pg!Ok(v, {})
  BY <1>1, <1>2, <1>3, PgDisconnect
<1>5. "integration_connections" \in {"agents", "integration_connections"}
  OBVIOUS
<1>6. Step(t, Pg!DeleteIntegrationConnection(t, user, provider).db, f)
  <2>1. Pg!Ok(v, {}).db = v
    BY DEF Pg!Ok
  <2>2. Step(t, v, f)
    BY <1>3, <1>5, TwoDeletes
  <2> QED
    BY <1>4, <2>1, <2>2
<1>7. ASSUME NEW d, MemoryInv(d), View(d) = t
      PROVE  /\ MemoryInv(Mem!DeleteIntegrationConnection(d, user, provider).db)
             /\ Step(t, View(Mem!DeleteIntegrationConnection(d, user, provider).db), f)
             /\ K # {} /\ R = S =>
                  Agree(Mem!DeleteIntegrationConnection(d, user, provider),
                        Pg!DeleteIntegrationConnection(t, user, provider))
  <2>1. PICK s, i : s = d.integrations /\ i = PlaceOfConnection(s, user, provider)
    OBVIOUS
  <2>2. /\ Slice(s) /\ Rows(s) = t.integration_connections
        /\ ConnectionsInv(t.integration_connections)
    BY <1>7, <2>1, PairedStep DEF Paired, TablesInv
  <2>3. /\ K \subseteq t.integration_connections /\ \A r, q \in K : r = q
        /\ i = Place(s, K) /\ (i = 0 <=> K = {})
    BY ONLY <1>1, <2>1, <2>2, ConnectionPlace
  <2>4. Rows(d.agentIntegrations) = t.agent_integrations
    BY <1>7, PairedStep DEF Paired
  <2>5. PICK e, w : /\ w = Set(d, "integrations", Mem!RemoveAt(s, i))
                    /\ e = Set(w, "agentIntegrations", Mem!Remaining(d.agentIntegrations, R))
    OBVIOUS
  <2>6. Mem!DeleteIntegrationConnection(d, user, provider) =
          IF i = 0 THEN Mem!Fail(d, "notfound") ELSE Mem!Ok(e, {})
    <3>1. Mem!All(d, "agentIntegrations", LAMBDA r : r.provider = provider).rows = R
      BY <1>2, <2>4 DEF Mem!All, Mem!Ok, Mem!ToSet, Rows, SwitchesOfProvider
    <3>2. Mem!Cut(d, "integrations", LAMBDA c : c.user = user /\ c.provider = provider) =
            IF i = 0 THEN Mem!Fail(d, "notfound") ELSE Mem!Ok(w, {})
      BY <2>1, <2>5 DEF Mem!Cut, Mem!SelectInSeq, PlaceOfConnection, Set
    <3>3. Mem!Fail(d, "notfound").err # "" /\ Mem!Ok(w, {}).err = ""
      BY DEF Mem!Fail, Mem!Ok
    <3>4. CASE i = 0
      <4>1. Mem!Cut(d, "integrations", LAMBDA c : c.user = user /\ c.provider = provider) =
              Mem!Fail(d, "notfound")
        BY <3>2, <3>4
      <4> QED
        BY <3>3, <3>4, <4>1 DEF Mem!DeleteIntegrationConnection
    <3>5. CASE i # 0
      <4>1. Mem!Cut(d, "integrations", LAMBDA c : c.user = user /\ c.provider = provider) =
              Mem!Ok(w, {})
        BY <3>2, <3>5
      <4>2. PICK z : z = Mem!Remaining(d.agentIntegrations, R)
        OBVIOUS
      <4>3. Mem!DeleteIntegrationConnection(d, user, provider) =
              [Mem!Ok(w, {}) EXCEPT !.db.agentIntegrations = z]
        BY <3>1, <3>3, <4>1, <4>2 DEF Mem!DeleteIntegrationConnection
      <4>4. [Mem!Ok(w, {}) EXCEPT !.db.agentIntegrations = z] =
              Mem!Ok(Set(w, "agentIntegrations", z), {})
        BY ClearedReply
      <4> QED
        BY <2>5, <3>5, <4>2, <4>3, <4>4
    <3> QED
      BY <3>4, <3>5
  <2>7. CASE i = 0
    <3>1. Mem!DeleteIntegrationConnection(d, user, provider) = Mem!Fail(d, "notfound")
      BY <2>6, <2>7
    <3>2. Mem!DeleteIntegrationConnection(d, user, provider).db = d
      BY <3>1 DEF Mem!Fail
    <3> QED
      BY <1>7, <2>3, <2>7, <3>2, SameTables
  <2>8. CASE i # 0
    <3>1. Mem!DeleteIntegrationConnection(d, user, provider) = Mem!Ok(e, {})
      BY <2>6, <2>8
    <3>2. PICK x, y : /\ x = Set(t, "agent_integrations", t.agent_integrations \ R)
                      /\ y = Set(x, "integration_connections", t.integration_connections \ K)
      OBVIOUS
    <3>3. MemoryInv(e) /\ View(e) = y
      <4>1. Paired("integrations", "integration_connections")
        BY DEF Paired
      <4>2. /\ K \subseteq t["integration_connections"]
            /\ (\A r, q \in K : r = q) /\ K # {}
        BY <2>3, <2>8
      <4>3. /\ MemoryInv(w)
            /\ View(w) = Set(t, "integration_connections", t.integration_connections \ K)
        BY ONLY <1>7, <2>1, <2>3, <2>5, <4>1, <4>2, CutStep
      <4>4. IsTables(t) /\ IsMemory(d)
        BY <1>7 DEF TablesInv, MemoryInv
      <4>5. w.agentIntegrations = d.agentIntegrations
        BY ONLY <2>5, <4>4, OtherSlices
      <4>6. View(w).agent_integrations = t.agent_integrations
        <5>1. PICK Y : Y = t.integration_connections \ K
          OBVIOUS
        <5> QED
          BY ONLY <4>3, <4>4, <5>1, OtherFields
      <4>7. /\ MemoryInv(e)
            /\ View(e) = Set(Set(t, "integration_connections", t.integration_connections \ K),
                             "agent_integrations", t.agent_integrations \ R)
        BY ONLY <2>5, <4>3, <4>5, <4>6, FilterStep
      <4> QED
        BY ONLY <3>2, <4>4, <4>7, SetSwap
    <3>4. Step(t, y, f)
      BY <1>5, <3>2, TwoDeletes
    <3>5. Mem!Ok(e, {}).db = e
      BY DEF Mem!Ok
    <3>6. R = S => y = v
      BY ONLY <1>3, <3>2
    <3> QED
      BY <1>4, <3>1, <3>3, <3>4, <3>5, <3>6, Agreement
  <2> QED
    BY <2>7, <2>8
<1> QED
  BY <1>1, <1>2, <1>6, <1>7
-----------------------------------------------------------------------------
(* The gateway's settings *)

\* GetLLMGatewaySettings.
LEMMA GetLLMGatewaySettingsCall ==
  ASSUME NEW t, NEW f \in Nat, TablesInv(t, f)
  PROVE  /\ Step(t, Pg!GetLLMGatewaySettings(t).db, f)
         /\ \A d : MemoryInv(d) /\ View(d) = t =>
              Agree(Mem!GetLLMGatewaySettings(d), Pg!GetLLMGatewaySettings(t))
<1>1. PICK z : z = [enabled |-> FALSE, secret |-> None]
  OBVIOUS
<1>2. PICK R : R = IF t.gateway = {} THEN {z} ELSE t.gateway
  OBVIOUS
<1>3. Pg!GetLLMGatewaySettings(t) = Pg!Ok(t, R)
  BY <1>1, <1>2 DEF Pg!GetLLMGatewaySettings
<1>4. Pg!Ok(t, R).db = t
  BY ONLY TRUE DEF Pg!Ok
<1>5. ASSUME NEW d, MemoryInv(d), View(d) = t
      PROVE  Agree(Mem!GetLLMGatewaySettings(d), Pg!GetLLMGatewaySettings(t))
  <2>1. t.gateway = GatewayOf(d.gateway)
    BY <1>5, ViewTables DEF MemoryInv
  <2>2. R = {d.gateway}
    BY <1>1, <1>2, <2>1 DEF GatewayOf
  <2>3. Mem!GetLLMGatewaySettings(d) = Mem!Ok(d, R)
    BY <2>2 DEF Mem!GetLLMGatewaySettings
  <2> QED
    BY <1>3, <1>5, <2>3, Agreement
<1> QED
  BY <1>3, <1>4, <1>5, SameTables

\* UpsertLLMGatewaySettings.
LEMMA UpsertLLMGatewaySettingsCall ==
  ASSUME NEW t, NEW f \in Nat, TablesInv(t, f), NEW enabled, NEW secret
  PROVE  /\ Step(t, Pg!UpsertLLMGatewaySettings(t, enabled, secret).db, f)
         /\ \A d : MemoryInv(d) /\ View(d) = t =>
              /\ MemoryInv(Mem!UpsertLLMGatewaySettings(d, enabled, secret).db)
              /\ Step(t, View(Mem!UpsertLLMGatewaySettings(d, enabled, secret).db), f)
              /\ ~ ZeroGateway(enabled, secret) =>
                   Agree(Mem!UpsertLLMGatewaySettings(d, enabled, secret),
                         Pg!UpsertLLMGatewaySettings(t, enabled, secret))
<1>1. PICK row : row = [enabled |-> enabled, secret |-> secret]
  OBVIOUS
<1>2. PICK u : u = Set(t, "gateway", {row})
  OBVIOUS
<1>3. Pg!UpsertLLMGatewaySettings(t, enabled, secret) = Pg!Ok(u, {row})
  <2>1. PICK G : G = t.gateway
    OBVIOUS
  <2>2. Pg!UpsertLLMGatewaySettings(t, enabled, secret) =
          IF G = {} THEN Pg!Ok(Set(t, "gateway", G \cup {row}), {row})
          ELSE IF {row : r \in G} = {} THEN Pg!Fail(t, "notfound")
          ELSE Pg!Ok(Set(t, "gateway", (G \ G) \cup {row : r \in G}), {row : r \in G})
    <3>1. Pg!Where(t, "gateway", LAMBDA r : TRUE) = G
      BY <2>1 DEF Pg!Where
    <3> QED
      BY <1>1, <2>1, <3>1
         DEF Pg!UpsertLLMGatewaySettings, Pg!OnConflict, Pg!InsertRow, Pg!UpdateWhere, Set
  <2>3. G = {} => G \cup {row} = {row}
    OBVIOUS
  <2>4. G # {} => {row : r \in G} = {row} /\ (G \ G) \cup {row : r \in G} = {row}
    OBVIOUS
  <2> QED
    BY <1>2, <2>2, <2>3, <2>4
<1>4. Pg!Ok(u, {row}).db = u
  BY ONLY TRUE DEF Pg!Ok
<1>5. \A G : (\A g, h \in G : g = h) => Step(t, Set(t, "gateway", G), f)
  BY OtherTable DEF GatewayInv
<1>6. Step(t, u, f)
  BY <1>2, <1>5
<1>7. ASSUME NEW d, MemoryInv(d), View(d) = t
      PROVE  /\ MemoryInv(Mem!UpsertLLMGatewaySettings(d, enabled, secret).db)
             /\ Step(t, View(Mem!UpsertLLMGatewaySettings(d, enabled, secret).db), f)
             /\ ~ ZeroGateway(enabled, secret) =>
                  Agree(Mem!UpsertLLMGatewaySettings(d, enabled, secret),
                        Pg!UpsertLLMGatewaySettings(t, enabled, secret))
  <2>1. PICK e : e = Set(d, "gateway", row)
    OBVIOUS
  <2>2. Mem!UpsertLLMGatewaySettings(d, enabled, secret) = Mem!Ok(e, {row})
    BY <1>1, <2>1 DEF Mem!UpsertLLMGatewaySettings, Set
  <2>3. Mem!Ok(e, {row}).db = e
    BY ONLY TRUE DEF Mem!Ok
  <2>4. MemoryInv(e) /\ View(e) = Set(t, "gateway", GatewayOf(row))
    BY ONLY <1>7, <2>1, ViewStep
  <2>5. Step(t, View(e), f)
    BY <1>5, <2>4 DEF GatewayOf
  <2>6. ~ ZeroGateway(enabled, secret) => GatewayOf(row) = {row}
    BY <1>1 DEF ZeroGateway, GatewayOf
  <2>7. ~ ZeroGateway(enabled, secret) => View(e) = u
    BY <1>2, <2>4, <2>6
  <2> QED
    BY <1>3, <2>2, <2>3, <2>4, <2>5, <2>7, Agreement
<1> QED
  BY <1>3, <1>4, <1>6, <1>7
-----------------------------------------------------------------------------
(* Plugin manifests *)

\* A manifest is the entry of its id.
ManifestMap(pm, T) ==
  /\ pm = [p \in PluginIds |-> pm[p]]
  /\ T = {pm[p] : p \in PluginIds} \ {None}
  /\ \A p \in PluginIds : pm[p] # None => pm[p] \in Manifest /\ pm[p].id = p
  /\ \A p \in PluginIds : OfId(T, p) = IF pm[p] = None THEN {} ELSE {pm[p]}

\* The map and the table hold the same manifests.
LEMMA ManifestRows ==
  ASSUME NEW t, NEW f, TablesInv(t, f), NEW d, MemoryInv(d), View(d) = t
  PROVE  ManifestMap(d.pluginManifests, t.plugin_manifests)
<1>1. PICK pm : pm = d.pluginManifests
  OBVIOUS
<1>2. ByPluginId(pm) /\ t.plugin_manifests = ManifestsOf(pm)
  BY <1>1, ViewTables DEF MemoryInv
<1>3. pm = [p \in PluginIds |-> pm[p]] /\ \A p \in PluginIds : pm[p] # None => pm[p].id = p
  BY <1>2 DEF ByPluginId
<1>4. t.plugin_manifests = {pm[p] : p \in PluginIds} \ {None}
  BY <1>2, <1>3 DEF ManifestsOf, Rows
<1>5. \A p \in PluginIds : pm[p] # None => pm[p] \in Manifest
  BY <1>4 DEF TablesInv, ManifestsInv
<1>6. \A p \in PluginIds : OfId(t.plugin_manifests, p) = IF pm[p] = None THEN {} ELSE {pm[p]}
  <2> SUFFICES ASSUME NEW p \in PluginIds
               PROVE  OfId(t.plugin_manifests, p) = IF pm[p] = None THEN {} ELSE {pm[p]}
    OBVIOUS
  <2>1. \A r : r \in OfId(t.plugin_manifests, p) <=> r = pm[p] /\ pm[p] # None
    BY <1>3, <1>4 DEF OfId
  <2> QED
    BY <2>1
<1>7. \A p \in PluginIds : pm[p] # None => pm[p] \in Manifest /\ pm[p].id = p
  BY <1>3, <1>5
<1>8. ManifestMap(pm, t.plugin_manifests)
  BY ONLY <1>3, <1>4, <1>6, <1>7 DEF ManifestMap
<1> QED
  BY ONLY <1>1, <1>8

\* ListPluginManifests.
LEMMA ListPluginManifestsCall ==
  ASSUME NEW t, NEW f \in Nat, TablesInv(t, f), NEW enabledOnly
  PROVE  /\ Step(t, Pg!ListPluginManifests(t, enabledOnly).db, f)
         /\ \A d : MemoryInv(d) /\ View(d) = t =>
              Agree(Mem!ListPluginManifests(d, enabledOnly),
                        Pg!ListPluginManifests(t, enabledOnly))
<1>1. PICK R : R = {m \in t.plugin_manifests : enabledOnly => m.enabled}
  OBVIOUS
<1>2. Pg!ListPluginManifests(t, enabledOnly) = Pg!Ok(t, R)
  BY <1>1 DEF Pg!ListPluginManifests, Pg!Where
<1>3. Pg!Ok(t, R).db = t
  BY ONLY TRUE DEF Pg!Ok
<1>4. ASSUME NEW d, MemoryInv(d), View(d) = t
      PROVE  Agree(Mem!ListPluginManifests(d, enabledOnly),
                Pg!ListPluginManifests(t, enabledOnly))
  <2>0. PICK pm : pm = d.pluginManifests
    OBVIOUS
  <2>9. ManifestMap(pm, t.plugin_manifests)
    BY ONLY <1>4, <2>0, TablesInv(t, f), ManifestRows
  <2>1. t.plugin_manifests = {pm[p] : p \in PluginIds} \ {None}
    BY ONLY <2>9 DEF ManifestMap
  <2>2. {d.pluginManifests[p] : p \in {q \in PluginIds :
           /\ d.pluginManifests[q] # None
           /\ enabledOnly => d.pluginManifests[q].enabled}} = R
    BY ONLY <1>1, <2>0, <2>1
  <2>3. Mem!ListPluginManifests(d, enabledOnly) = Mem!Ok(d, R)
    BY <2>2 DEF Mem!ListPluginManifests
  <2> QED
    BY <1>2, <1>4, <2>3, Agreement
<1> QED
  BY <1>2, <1>3, <1>4, SameTables

\* GetPluginManifest.
LEMMA GetPluginManifestCall ==
  ASSUME NEW t, NEW f \in Nat, TablesInv(t, f), NEW id \in PluginIds
  PROVE  /\ Step(t, Pg!GetPluginManifest(t, id).db, f)
         /\ \A d : MemoryInv(d) /\ View(d) = t =>
              Agree(Mem!GetPluginManifest(d, id), Pg!GetPluginManifest(t, id))
<1>1. PICK K : K = OfId(t.plugin_manifests, id)
  OBVIOUS
<1>2. Pg!GetPluginManifest(t, id) = PgSelect(t, K)
  BY <1>1 DEF Pg!GetPluginManifest, Pg!SelectRow, Pg!Where, PgSelect, OfId
<1>3. Step(t, PgSelect(t, K).db, f)
  BY SelectEffect, SameTables
<1>4. ASSUME NEW d, MemoryInv(d), View(d) = t
      PROVE  Agree(Mem!GetPluginManifest(d, id), Pg!GetPluginManifest(t, id))
  <2>1. K = IF d.pluginManifests[id] = None THEN {} ELSE {d.pluginManifests[id]}
    <3>1. PICK pm : pm = d.pluginManifests
      OBVIOUS
    <3>9. ManifestMap(pm, t.plugin_manifests)
      BY ONLY <1>4, <3>1, TablesInv(t, f), ManifestRows
    <3>2. OfId(t.plugin_manifests, id) = IF pm[id] = None THEN {} ELSE {pm[id]}
      BY ONLY <3>9, id \in PluginIds DEF ManifestMap
    <3> QED
      BY ONLY <1>1, <3>1, <3>2
  <2>2. Mem!GetPluginManifest(d, id) =
          IF K = {} THEN Mem!Fail(d, "notfound") ELSE Mem!Ok(d, K)
    BY <2>1 DEF Mem!GetPluginManifest
  <2> QED
    BY <1>2, <1>4, <2>2, Agreement DEF PgSelect
<1> QED
  BY <1>2, <1>3, <1>4

\* A row of the table is written or removed.
LEMMA ManifestStep ==
  ASSUME NEW t, NEW f \in Nat, TablesInv(t, f), NEW id \in PluginIds,
         NEW x, x = None \/ (x \in Manifest /\ x.id = id)
  PROVE  Step(t, Set(t, "plugin_manifests", (t.plugin_manifests \ OfId(t.plugin_manifests, id))
                                              \cup ({x} \ {None})), f)
<1>1. PICK M : M = (t.plugin_manifests \ OfId(t.plugin_manifests, id)) \cup ({x} \ {None})
  OBVIOUS
<1>2. ManifestsInv(t.plugin_manifests)
  BY DEF TablesInv
<1>3. \A r \in t.plugin_manifests \ OfId(t.plugin_manifests, id) : r.id # id
  BY DEF OfId
<1>4. ManifestsInv(M)
  BY <1>1, <1>2, <1>3 DEF ManifestsInv, ById
<1> QED
  BY <1>1, <1>4, OtherTable

\* A row of the map is written or removed.
LEMMA ManifestWritten ==
  ASSUME NEW t, NEW f \in Nat, TablesInv(t, f), NEW id \in PluginIds,
         NEW d, MemoryInv(d), View(d) = t,
         NEW x, x = None \/ (x \in Manifest /\ x.id = id),
         NEW e, e = Set(d, "pluginManifests", Put(d.pluginManifests, id, x)),
         NEW u, u = Set(t, "plugin_manifests", (t.plugin_manifests \ OfId(t.plugin_manifests, id))
                                                 \cup ({x} \ {None}))
  PROVE  MemoryInv(e) /\ View(e) = u
<1>1. PICK pm, qm : pm = d.pluginManifests /\ qm = Put(pm, id, x)
  OBVIOUS
<1>2. /\ pm = [p \in PluginIds |-> pm[p]]
      /\ t.plugin_manifests = {pm[p] : p \in PluginIds} \ {None}
      /\ \A p \in PluginIds : pm[p] # None => pm[p] \in Manifest /\ pm[p].id = p
      /\ OfId(t.plugin_manifests, id) = IF pm[id] = None THEN {} ELSE {pm[id]}
  <2>1. ManifestMap(pm, t.plugin_manifests)
    BY ONLY <1>1, TablesInv(t, f), MemoryInv(d), View(d) = t, ManifestRows
  <2> QED
    BY ONLY <2>1, id \in PluginIds DEF ManifestMap
<1>3. qm = [p \in PluginIds |-> IF p = id THEN x ELSE pm[p]]
  BY <1>1, <1>2 DEF Put
<1>4. ByPluginId(qm)
  BY <1>2, <1>3 DEF ByPluginId
<1>5. PICK M : M = (t.plugin_manifests \ OfId(t.plugin_manifests, id)) \cup ({x} \ {None})
  OBVIOUS
<1>6. ManifestsOf(qm) = M
  <2>1. ManifestsOf(qm) = {qm[p] : p \in PluginIds} \ {None}
    BY <1>3 DEF ManifestsOf, Rows
  <2>2. \A r : r \in ManifestsOf(qm) <=>
          r # None /\ (r = x \/ \E p \in PluginIds : p # id /\ r = pm[p])
    BY <1>3, <2>1
  <2>3. \A r : r \in M <=>
          r # None /\ (r = x \/ \E p \in PluginIds : p # id /\ r = pm[p])
    <3>1. \A r : r \in t.plugin_manifests \ OfId(t.plugin_manifests, id) <=>
            r # None /\ \E p \in PluginIds : p # id /\ r = pm[p]
      BY <1>2
    <3> QED
      BY <1>5, <3>1
  <2> QED
    BY <2>2, <2>3
<1>7. MemoryInv(e) /\ View(e) = Set(t, "plugin_manifests", ManifestsOf(qm))
  BY ONLY <1>1, <1>4, MemoryInv(d), View(d) = t,
          e = Set(d, "pluginManifests", Put(d.pluginManifests, id, x)), ViewStep
<1>8. View(e) = u
  BY <1>5, <1>6, <1>7
<1> QED
  BY <1>7, <1>8

\* UpsertPluginManifest.
LEMMA UpsertPluginManifestCall ==
  ASSUME NEW t, NEW f \in Nat, TablesInv(t, f), NEW id \in PluginIds, NEW yaml, yaml \in Yamls,
         NEW enabled, enabled \in BOOLEAN
  PROVE  /\ Step(t, Pg!UpsertPluginManifest(t, id, yaml, enabled).db, f)
         /\ \A d : MemoryInv(d) /\ View(d) = t =>
              Agree(Mem!UpsertPluginManifest(d, id, yaml, enabled),
                    Pg!UpsertPluginManifest(t, id, yaml, enabled))
<1>1. PICK K : K = OfId(t.plugin_manifests, id)
  OBVIOUS
<1>2. K \subseteq Manifest /\ (\A r, q \in K : r = q) /\ \A r \in K : r.id = id
  BY <1>1 DEF TablesInv, ManifestsInv, ById, OfId
<1>3. PICK v \in Nat : IF K = {} THEN v = 1 ELSE \A r \in K : v = r.revision + 1
  BY <1>2 DEF Manifest
<1>4. PICK x : x = [id |-> id, yaml |-> yaml, enabled |-> enabled, revision |-> v]
  OBVIOUS
<1>5. x \in Manifest /\ x.id = id /\ x # None
  BY <1>4, StoreAssumption DEF Manifest
<1>6. PICK u : u = Set(t, "plugin_manifests",
                       (t.plugin_manifests \ OfId(t.plugin_manifests, id)) \cup ({x} \ {None}))
  OBVIOUS
<1>7. Step(t, u, f)
  BY ONLY <1>5, <1>6, TablesInv(t, f), f \in Nat, id \in PluginIds, ManifestStep
<1>8. Pg!UpsertPluginManifest(t, id, yaml, enabled) = Pg!Ok(u, {x})
  <2>1. PICK T : T = t.plugin_manifests
    OBVIOUS
  <2>2. PICK D : D = {[r EXCEPT !.yaml = yaml, !.enabled = enabled, !.revision = @ + 1] : r \in K}
    OBVIOUS
  <2>3. PICK y : y = [id |-> id, yaml |-> yaml, enabled |-> enabled, revision |-> 1]
    OBVIOUS
  <2>4. Pg!UpsertPluginManifest(t, id, yaml, enabled) =
          IF K = {} THEN Pg!Ok(Set(t, "plugin_manifests", T \cup {y}), {y})
          ELSE IF D = {} THEN Pg!Fail(t, "notfound")
          ELSE Pg!Ok(Set(t, "plugin_manifests", (T \ K) \cup D), D)
    <3>1. Pg!Where(t, "plugin_manifests", LAMBDA m : m.id = id) = K
      BY <1>1 DEF Pg!Where, OfId
    <3> QED
      BY <2>1, <2>2, <2>3, <3>1
         DEF Pg!UpsertPluginManifest, Pg!OnConflict, Pg!InsertRow, Pg!UpdateWhere, Set
  <2>5. \A r \in K : [r EXCEPT !.yaml = yaml, !.enabled = enabled, !.revision = @ + 1] = x
    <3> SUFFICES ASSUME NEW r \in K
                 PROVE [r EXCEPT !.yaml = yaml, !.enabled = enabled, !.revision = @ + 1] = x
      OBVIOUS
    <3>1. r = [id |-> id, yaml |-> r.yaml, enabled |-> r.enabled, revision |-> r.revision]
      BY <1>2 DEF Manifest
    <3>2. v = r.revision + 1
      BY <1>3
    <3>3. PICK ry, re, rv : ry = r.yaml /\ re = r.enabled /\ rv = r.revision
      OBVIOUS
    <3>4. r = [id |-> id, yaml |-> ry, enabled |-> re, revision |-> rv]
      BY ONLY <3>1, <3>3
    <3>5. PICK w : w = rv + 1
      OBVIOUS
    <3>6. PICK z : z = [r EXCEPT !.yaml = yaml, !.enabled = enabled, !.revision = @ + 1]
      OBVIOUS
    <3>7. z = [id |-> id, yaml |-> yaml, enabled |-> enabled, revision |-> w]
      BY ONLY <3>4, <3>5, <3>6
    <3> QED
      BY ONLY <1>4, <3>2, <3>3, <3>5, <3>6, <3>7
  <2>6. K # {} => D = {x} /\ D # {}
    BY <2>2, <2>5
  <2>7. K = {} => y = x
    BY <1>3, <1>4, <2>3
  <2>8. u = Set(t, "plugin_manifests", (T \ K) \cup {x})
    BY <1>1, <1>5, <1>6, <2>1
  <2>9. K = {} => T \cup {x} = (T \ K) \cup {x}
    OBVIOUS
  <2> QED
    BY ONLY <2>4, <2>6, <2>7, <2>8, <2>9
<1>9. Pg!Ok(u, {x}).db = u
  BY ONLY TRUE DEF Pg!Ok
<1>10. ASSUME NEW d, MemoryInv(d), View(d) = t
       PROVE  Agree(Mem!UpsertPluginManifest(d, id, yaml, enabled),
                    Pg!UpsertPluginManifest(t, id, yaml, enabled))
  <2>1. PICK e : e = Set(d, "pluginManifests", Put(d.pluginManifests, id, x))
    OBVIOUS
  <2>2. MemoryInv(e) /\ View(e) = u
    BY ONLY <1>5, <1>6, <1>10, <2>1, TablesInv(t, f), f \in Nat, id \in PluginIds,
            ManifestWritten
  <2>3. K = IF d.pluginManifests[id] = None THEN {} ELSE {d.pluginManifests[id]}
    <3>1. PICK pm : pm = d.pluginManifests
      OBVIOUS
    <3>9. ManifestMap(pm, t.plugin_manifests)
      BY ONLY <1>10, <3>1, TablesInv(t, f), ManifestRows
    <3>2. OfId(t.plugin_manifests, id) = IF pm[id] = None THEN {} ELSE {pm[id]}
      BY ONLY <3>9, id \in PluginIds DEF ManifestMap
    <3> QED
      BY ONLY <1>1, <3>1, <3>2
  <2>4. (IF d.pluginManifests[id] = None THEN 1 ELSE d.pluginManifests[id].revision + 1) = v
    BY ONLY <1>3, <2>3
  <2>5. Mem!UpsertPluginManifest(d, id, yaml, enabled) = Mem!Ok(e, {x})
    BY <1>4, <2>1, <2>4 DEF Mem!UpsertPluginManifest, Set, Put
  <2> QED
    BY <1>8, <2>2, <2>5, Agreement
<1> QED
  BY <1>7, <1>8, <1>9, <1>10

\* DeletePluginManifest.
LEMMA DeletePluginManifestCall ==
  ASSUME NEW t, NEW f \in Nat, TablesInv(t, f), NEW id \in PluginIds
  PROVE  /\ Step(t, Pg!DeletePluginManifest(t, id).db, f)
         /\ \A d : MemoryInv(d) /\ View(d) = t =>
              Agree(Mem!DeletePluginManifest(d, id), Pg!DeletePluginManifest(t, id))
<1>1. PICK K : K = OfId(t.plugin_manifests, id)
  OBVIOUS
<1>0. PICK x : x = None
  OBVIOUS
<1>7. x = None \/ (x \in Manifest /\ x.id = id)
  BY ONLY <1>0
<1>2. PICK u : u = Set(t, "plugin_manifests",
                       (t.plugin_manifests \ OfId(t.plugin_manifests, id)) \cup ({x} \ {None}))
  OBVIOUS
<1>3. Step(t, u, f)
  BY ONLY <1>7, <1>2, TablesInv(t, f), f \in Nat, id \in PluginIds, ManifestStep
<1>4. Pg!DeletePluginManifest(t, id) =
        IF K = {} THEN Pg!Fail(t, "notfound") ELSE Pg!Ok(u, {})
  <2>1. u = Set(t, "plugin_manifests", t.plugin_manifests \ K)
    <3>1. (t.plugin_manifests \ K) \cup ({x} \ {None}) = t.plugin_manifests \ K
      BY <1>0
    <3> QED
      BY ONLY <1>1, <1>2, <3>1
  <2> QED
    BY <1>1, <2>1 DEF Pg!DeletePluginManifest, Pg!DeleteWhere, Pg!Where, OfId, Set
<1>5. Pg!Ok(u, {}).db = u /\ Pg!Fail(t, "notfound").db = t
  BY ONLY TRUE DEF Pg!Ok, Pg!Fail
<1>6. ASSUME NEW d, MemoryInv(d), View(d) = t
      PROVE  Agree(Mem!DeletePluginManifest(d, id), Pg!DeletePluginManifest(t, id))
  <2>1. PICK e : e = Set(d, "pluginManifests", Put(d.pluginManifests, id, x))
    OBVIOUS
  <2>2. MemoryInv(e) /\ View(e) = u
    BY ONLY <1>7, <1>2, <1>6, <2>1, TablesInv(t, f), f \in Nat, id \in PluginIds,
       ManifestWritten
  <2>3. K = IF d.pluginManifests[id] = None THEN {} ELSE {d.pluginManifests[id]}
    <3>1. PICK pm : pm = d.pluginManifests
      OBVIOUS
    <3>9. ManifestMap(pm, t.plugin_manifests)
      BY ONLY <1>6, <3>1, TablesInv(t, f), ManifestRows
    <3>2. OfId(t.plugin_manifests, id) = IF pm[id] = None THEN {} ELSE {pm[id]}
      BY ONLY <3>9, id \in PluginIds DEF ManifestMap
    <3> QED
      BY ONLY <1>1, <3>1, <3>2
  <2>4. Mem!DeletePluginManifest(d, id) =
          IF K = {} THEN Mem!Fail(d, "notfound") ELSE Mem!Ok(e, {})
    BY <1>0, <2>1, <2>3 DEF Mem!DeletePluginManifest, Set, Put
  <2> QED
    BY <1>4, <1>6, <2>2, <2>4, Agreement
<1> QED
  BY <1>3, <1>4, <1>5, <1>6, SameTables
-----------------------------------------------------------------------------
(* Application settings *)

\* A row of the settings.
Setting(k, v) == [key |-> k, value |-> v]

\* Its fields.
LEMMA SettingFields ==
  ASSUME NEW k, NEW v
  PROVE  Setting(k, v).key = k /\ Setting(k, v).value = v
  BY DEF Setting

\* The rows of the map are its entries that are not empty.
LEMMA SettingEntries ==
  ASSUME NEW st
  PROVE  \A r : r \in SettingsOf(st) <=> \E k \in Keys : st[k] # "" /\ r = Setting(k, st[k])
  BY DEF SettingsOf, Setting

\* What makes a set of rows a table of settings.
LEMMA SettingsAre ==
  ASSUME NEW T
  PROVE  SettingsInv(T) <=>
           /\ \A r \in T : r = Setting(r.key, r.value) /\ r.key \in Keys /\ r.value # ""
           /\ \A r, q \in T : r.key = q.key => r = q
  BY DEF SettingsInv, Setting

\* A setting is the entry of its key.
LEMMA SettingRows ==
  ASSUME NEW t, NEW f, TablesInv(t, f), NEW d, MemoryInv(d), View(d) = t
  PROVE  ByKey(d.appSettings) /\ t.app_settings = SettingsOf(d.appSettings)
  BY ViewTables DEF MemoryInv

\* The rows with a key.
OfKey(T, key) == {s \in T : s.key = key}

\* GetAppSetting.
LEMMA GetAppSettingCall ==
  ASSUME NEW t, NEW f \in Nat, TablesInv(t, f), NEW key \in Keys
  PROVE  /\ Step(t, Pg!GetAppSetting(t, key).db, f)
         /\ \A d : MemoryInv(d) /\ View(d) = t =>
              Agree(Mem!GetAppSetting(d, key), Pg!GetAppSetting(t, key))
<1>1. PICK K, R : /\ K = OfKey(t.app_settings, key)
                  /\ R = IF K = {} THEN {Setting(key, "")} ELSE K
  OBVIOUS
<1>2. Pg!GetAppSetting(t, key) = Pg!Ok(t, R)
  BY <1>1 DEF Pg!GetAppSetting, Pg!Where, OfKey, Setting
<1>3. Pg!Ok(t, R).db = t
  BY ONLY TRUE DEF Pg!Ok
<1>4. ASSUME NEW d, MemoryInv(d), View(d) = t
      PROVE  Agree(Mem!GetAppSetting(d, key), Pg!GetAppSetting(t, key))
  <2>1. PICK st, T : st = d.appSettings /\ T = SettingsOf(st)
    OBVIOUS
  <2>2. t.app_settings = T
    BY ONLY <1>4, <2>1, TablesInv(t, f), SettingRows
  <2>3. \A r : r \in T <=> \E k \in Keys : st[k] # "" /\ r = Setting(k, st[k])
    BY ONLY <2>1, SettingEntries
  <2>4. \A r : r \in K <=> r \in T /\ r.key = key
    BY ONLY <1>1, <2>2 DEF OfKey
  <2>5. \A r : r \in K <=> st[key] # "" /\ r = Setting(key, st[key])
    <3>1. \A k \in Keys : Setting(k, st[k]).key = k
      BY ONLY SettingFields
    <3> SUFFICES ASSUME NEW r
                 PROVE  r \in K <=> st[key] # "" /\ r = Setting(key, st[key])
      OBVIOUS
    <3>2. ASSUME r \in K PROVE st[key] # "" /\ r = Setting(key, st[key])
      <4>1. PICK k \in Keys : st[k] # "" /\ r = Setting(k, st[k])
        BY ONLY <2>3, <2>4, <3>2
      <4>2. r.key = key /\ r.key = k
        BY ONLY <2>4, <3>1, <3>2, <4>1
      <4> QED
        BY ONLY <4>1, <4>2
    <3>3. ASSUME st[key] # "" /\ r = Setting(key, st[key]) PROVE r \in K
      BY ONLY <2>3, <2>4, <3>1, <3>3, key \in Keys
    <3> QED
      BY ONLY <3>2, <3>3
  <2>6. R = {Setting(key, st[key])}
    BY ONLY <1>1, <2>5
  <2>7. Mem!GetAppSetting(d, key) = Mem!Ok(d, R)
    BY <2>1, <2>6 DEF Mem!GetAppSetting, Setting
  <2> QED
    BY <1>2, <1>4, <2>7, Agreement
<1> QED
  BY <1>2, <1>3, <1>4, SameTables

\* SetAppSetting with a value that is not empty.
LEMMA SetAppSettingCall ==
  ASSUME NEW t, NEW f \in Nat, TablesInv(t, f), NEW key \in Keys, NEW value, value # ""
  PROVE  /\ Step(t, Pg!SetAppSetting(t, key, value).db, f)
         /\ \A d : MemoryInv(d) /\ View(d) = t =>
              Agree(Mem!SetAppSetting(d, key, value), Pg!SetAppSetting(t, key, value))
<1>1. PICK T, x : T = t.app_settings /\ x = Setting(key, value)
  OBVIOUS
<1>2. PICK K : K = OfKey(T, key)
  OBVIOUS
<1>3. /\ \A r \in T : r = Setting(r.key, r.value) /\ r.key \in Keys /\ r.value # ""
      /\ \A r, q \in T : r.key = q.key => r = q
  <2>1. SettingsInv(T)
    BY <1>1 DEF TablesInv
  <2> QED
    BY ONLY <2>1, SettingsAre
<1>4. \A r : r \in K <=> r \in T /\ r.key = key
  BY ONLY <1>2 DEF OfKey
<1>5. x.key = key /\ x.value = value
  BY ONLY <1>1, SettingFields
<1>6. PICK X : X = (T \ K) \cup {x}
  OBVIOUS
<1>7. SettingsInv(X)
  <2>1. \A r \in X : r = Setting(r.key, r.value) /\ r.key \in Keys /\ r.value # ""
    BY ONLY <1>1, <1>3, <1>5, <1>6, key \in Keys, value # ""
  <2>2. \A r, q \in X : r.key = q.key => r = q
    BY ONLY <1>3, <1>4, <1>5, <1>6
  <2> QED
    BY ONLY <2>1, <2>2, SettingsAre
<1>8. PICK u : u = Set(t, "app_settings", X)
  OBVIOUS
<1>9. Step(t, u, f)
  <2>1. f <= f
    BY ONLY f \in Nat
  <2> QED
    BY ONLY <1>7, <1>8, <2>1, TablesInv(t, f), f \in Nat, OtherTable
<1>10. Pg!SetAppSetting(t, key, value) = Pg!Ok(u, {})
  <2>1. PICK D : D = {[r EXCEPT !.value = value] : r \in K}
    OBVIOUS
  <2>2. ASSUME NEW r \in K PROVE [r EXCEPT !.value = value] = x
    <3>1. PICK rv : r = Setting(key, rv)
      BY ONLY <1>3, <1>4, <2>2
    <3> QED
      BY ONLY <1>1, <3>1 DEF Setting
  <2>3. K # {} => D = {x} /\ D # {}
    BY ONLY <2>1, <2>2
  <2>4. K = {} => T \cup {x} = X
    BY <1>6
  <2>5. Pg!Where(t, "app_settings", LAMBDA s : s.key = key) = K
    BY <1>1, <1>2 DEF Pg!Where, OfKey
  <2>6. Pg!OnConflict(t, "app_settings", [key |-> key, value |-> value],
                      LAMBDA s : s.key = key, LAMBDA s : [s EXCEPT !.value = value]).db = u
    <3>1. Pg!OnConflict(t, "app_settings", [key |-> key, value |-> value],
                        LAMBDA s : s.key = key, LAMBDA s : [s EXCEPT !.value = value]) =
            IF K = {} THEN Pg!Ok(Set(t, "app_settings", T \cup {x}), {x})
            ELSE IF D = {} THEN Pg!Fail(t, "notfound")
            ELSE Pg!Ok(Set(t, "app_settings", (T \ K) \cup D), D)
      BY <1>1, <2>1, <2>5 DEF Pg!OnConflict, Pg!InsertRow, Pg!UpdateWhere, Set, Setting
    <3>2. Pg!Ok(u, {x}).db = u
      BY ONLY TRUE DEF Pg!Ok
    <3>3. Pg!OnConflict(t, "app_settings", [key |-> key, value |-> value],
                        LAMBDA s : s.key = key, LAMBDA s : [s EXCEPT !.value = value]) =
            Pg!Ok(u, {x})
      BY ONLY <1>6, <1>8, <2>3, <2>4, <3>1
    <3> QED
      BY ONLY <3>2, <3>3
  <2> QED
    BY <2>6 DEF Pg!SetAppSetting
<1>11. Pg!Ok(u, {}).db = u
  BY ONLY TRUE DEF Pg!Ok
<1>12. ASSUME NEW d, MemoryInv(d), View(d) = t
       PROVE  Agree(Mem!SetAppSetting(d, key, value), Pg!SetAppSetting(t, key, value))
  <2>1. PICK st : st = d.appSettings
    OBVIOUS
  <2>2. PICK sv : sv = Put(st, key, value)
    OBVIOUS
  <2>3. ByKey(st) /\ T = SettingsOf(st)
    BY ONLY <1>1, <1>12, <2>1, TablesInv(t, f), SettingRows
  <2>4. sv = [k \in Keys |-> IF k = key THEN value ELSE st[k]]
    BY ONLY <2>2, <2>3 DEF Put, ByKey
  <2>5. ByKey(sv)
    BY ONLY <2>4 DEF ByKey
  <2>6. SettingsOf(sv) = X
    <3>1. \A r : r \in SettingsOf(sv) <=> \E k \in Keys : sv[k] # "" /\ r = Setting(k, sv[k])
      BY ONLY SettingEntries
    <3>2. \A r : r \in T <=> \E k \in Keys : st[k] # "" /\ r = Setting(k, st[k])
      BY ONLY <2>3, SettingEntries
    <3>3. \A k \in Keys : sv[k] = IF k = key THEN value ELSE st[k]
      BY ONLY <2>4
    <3>4. \A r : r \in SettingsOf(sv) <=>
            r = x \/ \E k \in Keys : k # key /\ st[k] # "" /\ r = Setting(k, st[k])
      BY ONLY <1>1, <3>1, <3>3, key \in Keys, value # ""
    <3>5. \A r : r \in T \ K <=>
            \E k \in Keys : k # key /\ st[k] # "" /\ r = Setting(k, st[k])
      <4>1. \A k \in Keys : Setting(k, st[k]).key = k
        BY ONLY SettingFields
      <4> QED
        BY ONLY <1>4, <3>2, <4>1
    <3> QED
      BY ONLY <1>6, <3>4, <3>5
  <2>7. PICK e : e = Set(d, "appSettings", sv)
    OBVIOUS
  <2>8. MemoryInv(e) /\ View(e) = Set(t, "app_settings", SettingsOf(sv))
    BY ONLY <1>12, <2>5, <2>7, ViewStep
  <2>9. Mem!SetAppSetting(d, key, value) = Mem!Ok(e, {})
    BY <2>1, <2>2, <2>7 DEF Mem!SetAppSetting, Set, Put
  <2> QED
    BY <1>8, <1>10, <2>6, <2>8, <2>9, Agreement
<1> QED
  BY <1>9, <1>10, <1>11, <1>12

\* ListAppSettings.
LEMMA ListAppSettingsCall ==
  ASSUME NEW t, NEW f \in Nat, TablesInv(t, f), NEW keys, keys \subseteq Keys
  PROVE  /\ Step(t, Pg!ListAppSettings(t, keys).db, f)
         /\ \A d : MemoryInv(d) /\ View(d) = t =>
              Agree(Mem!ListAppSettings(d, keys), Pg!ListAppSettings(t, keys))
<1>1. PICK R : R = {s \in t.app_settings : s.key \in keys}
  OBVIOUS
<1>2. Pg!ListAppSettings(t, keys) = Pg!Ok(t, R)
  BY <1>1 DEF Pg!ListAppSettings, Pg!Where
<1>3. Pg!Ok(t, R).db = t
  BY ONLY TRUE DEF Pg!Ok
<1>4. ASSUME NEW d, MemoryInv(d), View(d) = t
      PROVE  Agree(Mem!ListAppSettings(d, keys), Pg!ListAppSettings(t, keys))
  <2>1. PICK st, T : st = d.appSettings /\ T = SettingsOf(st)
    OBVIOUS
  <2>2. t.app_settings = T
    BY ONLY <1>4, <2>1, TablesInv(t, f), SettingRows
  <2>3. \A r : r \in T <=> \E k \in Keys : st[k] # "" /\ r = Setting(k, st[k])
    BY ONLY <2>1, SettingEntries
  <2>4. \A r : r \in R <=> \E k \in keys : st[k] # "" /\ r = Setting(k, st[k])
    <3>1. \A k \in Keys : Setting(k, st[k]).key = k
      BY ONLY SettingFields
    <3>2. \A r : r \in R <=> r \in T /\ r.key \in keys
      BY ONLY <1>1, <2>2
    <3>3. ASSUME NEW r, r \in R PROVE \E k \in keys : st[k] # "" /\ r = Setting(k, st[k])
      <4>1. r \in T /\ r.key \in keys
        BY ONLY <3>2, <3>3
      <4>2. PICK k \in Keys : st[k] # "" /\ r = Setting(k, st[k])
        BY ONLY <2>3, <4>1
      <4>3. r.key = k
        BY ONLY <3>1, <4>2
      <4> QED
        BY ONLY <4>1, <4>2, <4>3
    <3>4. ASSUME NEW k \in keys, st[k] # "" PROVE Setting(k, st[k]) \in R
      <4>1. k \in Keys
        BY ONLY keys \subseteq Keys, k \in keys
      <4>2. Setting(k, st[k]) \in T
        BY ONLY <2>3, <3>4, <4>1
      <4>3. Setting(k, st[k]).key \in keys
        BY ONLY <3>1, <4>1, k \in keys
      <4> QED
        BY ONLY <3>2, <4>2, <4>3
    <3> QED
      BY ONLY <3>3, <3>4
  <2>5. R = {Setting(k, st[k]) : k \in {j \in keys : st[j] # ""}}
    BY ONLY <2>4
  <2>6. Mem!ListAppSettings(d, keys) = Mem!Ok(d, R)
    BY <2>1, <2>5 DEF Mem!ListAppSettings, Setting
  <2> QED
    BY <1>2, <1>4, <2>6, Agreement
<1> QED
  BY <1>2, <1>3, <1>4, SameTables
-----------------------------------------------------------------------------
(* Users *)

IsPlain(u) == u = [id |-> u.id, name |-> u.name, role |-> u.role, disabled |-> u.disabled]
ByName(T) == \A r, q \in T : r.name = q.name => r = q

\* The rows of some users.
UserRows(J, ph) == {UserOf(u, ph) : u \in J}

\* What is known of the users of the slice s and the table U.
UsersAre(s, ph, U) ==
  /\ AccountsInv(s, ph) /\ U = UserRows(Rows(s), ph) /\ ById(Rows(s)) /\ ByName(Rows(s))
  /\ \A u \in Rows(s) : IsPlain(u) /\ u.name \in Names

\* A user and its row.
LEMMA RowOfUser ==
  ASSUME NEW u, NEW ph
  PROVE  /\ UserOf(u, ph).id = u.id /\ UserOf(u, ph).name = u.name
         /\ UserOf(u, ph).role = u.role /\ UserOf(u, ph).disabled = u.disabled
         /\ UserOf(u, ph).hash = ph[u.name]
  BY DEF UserOf

\* The columns that are selected are the user.
LEMMA PublicUser ==
  ASSUME NEW u, IsPlain(u), NEW ph
  PROVE  Pg!Public(UserOf(u, ph)) = u
<1>1. PICK id, name, role, disabled :
        u = [id |-> id, name |-> name, role |-> role, disabled |-> disabled]
  BY DEF IsPlain
<1> QED
  BY <1>1 DEF Pg!Public, UserOf

\* The rows of the reply.
LEMMA PublicRows ==
  ASSUME NEW J, \A u \in J : IsPlain(u), NEW ph
  PROVE  {Pg!Public(r) : r \in UserRows(J, ph)} = J
<1>1. \A u \in J : Pg!Public(UserOf(u, ph)) = u
  BY PublicUser
<1> QED
  BY <1>1 DEF UserRows

\* The slice and the table hold the same users.
LEMMA UsersHeld ==
  ASSUME NEW t, NEW f, TablesInv(t, f), NEW d, MemoryInv(d), View(d) = t
  PROVE  UsersAre(d.users, d.passwordHashes, t.users)
<1>1. PICK s, ph : s = d.users /\ ph = d.passwordHashes
  OBVIOUS
<1>2. AccountsInv(s, ph) /\ t.users = UserRows(Rows(s), ph)
  BY <1>1, ViewTables DEF MemoryInv, UsersOf, UserRows
<1>3. \A u \in Rows(s) : IsPlain(u) /\ u.name \in Names
  BY <1>2 DEF AccountsInv, IsPlain
<1>4. /\ \A r, q \in t.users : r.id = q.id => r = q
      /\ \A r, q \in t.users : r.name = q.name => r = q
  BY DEF TablesInv, UsersInv, ById
<1>5. \A u \in Rows(s) : UserOf(u, ph) \in t.users
  BY <1>2 DEF UserRows
<1>6. \A u \in Rows(s) : Pg!Public(UserOf(u, ph)) = u
  BY <1>3, PublicUser
<1>7. \A u, v \in Rows(s) : u.id = v.id \/ u.name = v.name => u = v
  <2> SUFFICES ASSUME NEW u \in Rows(s), NEW v \in Rows(s), u.id = v.id \/ u.name = v.name
               PROVE  u = v
    OBVIOUS
  <2>1. PICK a, b : a = UserOf(u, ph) /\ b = UserOf(v, ph)
    OBVIOUS
  <2>2. a.id = u.id /\ b.id = v.id /\ a.name = u.name /\ b.name = v.name
    BY ONLY <2>1, RowOfUser
  <2>3. a = b
    BY <1>4, <1>5, <2>1, <2>2
  <2> QED
    BY ONLY <1>6, <2>1, <2>3, u \in Rows(s), v \in Rows(s)
<1>8. UsersAre(s, ph, t.users)
  BY ONLY <1>2, <1>3, <1>7 DEF UsersAre, ById, ByName
<1> QED
  BY ONLY <1>1, <1>8

\* The user with a name, and the loop that looks for it.
OfName(T, name) == {r \in T : r.name = name}
PlaceOfName(s, name) ==
  LET I == {i \in 1 .. Len(s) : s[i].name = name} IN IF I # {} THEN Mem!Min(I) ELSE 0

\* The loop finds the row.
LEMMA NamePlace ==
  ASSUME NEW s, Slice(s), NEW T, Rows(s) = T, ByName(T), NEW name
  PROVE  /\ OfName(T, name) \subseteq T /\ \A r, q \in OfName(T, name) : r = q
         /\ PlaceOfName(s, name) = Place(s, OfName(T, name))
         /\ PlaceOfName(s, name) # 0 => s[PlaceOfName(s, name)] \in OfName(T, name)
<1>1. PICK K : K = OfName(T, name)
  OBVIOUS
<1>2. K \subseteq T /\ \A r, q \in K : r = q
  BY <1>1 DEF OfName, ByName
<1>3. {i \in 1 .. Len(s) : s[i].name = name} = {i \in 1 .. Len(s) : s[i] \in K}
  BY <1>1, SliceRows DEF OfName
<1>4. PlaceOfName(s, name) = Place(s, K)
  BY <1>3 DEF PlaceOfName, Place
<1> QED
  BY <1>1, <1>2, <1>4, PlaceOf

\* The same users are found in the slice and in the table.
LEMMA FoundRows ==
  ASSUME NEW J, NEW ph, NEW id, NEW name
  PROVE  /\ OfId(UserRows(J, ph), id) = UserRows(OfId(J, id), ph)
         /\ OfName(UserRows(J, ph), name) = UserRows(OfName(J, name), ph)
<1>1. \A u \in J : UserOf(u, ph).id = u.id /\ UserOf(u, ph).name = u.name
  BY ONLY RowOfUser
<1> QED
  BY ONLY <1>1 DEF UserRows, OfId, OfName

\* The place of the user with an identifier, or with a name.
LEMMA UserPlace ==
  ASSUME NEW s, NEW ph, NEW U, UsersAre(s, ph, U), NEW J, NEW i,
         \/ \E id : J = OfId(Rows(s), id) /\ i = PlaceOfId(s, id)
         \/ \E name : J = OfName(Rows(s), name) /\ i = PlaceOfName(s, name)
  PROVE  /\ \A u \in J : IsPlain(u)
         /\ \/ J = {} /\ i = 0 /\ UserRows(J, ph) = {}
            \/ /\ J = {s[i]} /\ i \in DOMAIN s /\ i # 0
               /\ UserRows(J, ph) = {UserOf(s[i], ph)}
<1>1. Slice(s) /\ ById(Rows(s)) /\ ByName(Rows(s))
  BY DEF UsersAre, AccountsInv
<1>2. PICK T : T = Rows(s)
  OBVIOUS
<1>3. J \subseteq T /\ (\A r, q \in J : r = q) /\ i = Place(s, J)
  <2>1. CASE \E id : J = OfId(Rows(s), id) /\ i = PlaceOfId(s, id)
    <3>1. PICK id : J = OfId(Rows(s), id) /\ i = PlaceOfId(s, id)
      BY <2>1
    <3> QED
      BY ONLY <1>1, <1>2, <3>1, IdPlace
  <2>2. CASE \E name : J = OfName(Rows(s), name) /\ i = PlaceOfName(s, name)
    <3>1. PICK name : J = OfName(Rows(s), name) /\ i = PlaceOfName(s, name)
      BY <2>2
    <3> QED
      BY ONLY <1>1, <1>2, <3>1, NamePlace
  <2> QED
    BY <2>1, <2>2
<1>4. \/ J = {} /\ i = 0
      \/ J = {s[i]} /\ i \in DOMAIN s /\ i # 0
  BY ONLY <1>1, <1>2, <1>3, PlaceOf
<1>5. \A u \in J : IsPlain(u)
  BY ONLY <1>2, <1>3, UsersAre(s, ph, U) DEF UsersAre
<1>6. J = {} => UserRows(J, ph) = {}
  BY ONLY TRUE DEF UserRows
<1>7. J = {s[i]} => UserRows(J, ph) = {UserOf(s[i], ph)}
  BY ONLY TRUE DEF UserRows
<1> QED
  BY ONLY <1>4, <1>5, <1>6, <1>7

\* The rows of a reply are replaced.
LEMMA NewRows ==
  ASSUME NEW e, NEW t, NEW R, NEW Q
  PROVE  [[err |-> e, rows |-> R, db |-> t] EXCEPT !.rows = Q] =
           [err |-> e, rows |-> Q, db |-> t]
<1>1. PICK m : m = [[err |-> e, rows |-> R, db |-> t] EXCEPT !.rows = Q]
  OBVIOUS
<1>2. m = [err |-> e, rows |-> Q, db |-> t]
  BY ONLY <1>1
<1> QED
  BY ONLY <1>1, <1>2

\* The columns of a reply that are selected.
LEMMA PublicReplies ==
  ASSUME NEW t, NEW R, NEW e
  PROVE  /\ Pg!PublicReply(Pg!Ok(t, R)) = Pg!Ok(t, {Pg!Public(u) : u \in R})
         /\ Pg!PublicReply(Pg!Fail(t, e)) = Pg!Fail(t, e)
<1>1. PICK Q : Q = {Pg!Public(u) : u \in R}
  OBVIOUS
<1>2. [[err |-> "", rows |-> R, db |-> t] EXCEPT !.rows = Q] = [err |-> "", rows |-> Q, db |-> t]
  BY ONLY NewRows
<1>3. {Pg!Public(u) : u \in {}} = {}
  OBVIOUS
<1>4. [[err |-> e, rows |-> {}, db |-> t] EXCEPT !.rows = {}] = [err |-> e, rows |-> {}, db |-> t]
  BY ONLY NewRows
<1>5. Pg!PublicReply(Pg!Ok(t, R)) = [[err |-> "", rows |-> R, db |-> t] EXCEPT !.rows = Q]
  BY <1>1 DEF Pg!PublicReply, Pg!Ok
<1>6. Pg!PublicReply(Pg!Fail(t, e)) = [[err |-> e, rows |-> {}, db |-> t] EXCEPT !.rows = {}]
  BY <1>3 DEF Pg!PublicReply, Pg!Fail
<1> QED
  BY ONLY <1>1, <1>2, <1>4, <1>5, <1>6 DEF Pg!Ok, Pg!Fail

\* A selection leaves the tables as they are.
LEMMA PublicData ==
  ASSUME NEW t, NEW K
  PROVE  Pg!PublicReply(PgSelect(t, K)).db = t
<1>1. PICK Q : Q = {Pg!Public(u) : u \in K}
  OBVIOUS
<1>2. Pg!PublicReply(PgSelect(t, K)) = IF K = {} THEN Pg!Fail(t, "notfound") ELSE Pg!Ok(t, Q)
  BY <1>1, PublicReplies DEF PgSelect
<1>3. Pg!Fail(t, "notfound").db = t /\ Pg!Ok(t, Q).db = t
  BY ONLY TRUE DEF Pg!Ok, Pg!Fail
<1> QED
  BY ONLY <1>2, <1>3

\* A user is looked for.
UserFound(t, J) == IF J = {} THEN Pg!Fail(t, "notfound") ELSE Pg!Ok(t, J)

\* The selection of its row.
LEMMA PublicFound ==
  ASSUME NEW t, NEW J, \A u \in J : IsPlain(u), NEW ph, NEW K, K = UserRows(J, ph)
  PROVE  Pg!PublicReply(PgSelect(t, K)) = UserFound(t, J)
<1>1. {Pg!Public(r) : r \in K} = J
  BY PublicRows
<1>2. K = {} <=> J = {}
  BY DEF UserRows
<1>3. Pg!PublicReply(Pg!Ok(t, K)) = Pg!Ok(t, J)
  BY ONLY <1>1, PublicReplies
<1> QED
  BY <1>2, <1>3, PublicReplies DEF PgSelect, UserFound

\* GetUser.
LEMMA GetUserCall ==
  ASSUME NEW t, NEW f \in Nat, TablesInv(t, f), NEW id
  PROVE  /\ Step(t, Pg!GetUser(t, id).db, f)
         /\ \A d : MemoryInv(d) /\ View(d) = t => Agree(Mem!GetUser(d, id), Pg!GetUser(t, id))
<1>1. PICK K : K = OfId(t.users, id)
  OBVIOUS
<1>2. Pg!GetUser(t, id) = Pg!PublicReply(PgSelect(t, K))
  BY <1>1 DEF Pg!GetUser, Pg!SelectRow, Pg!Where, PgSelect, OfId
<1>3. Pg!PublicReply(PgSelect(t, K)).db = t
  BY ONLY PublicData
<1>4. ASSUME NEW d, MemoryInv(d), View(d) = t
      PROVE  Agree(Mem!GetUser(d, id), Pg!GetUser(t, id))
  <2>1. PICK s, ph : s = d.users /\ ph = d.passwordHashes
    OBVIOUS
  <2>2. PICK J, i : J = OfId(Rows(s), id) /\ i = PlaceOfId(s, id)
    OBVIOUS
  <2>3. UsersAre(s, ph, t.users)
    BY ONLY <1>4, <2>1, TablesInv(t, f), UsersHeld
  <2>4. K = UserRows(J, ph)
    BY ONLY <1>1, <2>2, <2>3, FoundRows DEF UsersAre
  <2>5. (\A u \in J : IsPlain(u)) /\ ((J = {} /\ i = 0) \/ (J = {s[i]} /\ i # 0))
    BY ONLY <2>2, <2>3, UserPlace
  <2>6. Pg!GetUser(t, id) = UserFound(t, J)
    BY ONLY <1>2, <2>4, <2>5, PublicFound
  <2>7. Mem!GetUser(d, id) = IF i = 0 THEN Mem!Fail(d, "notfound") ELSE Mem!Ok(d, {s[i]})
    BY <2>1, <2>2 DEF Mem!GetUser, Mem!First, Mem!SelectInSeq, PlaceOfId
  <2>8. Mem!GetUser(d, id) = IF J = {} THEN Mem!Fail(d, "notfound") ELSE Mem!Ok(d, J)
    BY ONLY <2>5, <2>7
  <2> QED
    BY <1>4, <2>6, <2>8, Agreement DEF UserFound
<1> QED
  BY <1>2, <1>3, <1>4, SameTables

\* GetUserByUsername.
LEMMA GetUserByUsernameCall ==
  ASSUME NEW t, NEW f \in Nat, TablesInv(t, f), NEW name
  PROVE  /\ Step(t, Pg!GetUserByUsername(t, name).db, f)
         /\ \A d : MemoryInv(d) /\ View(d) = t =>
              Agree(Mem!GetUserByUsername(d, name), Pg!GetUserByUsername(t, name))
<1>1. PICK K : K = OfName(t.users, name)
  OBVIOUS
<1>2. Pg!GetUserByUsername(t, name) = Pg!PublicReply(PgSelect(t, K))
  BY <1>1 DEF Pg!GetUserByUsername, Pg!SelectRow, Pg!Where, PgSelect, OfName
<1>3. Pg!PublicReply(PgSelect(t, K)).db = t
  BY ONLY PublicData
<1>4. ASSUME NEW d, MemoryInv(d), View(d) = t
      PROVE  Agree(Mem!GetUserByUsername(d, name), Pg!GetUserByUsername(t, name))
  <2>1. PICK s, ph : s = d.users /\ ph = d.passwordHashes
    OBVIOUS
  <2>2. PICK J, i : J = OfName(Rows(s), name) /\ i = PlaceOfName(s, name)
    OBVIOUS
  <2>3. UsersAre(s, ph, t.users)
    BY ONLY <1>4, <2>1, TablesInv(t, f), UsersHeld
  <2>4. K = UserRows(J, ph)
    BY ONLY <1>1, <2>2, <2>3, FoundRows DEF UsersAre
  <2>5. (\A u \in J : IsPlain(u)) /\ ((J = {} /\ i = 0) \/ (J = {s[i]} /\ i # 0))
    BY ONLY <2>2, <2>3, UserPlace
  <2>6. Pg!GetUserByUsername(t, name) = UserFound(t, J)
    BY ONLY <1>2, <2>4, <2>5, PublicFound
  <2>7. Mem!GetUserByUsername(d, name) =
          IF i = 0 THEN Mem!Fail(d, "notfound") ELSE Mem!Ok(d, {s[i]})
    BY <2>1, <2>2 DEF Mem!GetUserByUsername, Mem!First, Mem!SelectInSeq, PlaceOfName
  <2>8. Mem!GetUserByUsername(d, name) =
          IF J = {} THEN Mem!Fail(d, "notfound") ELSE Mem!Ok(d, J)
    BY ONLY <2>5, <2>7
  <2> QED
    BY <1>4, <2>6, <2>8, Agreement DEF UserFound
<1> QED
  BY <1>2, <1>3, <1>4, SameTables

\* ListUsers.
LEMMA ListUsersCall ==
  ASSUME NEW t, NEW f \in Nat, TablesInv(t, f)
  PROVE  /\ Step(t, Pg!ListUsers(t).db, f)
         /\ \A d : MemoryInv(d) /\ View(d) = t => Agree(Mem!ListUsers(d), Pg!ListUsers(t))
<1>1. PICK U : U = t.users
  OBVIOUS
<1>2. Pg!ListUsers(t) = Pg!Ok(t, {Pg!Public(u) : u \in U})
  BY <1>1, PublicReplies DEF Pg!ListUsers
<1>3. Pg!Ok(t, {Pg!Public(u) : u \in U}).db = t
  BY Replies
<1>4. ASSUME NEW d, MemoryInv(d), View(d) = t
      PROVE  Agree(Mem!ListUsers(d), Pg!ListUsers(t))
  <2>1. PICK s, ph : s = d.users /\ ph = d.passwordHashes
    OBVIOUS
  <2>2. PICK J : J = Rows(s)
    OBVIOUS
  <2>3. UsersAre(s, ph, U)
    BY ONLY <1>1, <1>4, <2>1, TablesInv(t, f), UsersHeld
  <2>4. (\A u \in J : IsPlain(u)) /\ U = UserRows(J, ph)
    BY ONLY <2>2, <2>3 DEF UsersAre
  <2>5. Pg!ListUsers(t) = Pg!Ok(t, J)
    <3>1. {Pg!Public(u) : u \in U} = J
      BY ONLY <2>4, PublicRows
    <3> QED
      BY ONLY <1>2, <3>1
  <2>6. Mem!ListUsers(d) = Mem!Ok(d, J)
    <3>1. Mem!ToSet(s) = J
      BY <2>2 DEF Mem!ToSet, Rows
    <3> QED
      BY <2>1, <3>1 DEF Mem!ListUsers, Mem!All
  <2> QED
    BY <1>4, <2>5, <2>6, Agreement
<1> QED
  BY <1>2, <1>3, <1>4, SameTables

\* The users and the passwords are replaced.
SetAccounts(d, us, ph) == Set(Set(d, "passwordHashes", ph), "users", us)

\* Replaced users and passwords are a replaced table.
LEMMA AccountsStep ==
  ASSUME NEW d, MemoryInv(d), NEW X, NEW Y, AccountsInv(X, Y)
  PROVE  /\ MemoryInv(SetAccounts(d, X, Y))
         /\ View(SetAccounts(d, X, Y)) = Set(View(d), "users", UsersOf(X, Y))
<1>1. PICK us, ph, ag, lm, gw, ic, ai, pm, ui, st :
         d = Memory(us, ph, ag, lm, gw, ic, ai, pm, ui, st)
  BY DEF MemoryInv, IsMemory
<1>2. /\ d.users = us /\ d.passwordHashes = ph /\ d.agents = ag /\ d.llmModels = lm
      /\ d.gateway = gw /\ d.integrations = ic /\ d.agentIntegrations = ai
      /\ d.pluginManifests = pm /\ d.userIdentities = ui /\ d.appSettings = st
  BY <1>1, TheSlices
<1>3. /\ Slice(ag) /\ Slice(lm) /\ Slice(ic) /\ Slice(ai) /\ Slice(ui)
      /\ ByPluginId(pm) /\ ByKey(st)
  BY <1>2 DEF MemoryInv
<1>4. View(d) = Tables(UsersOf(us, ph), Rows(ag), Rows(lm), GatewayOf(gw), Rows(ic), Rows(ai),
                       ManifestsOf(pm), Rows(ui), SettingsOf(st))
  BY <1>1, ViewOfSlices
<1>5. PICK c, e : /\ c = Memory(us, Y, ag, lm, gw, ic, ai, pm, ui, st)
                  /\ e = Memory(X, Y, ag, lm, gw, ic, ai, pm, ui, st)
  OBVIOUS
<1>6. SetAccounts(d, X, Y) = e
  <2>1. Set(d, "passwordHashes", Y) = c
    BY ONLY <1>1, <1>5, SetSlice
  <2>2. Set(c, "users", X) = e
    BY ONLY <1>5, SetSlice
  <2> QED
    BY ONLY <2>1, <2>2 DEF SetAccounts
<1>7. MemoryInv(e)
  <2>1. /\ IsMemory(e)
        /\ e.users = X /\ e.passwordHashes = Y /\ e.agents = ag
        /\ e.llmModels = lm /\ e.integrations = ic /\ e.agentIntegrations = ai
        /\ e.pluginManifests = pm /\ e.userIdentities = ui /\ e.appSettings = st
    BY <1>5, TheSlices
  <2> QED
    BY ONLY <1>3, <2>1, AccountsInv(X, Y) DEF MemoryInv
<1>8. View(e) = Tables(UsersOf(X, Y), Rows(ag), Rows(lm), GatewayOf(gw), Rows(ic),
                       Rows(ai), ManifestsOf(pm), Rows(ui), SettingsOf(st))
  BY ONLY <1>5, ViewOfSlices
<1>9. Set(View(d), "users", UsersOf(X, Y)) = View(e)
  BY ONLY <1>4, <1>8, SetTable
<1> QED
  BY ONLY <1>6, <1>7, <1>9

\* A map with another entry at n.
LEMMA PutHash ==
  ASSUME NEW ph, ph = [n \in Names |-> ph[n]], NEW m \in Names, NEW h
  PROVE  /\ Put(ph, m, h) = [n \in Names |-> Put(ph, m, h)[n]]
         /\ \A n \in Names : Put(ph, m, h)[n] = IF n = m THEN h ELSE ph[n]
  BY DEF Put

\* The row of a user whose password is the same.
LEMMA SameRow ==
  ASSUME NEW u, NEW ph, NEW q, ph[u.name] = q[u.name]
  PROVE  UserOf(u, ph) = UserOf(u, q)
  BY DEF UserOf

\* What makes a slice and a map the users and their passwords.
LEMMA AccountsAre ==
  ASSUME NEW s, NEW ph, Slice(s), \A u \in Rows(s) : IsPlain(u) /\ u.name \in Names,
         ph = [n \in Names |-> ph[n]],
         \A n \in Names : (\A u \in Rows(s) : u.name # n) => ph[n] = None
  PROVE  AccountsInv(s, ph)
  BY DEF AccountsInv, IsPlain

\* The user at i becomes x, or x is added, and h is its password.
ChangedUser(s, ph, i, x, h, y, q) ==
  /\ i \in DOMAIN s /\ IsPlain(x) /\ x.name = s[i].name
  /\ y = Put(s, i, x) /\ q = Put(ph, x.name, h)
AddedUser(s, ph, x, h, y, q) ==
  /\ IsPlain(x) /\ x.name \in Names /\ \A u \in Rows(s) : u.name # x.name
  /\ y = Append(s, x) /\ q = Put(ph, x.name, h)

\* A user is changed, name and identifier apart.
LEMMA UserChange ==
  ASSUME NEW s, NEW ph, NEW U, UsersAre(s, ph, U), NEW i, NEW x, NEW h, NEW y, NEW q,
         ChangedUser(s, ph, i, x, h, y, q)
  PROVE  /\ AccountsInv(y, q)
         /\ UsersOf(y, q) = (U \ {UserOf(s[i], ph)}) \cup {UserOf(x, q)}
<1> USE DEF ChangedUser
<1>1. PICK R, z : R = Rows(s) /\ z = s[i]
  OBVIOUS
<1>2. /\ Slice(s) /\ U = UserRows(R, ph) /\ ByName(R)
      /\ \A u \in R : IsPlain(u) /\ u.name \in Names
      /\ ph = [n \in Names |-> ph[n]]
      /\ \A n \in Names : (\A u \in R : u.name # n) => ph[n] = None
  BY <1>1 DEF UsersAre, AccountsInv
<1>3. z \in R
  BY ONLY <1>1, <1>2, ChangedUser(s, ph, i, x, h, y, q), SliceRows
<1>4. x.name = z.name /\ x.name \in Names
  BY <1>1, <1>2, <1>3
<1>5. \A u \in R \ {z} : u.name # x.name
  BY ONLY <1>2, <1>3, <1>4 DEF ByName
<1>6. Slice(y) /\ Rows(y) = (R \ {z}) \cup {x}
  <2>1. x \notin Rows(s) \ {s[i]}
    BY ONLY <1>1, <1>5
  <2> QED
    BY ONLY <1>1, <1>2, <2>1, ChangedUser(s, ph, i, x, h, y, q), ChangeSlice
<1>7. /\ q = [n \in Names |-> q[n]]
      /\ \A n \in Names : q[n] = IF n = x.name THEN h ELSE ph[n]
  BY ONLY <1>2, <1>4, ChangedUser(s, ph, i, x, h, y, q), PutHash
<1>8. AccountsInv(y, q)
  <2>1. \A u \in Rows(y) : IsPlain(u) /\ u.name \in Names
    BY ONLY <1>2, <1>4, <1>6, ChangedUser(s, ph, i, x, h, y, q)
  <2>2. \A n \in Names : (\A u \in Rows(y) : u.name # n) => q[n] = None
    <3> SUFFICES ASSUME NEW n \in Names, \A u \in Rows(y) : u.name # n PROVE q[n] = None
      OBVIOUS
    <3>1. n # x.name
      BY ONLY <1>6, \A u \in Rows(y) : u.name # n
    <3>2. \A u \in R : u.name # n
      BY ONLY <1>4, <1>6, <3>1, \A u \in Rows(y) : u.name # n
    <3> QED
      BY ONLY <1>2, <1>7, <3>1, <3>2, n \in Names
  <2>3. Slice(y) /\ q = [n \in Names |-> q[n]]
    BY ONLY <1>6, <1>7
  <2> QED
    BY ONLY <2>1, <2>2, <2>3, AccountsAre
<1>9. \A u \in R \ {z} : UserOf(u, q) = UserOf(u, ph)
  <2>1. \A u \in R \ {z} : q[u.name] = ph[u.name]
    BY ONLY <1>2, <1>5, <1>7
  <2> QED
    BY ONLY <2>1, SameRow
<1>10. \A u \in R \ {z} : UserOf(u, ph) # UserOf(z, ph)
  <2>1. \A u : UserOf(u, ph).name = u.name
    BY ONLY RowOfUser
  <2> QED
    BY ONLY <1>4, <1>5, <2>1
<1>11. UsersOf(y, q) = {UserOf(u, q) : u \in (R \ {z}) \cup {x}}
  BY ONLY <1>6 DEF UsersOf
<1>12. U = {UserOf(u, ph) : u \in R}
  BY ONLY <1>2 DEF UserRows
<1>13. UsersOf(y, q) = (U \ {UserOf(z, ph)}) \cup {UserOf(x, q)}
  <2>1. \A r : r \in UsersOf(y, q) <=> r = UserOf(x, q) \/ \E u \in R \ {z} : r = UserOf(u, ph)
    BY ONLY <1>9, <1>11
  <2>2. \A r : r \in U \ {UserOf(z, ph)} <=> \E u \in R \ {z} : r = UserOf(u, ph)
    BY ONLY <1>3, <1>10, <1>12
  <2> QED
    BY ONLY <2>1, <2>2
<1> QED
  BY ONLY <1>1, <1>8, <1>13

\* A user with a new name is added.
LEMMA UserAdd ==
  ASSUME NEW s, NEW ph, NEW U, UsersAre(s, ph, U), NEW x, NEW h, NEW y, NEW q,
         AddedUser(s, ph, x, h, y, q)
  PROVE  AccountsInv(y, q) /\ UsersOf(y, q) = U \cup {UserOf(x, q)}
<1> USE DEF AddedUser
<1>1. PICK R : R = Rows(s)
  OBVIOUS
<1>2. /\ Slice(s) /\ U = UserRows(R, ph)
      /\ \A u \in R : IsPlain(u) /\ u.name \in Names
      /\ ph = [n \in Names |-> ph[n]]
      /\ \A n \in Names : (\A u \in R : u.name # n) => ph[n] = None
  BY <1>1 DEF UsersAre, AccountsInv
<1>3. \A u \in R : u.name # x.name
  BY <1>1
<1>4. Slice(y) /\ Rows(y) = R \cup {x}
  <2>1. x \notin Rows(s)
    BY ONLY <1>1, <1>3
  <2> QED
    BY ONLY <1>1, <1>2, <2>1, AddedUser(s, ph, x, h, y, q), AppendSlice
<1>5. /\ q = [n \in Names |-> q[n]]
      /\ \A n \in Names : q[n] = IF n = x.name THEN h ELSE ph[n]
  BY ONLY <1>2, AddedUser(s, ph, x, h, y, q), PutHash
<1>6. AccountsInv(y, q)
  <2>1. \A u \in Rows(y) : IsPlain(u) /\ u.name \in Names
    BY ONLY <1>2, <1>4, AddedUser(s, ph, x, h, y, q)
  <2>2. \A n \in Names : (\A u \in Rows(y) : u.name # n) => q[n] = None
    BY ONLY <1>2, <1>4, <1>5
  <2>3. Slice(y) /\ q = [n \in Names |-> q[n]]
    BY ONLY <1>4, <1>5
  <2> QED
    BY ONLY <2>1, <2>2, <2>3, AccountsAre
<1>7. \A u \in R : UserOf(u, q) = UserOf(u, ph)
  <2>1. \A u \in R : q[u.name] = ph[u.name]
    BY ONLY <1>2, <1>3, <1>5
  <2> QED
    BY ONLY <2>1, SameRow
<1>8. UsersOf(y, q) = {UserOf(u, q) : u \in R \cup {x}}
  BY ONLY <1>4 DEF UsersOf
<1>9. U = {UserOf(u, ph) : u \in R}
  BY ONLY <1>2 DEF UserRows
<1>10. UsersOf(y, q) = U \cup {UserOf(x, q)}
  BY ONLY <1>7, <1>8, <1>9
<1> QED
  BY ONLY <1>6, <1>10

\* The row of a user is changed, name and identifier apart.
LEMMA UserChanged ==
  ASSUME NEW t, NEW f \in Nat, TablesInv(t, f), NEW g \in Nat, f <= g,
         NEW r \in t.users, NEW x, IsUser(x), x.id = r.id, x.name = r.name
  PROVE  Step(t, Set(t, "users", (t.users \ {r}) \cup {x}), g)
<1>1. PICK U, X : U = t.users /\ X = (U \ {r}) \cup {x}
  OBVIOUS
<1>2. /\ \A u \in U : IsUser(u)
      /\ \A u \in U : u.id \in Nat /\ u.id < f
      /\ \A u, v \in U : u.id = v.id => u = v
      /\ \A u, v \in U : u.name = v.name => u = v
  BY <1>1 DEF TablesInv, UsersInv, Numbered, ById
<1>3. UsersInv(X, g)
  <2>1. \A u \in X : IsUser(u)
    BY ONLY <1>1, <1>2, IsUser(x)
  <2>2. \A u \in X : u.id \in Nat /\ u.id < g
    BY <1>1, <1>2
  <2>3. \A u, v \in X : u.id = v.id => u = v
    BY ONLY <1>1, <1>2, r \in t.users, x.id = r.id
  <2>4. \A u, v \in X : u.name = v.name => u = v
    BY ONLY <1>1, <1>2, r \in t.users, x.name = r.name
  <2> QED
    BY ONLY <2>1, <2>2, <2>3, <2>4 DEF UsersInv, Numbered, ById
<1>4. \A u \in t.users : \E v \in X : v.id = u.id
  BY ONLY <1>1, x.id = r.id
<1> QED
  BY ONLY <1>1, <1>3, <1>4, TablesInv(t, f), f \in Nat, g \in Nat, f <= g, UsersTable

\* The row of a new user is added.
LEMMA UserAdded ==
  ASSUME NEW t, NEW f \in Nat, TablesInv(t, f), NEW x, IsUser(x), x.id = f,
         \A u \in t.users : u.name # x.name
  PROVE  Step(t, Set(t, "users", t.users \cup {x}), f + 1)
<1>1. PICK U, X : U = t.users /\ X = U \cup {x}
  OBVIOUS
<1>2. /\ \A u \in U : IsUser(u) /\ u.name # x.name
      /\ \A u \in U : u.id \in Nat /\ u.id < f
      /\ \A u, v \in U : u.id = v.id => u = v
      /\ \A u, v \in U : u.name = v.name => u = v
  BY <1>1 DEF TablesInv, UsersInv, Numbered, ById
<1>3. UsersInv(X, f + 1)
  <2>1. \A u \in X : IsUser(u)
    BY ONLY <1>1, <1>2, IsUser(x)
  <2>2. \A u \in X : u.id \in Nat /\ u.id < f + 1
    BY <1>1, <1>2
  <2>3. \A u, v \in X : u.id = v.id => u = v
    BY ONLY <1>1, <1>2, f \in Nat, x.id = f
  <2>4. \A u, v \in X : u.name = v.name => u = v
    BY ONLY <1>1, <1>2
  <2> QED
    BY ONLY <2>1, <2>2, <2>3, <2>4 DEF UsersInv, Numbered, ById
<1>4. \A u \in t.users : \E v \in X : v.id = u.id
  BY ONLY <1>1
<1>5. f + 1 \in Nat /\ f <= f + 1
  BY ONLY f \in Nat
<1> QED
  BY ONLY <1>1, <1>3, <1>4, <1>5, TablesInv(t, f), f \in Nat, UsersTable

\* The users stay when the passwords are replaced.
LEMMA SameUsers ==
  ASSUME NEW d, MemoryInv(d), NEW q
  PROVE  Set(d, "passwordHashes", q).users = d.users
<1>1. IsMemory(d)
  BY DEF MemoryInv
<1> QED
  BY ONLY <1>1 DEF IsMemory, Memory, Set

\* The insert of a user, whose identifier is new.
LEMMA InsertedUser ==
  ASSUME NEW t, NEW f \in Nat, TablesInv(t, f), NEW name, NEW hash, NEW role
  PROVE  Pg!CreateUser(t, f, name, hash, role) =
           IF OfName(t.users, name) # {} THEN Pg!Fail(t, "conflict")
           ELSE Pg!Ok(Set(t, "users", t.users \cup {Pg!UserRow(f, name, hash, role)}),
                      {Mem!NewUser(f, name, role)})
<1>1. PICK U, K, r, w, u : /\ U = t.users /\ K = OfName(U, name)
                           /\ r = Pg!UserRow(f, name, hash, role)
                           /\ w = Mem!NewUser(f, name, role)
                           /\ u = Set(t, "users", U \cup {r})
  OBVIOUS
<1>2. \A v \in U : v.id # f
  BY <1>1 DEF TablesInv, UsersInv, Numbered
<1>3. Pg!Public(r) = w
  BY <1>1 DEF Pg!UserRow, Mem!NewUser, Pg!Public
<1>4. {Pg!Public(v) : v \in {r}} = {w}
  BY <1>3
<1>5. Pg!PublicReply(Pg!Ok(u, {r})) = Pg!Ok(u, {w})
  BY ONLY <1>4, PublicReplies
<1>6. (\E v \in t.users : v.name = name \/ v.id = f) <=> K # {}
  BY ONLY <1>1, <1>2 DEF OfName
<1>7. Pg!InsertRow(t, "users", r) = Pg!Ok(u, {r})
  BY ONLY <1>1 DEF Pg!InsertRow, Set
<1> QED
  BY ONLY <1>1, <1>5, <1>6, <1>7 DEF Pg!CreateUser

\* CreateUser.
LEMMA CreateUserCall ==
  ASSUME NEW t, NEW f \in Nat, TablesInv(t, f), NEW name \in Names, NEW hash, NEW role
  PROVE  LET p == Pg!CreateUser(t, f, name, hash, role)
         IN  /\ Step(t, p.db, IF p.err = "" THEN f + 1 ELSE f)
             /\ \A d : MemoryInv(d) /\ View(d) = t =>
                  Agree(Mem!CreateUser(d, f, name, hash, role), p)
<1>1. PICK U, K, r, w, u : /\ U = t.users /\ K = OfName(U, name)
                           /\ r = Pg!UserRow(f, name, hash, role)
                           /\ w = Mem!NewUser(f, name, role)
                           /\ u = Set(t, "users", U \cup {r})
  OBVIOUS
<1>2. /\ IsUser(r) /\ r.id = f /\ r.name = name
      /\ IsPlain(w) /\ w.name = name
  BY <1>1 DEF Pg!UserRow, Mem!NewUser, IsUser, IsPlain
<1>3. PICK p : p = Pg!CreateUser(t, f, name, hash, role)
  OBVIOUS
<1>4. p = IF K # {} THEN Pg!Fail(t, "conflict") ELSE Pg!Ok(u, {w})
  <2>1. Pg!CreateUser(t, f, name, hash, role) =
          IF OfName(t.users, name) # {} THEN Pg!Fail(t, "conflict")
          ELSE Pg!Ok(Set(t, "users", t.users \cup {Pg!UserRow(f, name, hash, role)}),
                     {Mem!NewUser(f, name, role)})
    BY ONLY TablesInv(t, f), f \in Nat, InsertedUser
  <2> QED
    BY ONLY <1>1, <1>3, <2>1
<1>5. Step(t, p.db, IF p.err = "" THEN f + 1 ELSE f)
  <2>1. CASE K # {}
    <3>1. p.db = t /\ p.err # ""
      BY ONLY <1>4, <2>1 DEF Pg!Fail
    <3> QED
      BY ONLY <3>1, TablesInv(t, f), SameTables
  <2>2. CASE K = {}
    <3>1. p.db = u /\ p.err = ""
      BY ONLY <1>4, <2>2 DEF Pg!Ok
    <3>2. \A v \in t.users : v.name # r.name
      BY ONLY <1>1, <1>2, <2>2 DEF OfName
    <3>3. Step(t, u, f + 1)
      BY ONLY <1>1, <1>2, <3>2, TablesInv(t, f), f \in Nat, UserAdded
    <3> QED
      BY ONLY <3>1, <3>3
  <2> QED
    BY ONLY <2>1, <2>2
<1>6. ASSUME NEW d, MemoryInv(d), View(d) = t
      PROVE  Agree(Mem!CreateUser(d, f, name, hash, role), p)
  <2>1. PICK s, ph : s = d.users /\ ph = d.passwordHashes
    OBVIOUS
  <2>2. PICK J, i : J = OfName(Rows(s), name) /\ i = PlaceOfName(s, name)
    OBVIOUS
  <2>3. UsersAre(s, ph, U)
    BY ONLY <1>1, <1>6, <2>1, TablesInv(t, f), UsersHeld
  <2>4. K = UserRows(J, ph)
    BY ONLY <1>1, <2>2, <2>3, FoundRows DEF UsersAre
  <2>5. i = 0 <=> K = {}
    <3>1. (i = 0 /\ UserRows(J, ph) = {}) \/ (i # 0 /\ UserRows(J, ph) = {UserOf(s[i], ph)})
      BY ONLY <2>2, <2>3, UserPlace
    <3> QED
      BY ONLY <2>4, <3>1
  <2>6. PICK h, q, y, e : /\ h = Mem!Given(hash, ph[name]) /\ q = Put(ph, name, h)
                          /\ y = Append(s, w) /\ e = SetAccounts(d, y, q)
    OBVIOUS
  <2>7. Mem!CreateUser(d, f, name, hash, role) =
          IF i # 0 THEN Mem!Fail(d, "conflict") ELSE Mem!Ok(e, {w})
    <3>1. Mem!Has(d, "users", LAMBDA u_1 : u_1.name = name) <=> i # 0
      BY <2>1, <2>2 DEF Mem!Has, Mem!SelectInSeq, PlaceOfName
    <3>2. PICK c : c = [d EXCEPT !.passwordHashes[name] = Mem!Given(hash, @)]
      OBVIOUS
    <3>3. c = Set(d, "passwordHashes", q)
      BY ONLY <2>1, <2>6, <3>2 DEF Set, Put
    <3>4. c.users = s
      BY ONLY <1>6, <2>1, <3>3, SameUsers
    <3>5. Mem!Push(c, "users", w) = Mem!Ok(e, {w})
      BY ONLY <2>6, <3>3, <3>4 DEF Mem!Push, SetAccounts, Set
    <3> QED
      BY ONLY <1>1, <3>1, <3>2, <3>5 DEF Mem!CreateUser
  <2>8. CASE i # 0
    <3>1. Mem!CreateUser(d, f, name, hash, role) = Mem!Fail(d, "conflict")
      BY ONLY <2>7, <2>8
    <3>2. p = Pg!Fail(t, "conflict")
      BY ONLY <1>4, <2>5, <2>8
    <3> QED
      BY ONLY <1>6, <3>1, <3>2, Agreement
  <2>9. CASE i = 0
    <3>1. \A v \in Rows(s) : v.name # w.name
      <4>1. J = {}
        BY ONLY <2>2, <2>3, <2>9, UserPlace
      <4> QED
        BY ONLY <1>2, <2>2, <4>1 DEF OfName
    <3>2. AccountsInv(y, q) /\ UsersOf(y, q) = U \cup {UserOf(w, q)}
      <4>1. AddedUser(s, ph, w, h, y, q)
        BY ONLY <1>2, <2>6, <3>1, name \in Names DEF AddedUser
      <4> QED
        BY ONLY <2>3, <4>1, UserAdd
    <3>3. UserOf(w, q) = r
      <4>1. ph[name] = None /\ ph = [n \in Names |-> ph[n]]
        BY ONLY <1>2, <2>3, <3>1, name \in Names DEF UsersAre, AccountsInv
      <4>2. h = hash
        BY ONLY <2>6, <4>1 DEF Mem!Given
      <4>3. q[name] = hash
        BY ONLY <2>6, <4>1, <4>2, name \in Names, PutHash
      <4> QED
        BY ONLY <1>1, <4>3 DEF UserOf, Pg!UserRow, Mem!NewUser
    <3>4. MemoryInv(e) /\ View(e) = u
      <4>1. MemoryInv(SetAccounts(d, y, q))
            /\ View(SetAccounts(d, y, q)) = Set(View(d), "users", UsersOf(y, q))
        BY ONLY <1>6, <3>2, AccountsStep
      <4> QED
        BY ONLY <1>1, <1>6, <2>6, <3>2, <3>3, <4>1
    <3>5. Mem!CreateUser(d, f, name, hash, role) = Mem!Ok(e, {w})
      BY ONLY <2>7, <2>9
    <3>6. p = Pg!Ok(u, {w})
      BY ONLY <1>4, <2>5, <2>9
    <3> QED
      BY ONLY <3>4, <3>5, <3>6, Agreement
  <2> QED
    BY ONLY <2>8, <2>9
<1> QED
  BY <1>3, <1>5, <1>6

\* GetPasswordHash: a user without a password apart.
LEMMA GetPasswordHashCall ==
  ASSUME NEW t, NEW f \in Nat, TablesInv(t, f), NEW name \in Names
  PROVE  /\ Step(t, Pg!GetPasswordHash(t, name).db, f)
         /\ \A d : MemoryInv(d) /\ View(d) = t =>
              /\ MemoryInv(Mem!GetPasswordHash(d, name).db)
              /\ View(Mem!GetPasswordHash(d, name).db) = t
              /\ \/ \E u \in t.users : u.name = name /\ u.hash = None
                 \/ Agree(Mem!GetPasswordHash(d, name), Pg!GetPasswordHash(t, name))
<1>1. PICK K, Q, p : /\ K = OfName(t.users, name) /\ Q = {[hash |-> u.hash] : u \in K}
                     /\ p = Pg!GetPasswordHash(t, name)
  OBVIOUS
<1>2. p = IF K = {} THEN Pg!Fail(t, "notfound") ELSE Pg!Ok(t, Q)
  <2>1. Pg!SelectRow(t, "users", LAMBDA u : u.name = name) = PgSelect(t, K)
    BY <1>1 DEF Pg!SelectRow, Pg!Where, PgSelect, OfName
  <2>2. p = [PgSelect(t, K) EXCEPT !.rows = {[hash |-> u.hash] : u \in @}]
    BY ONLY <1>1, <2>1 DEF Pg!GetPasswordHash
  <2>3. {[hash |-> u.hash] : u \in {}} = {}
    OBVIOUS
  <2>4. CASE K = {}
    <3>1. [[err |-> "notfound", rows |-> {}, db |-> t] EXCEPT !.rows = {}] =
            [err |-> "notfound", rows |-> {}, db |-> t]
      BY ONLY NewRows
    <3>2. PgSelect(t, K) = [err |-> "notfound", rows |-> {}, db |-> t]
      BY ONLY <2>4 DEF PgSelect, Pg!Fail
    <3> QED
      BY ONLY <2>2, <2>3, <2>4, <3>1, <3>2 DEF Pg!Fail
  <2>5. CASE K # {}
    <3>1. [[err |-> "", rows |-> K, db |-> t] EXCEPT !.rows = Q] =
            [err |-> "", rows |-> Q, db |-> t]
      BY ONLY NewRows
    <3>2. PgSelect(t, K) = [err |-> "", rows |-> K, db |-> t]
      BY ONLY <2>5 DEF PgSelect, Pg!Ok
    <3>3. {[hash |-> u.hash] : u \in [err |-> "", rows |-> K, db |-> t].rows} = Q
      BY ONLY <1>1
    <3>4. p = [[err |-> "", rows |-> K, db |-> t] EXCEPT !.rows = Q]
      BY ONLY <2>2, <3>2, <3>3
    <3> QED
      BY ONLY <2>5, <3>1, <3>4 DEF Pg!Ok
  <2> QED
    BY ONLY <2>4, <2>5
<1>3. p.db = t
  BY ONLY <1>2 DEF Pg!Ok, Pg!Fail
<1>4. ASSUME NEW d, MemoryInv(d), View(d) = t
      PROVE  /\ MemoryInv(Mem!GetPasswordHash(d, name).db)
             /\ View(Mem!GetPasswordHash(d, name).db) = t
             /\ \/ \E u \in t.users : u.name = name /\ u.hash = None
                \/ Agree(Mem!GetPasswordHash(d, name), p)
  <2>1. PICK s, ph, m : /\ s = d.users /\ ph = d.passwordHashes
                        /\ m = Mem!GetPasswordHash(d, name)
    OBVIOUS
  <2>2. PICK J, i : J = OfName(Rows(s), name) /\ i = PlaceOfName(s, name)
    OBVIOUS
  <2>3. UsersAre(s, ph, t.users)
    BY ONLY <1>4, <2>1, TablesInv(t, f), UsersHeld
  <2>4. K = UserRows(J, ph)
    BY ONLY <1>1, <2>2, <2>3, FoundRows DEF UsersAre
  <2>5. m = IF ph[name] = None THEN Mem!Fail(d, "notfound") ELSE Mem!Ok(d, {[hash |-> ph[name]]})
    BY ONLY <2>1 DEF Mem!GetPasswordHash
  <2>6. m.db = d
    BY ONLY <2>5 DEF Mem!Ok, Mem!Fail
  <2>7. ASSUME ~ \E u \in t.users : u.name = name /\ u.hash = None
        PROVE  Agree(m, p)
    <3>1. CASE J = {}
      <4>1. ph[name] = None
        BY ONLY <2>2, <2>3, <3>1, name \in Names DEF UsersAre, AccountsInv, OfName
      <4>2. K = {}
        BY ONLY <2>4, <3>1 DEF UserRows
      <4>3. m = Mem!Fail(d, "notfound") /\ p = Pg!Fail(t, "notfound")
        BY ONLY <1>2, <2>5, <4>1, <4>2
      <4> QED
        BY ONLY <1>4, <4>3, Agreement
    <3>2. CASE J # {}
      <4>1. PICK u : u \in J /\ u = s[i] /\ K = {UserOf(u, ph)}
        BY ONLY <2>2, <2>3, <2>4, <3>2, UserPlace
      <4>2. u.name = name
        BY ONLY <2>2, <4>1 DEF OfName
      <4>3. PICK r : r = UserOf(u, ph)
        OBVIOUS
      <4>4. r.name = name /\ r.hash = ph[name] /\ r \in t.users
        BY ONLY <1>1, <4>1, <4>2, <4>3, RowOfUser DEF OfName
      <4>5. ph[name] # None /\ Q = {[hash |-> ph[name]]} /\ K # {}
        BY ONLY <1>1, <2>7, <4>1, <4>3, <4>4
      <4>6. m = Mem!Ok(d, Q) /\ p = Pg!Ok(t, Q)
        BY ONLY <1>2, <2>5, <4>5
      <4> QED
        BY ONLY <1>4, <4>6, Agreement
    <3> QED
      BY ONLY <3>1, <3>2
  <2> QED
    BY ONLY <1>4, <2>1, <2>6, <2>7
<1> QED
  BY <1>1, <1>3, <1>4, SameTables

\* A user and a row with other columns, and the data with them.
UserWith(z, role, disabled) ==
  [id |-> z.id, name |-> z.name, role |-> role, disabled |-> disabled]
RowWith(r, role, disabled, hash) ==
  [id |-> r.id, name |-> r.name, role |-> role, disabled |-> disabled, hash |-> hash]
UserWrittenIn(d, i, role, disabled, h) ==
  SetAccounts(d, Put(d.users, i, UserWith(d.users[i], role, disabled)),
              Put(d.passwordHashes, d.users[i].name, h))
RowWrittenIn(t, r, role, disabled, h) ==
  Set(t, "users", (t.users \ {r}) \cup {RowWith(r, role, disabled, h)})

\* The row of a user is written.
LEMMA RowWritten ==
  ASSUME NEW t, NEW f \in Nat, TablesInv(t, f), NEW g \in Nat, f <= g,
         NEW r \in t.users, NEW role, NEW disabled, NEW h
  PROVE  Step(t, RowWrittenIn(t, r, role, disabled, h), g)
<1>1. PICK x : x = RowWith(r, role, disabled, h)
  OBVIOUS
<1>2. IsUser(r)
  BY DEF TablesInv, UsersInv
<1>3. IsUser(x) /\ x.id = r.id /\ x.name = r.name
  BY ONLY <1>1, <1>2 DEF IsUser, RowWith
<1>4. Step(t, Set(t, "users", (t.users \ {r}) \cup {x}), g)
  BY ONLY <1>3, TablesInv(t, f), f \in Nat, g \in Nat, f <= g, r \in t.users, UserChanged
<1> QED
  BY ONLY <1>1, <1>4 DEF RowWrittenIn

\* A user of the slice is written.
LEMMA UserWritten ==
  ASSUME NEW t, NEW f \in Nat, TablesInv(t, f), NEW d, MemoryInv(d), View(d) = t,
         NEW i, i \in DOMAIN d.users, NEW role, NEW disabled, NEW h
  PROVE  /\ MemoryInv(UserWrittenIn(d, i, role, disabled, h))
         /\ View(UserWrittenIn(d, i, role, disabled, h)) =
              RowWrittenIn(t, UserOf(d.users[i], d.passwordHashes), role, disabled, h)
<1>1. PICK s, ph, z : s = d.users /\ ph = d.passwordHashes /\ z = s[i]
  OBVIOUS
<1>2. PICK x, y, q : /\ x = UserWith(z, role, disabled) /\ y = Put(s, i, x)
                     /\ q = Put(ph, z.name, h)
  OBVIOUS
<1>3. PICK U, r, n : U = t.users /\ r = UserOf(z, ph) /\ n = RowWith(r, role, disabled, h)
  OBVIOUS
<1>4. UsersAre(s, ph, U)
  BY ONLY <1>1, <1>3, TablesInv(t, f), MemoryInv(d), View(d) = t, UsersHeld
<1>5. i \in DOMAIN s
  BY ONLY <1>1, i \in DOMAIN d.users
<1>6. x.name = z.name /\ IsPlain(x)
  BY ONLY <1>2 DEF UserWith, IsPlain
<1>7. ChangedUser(s, ph, i, x, h, y, q)
  BY ONLY <1>1, <1>2, <1>5, <1>6 DEF ChangedUser
<1>8. AccountsInv(y, q) /\ UsersOf(y, q) = (U \ {UserOf(s[i], ph)}) \cup {UserOf(x, q)}
  BY ONLY <1>4, <1>7, UserChange
<1>9. UserOf(x, q) = n
  <2>1. z.name \in Names /\ ph = [m \in Names |-> ph[m]]
    <3>1. Slice(s)
      BY ONLY <1>4 DEF UsersAre, AccountsInv
    <3>2. z \in Rows(s)
      BY ONLY <1>1, <1>5, <3>1, SliceRows
    <3> QED
      BY ONLY <1>4, <3>2 DEF UsersAre, AccountsInv
  <2>2. q[z.name] = h
    BY ONLY <1>2, <2>1, PutHash
  <2>3. UserOf(x, q) = [id |-> z.id, name |-> z.name, role |-> role, disabled |-> disabled,
                        hash |-> h]
    BY ONLY <1>2, <2>2 DEF UserOf, UserWith
  <2>4. r.id = z.id /\ r.name = z.name
    BY ONLY <1>3, RowOfUser
  <2> QED
    BY ONLY <1>3, <2>3, <2>4 DEF RowWith
<1>10. /\ MemoryInv(SetAccounts(d, y, q))
       /\ View(SetAccounts(d, y, q)) = Set(View(d), "users", UsersOf(y, q))
  BY ONLY <1>8, MemoryInv(d), AccountsStep
<1>11. UserWrittenIn(d, i, role, disabled, h) = SetAccounts(d, y, q)
  BY ONLY <1>1, <1>2 DEF UserWrittenIn
<1>12. RowWrittenIn(t, UserOf(d.users[i], d.passwordHashes), role, disabled, h) =
         Set(t, "users", (U \ {r}) \cup {n})
  BY ONLY <1>1, <1>3 DEF RowWrittenIn
<1>13. UsersOf(y, q) = (U \ {r}) \cup {n}
  BY ONLY <1>1, <1>3, <1>8, <1>9
<1> QED
  BY ONLY <1>10, <1>11, <1>12, <1>13, View(d) = t

\* A write that leaves the password, or the rest of the user, as it is.
LEMMA PartWritten ==
  ASSUME NEW d, MemoryInv(d), NEW i, i \in DOMAIN d.users, NEW role, NEW disabled, NEW h
  PROVE  /\ Set(d, "users", Put(d.users, i, UserWith(d.users[i], role, disabled))) =
              UserWrittenIn(d, i, role, disabled, d.passwordHashes[d.users[i].name])
         /\ Set(d, "passwordHashes", Put(d.passwordHashes, d.users[i].name, h)) =
              UserWrittenIn(d, i, d.users[i].role, d.users[i].disabled, h)
<1>1. PICK us, ph, ag, lm, gw, ic, ai, pm, ui, st :
         d = Memory(us, ph, ag, lm, gw, ic, ai, pm, ui, st)
  BY DEF MemoryInv, IsMemory
<1>2. d.users = us /\ d.passwordHashes = ph
  BY ONLY <1>1, TheSlices
<1>3. PICK z : z = us[i]
  OBVIOUS
<1>4. Slice(us) /\ ph = [n \in Names |-> ph[n]]
  BY <1>2 DEF MemoryInv, AccountsInv
<1>5. z \in Rows(us) /\ us = [j \in 1 .. Len(us) |-> us[j]]
  BY <1>2, <1>3, <1>4, SliceRows
<1>6. IsPlain(z)
  BY <1>2, <1>5 DEF MemoryInv, AccountsInv, IsPlain
<1>7. Put(ph, z.name, ph[z.name]) = ph
  BY ONLY <1>4 DEF Put
<1>8. Put(us, i, z) = us
  BY ONLY <1>3, <1>5 DEF Put
<1>9. UserWith(z, z.role, z.disabled) = z
  BY ONLY <1>6 DEF IsPlain, UserWith
<1>10. Set(d, "passwordHashes", ph) = d
  BY ONLY <1>1, SetSlice
<1>11. PICK q, c : /\ q = Put(ph, z.name, h)
                   /\ c = Memory(us, q, ag, lm, gw, ic, ai, pm, ui, st)
  OBVIOUS
<1>12. Set(d, "passwordHashes", q) = c /\ Set(c, "users", us) = c
  BY ONLY <1>1, <1>11, SetSlice
<1>13. PICK y : y = Put(us, i, UserWith(z, role, disabled))
  OBVIOUS
<1>14. UserWrittenIn(d, i, role, disabled, ph[z.name]) = Set(d, "users", y)
  BY ONLY <1>2, <1>3, <1>7, <1>10, <1>13 DEF UserWrittenIn, SetAccounts
<1>15. UserWrittenIn(d, i, z.role, z.disabled, h) = c
  BY ONLY <1>2, <1>3, <1>8, <1>9, <1>11, <1>12 DEF UserWrittenIn, SetAccounts
<1> QED
  BY ONLY <1>2, <1>3, <1>11, <1>12, <1>13, <1>14, <1>15

\* UpdateUser.
LEMMA UpdateUserCall ==
  ASSUME NEW t, NEW f \in Nat, TablesInv(t, f), NEW id, NEW disabled, NEW role
  PROVE  LET p == Pg!UpdateUser(t, id, disabled, role)
         IN  /\ Step(t, p.db, f)
             /\ \A d : MemoryInv(d) /\ View(d) = t =>
                  Agree(Mem!UpdateUser(d, id, disabled, role), p)
<1>1. PICK K, p : K = OfId(t.users, id) /\ p = Pg!UpdateUser(t, id, disabled, role)
  OBVIOUS
<1>2. \A r, q \in K : r = q
  BY <1>1 DEF TablesInv, UsersInv, ById, OfId
<1>3. PICK D : D = {[r EXCEPT !.disabled = Pg!Given(disabled, @),
                              !.role = Pg!Given(role, @)] : r \in K}
  OBVIOUS
<1>4. p = Pg!PublicReply(IF D = {} THEN Pg!Fail(t, "notfound")
                         ELSE Pg!Ok(Set(t, "users", (t.users \ K) \cup D), D))
  <2>1. Pg!Where(t, "users", LAMBDA u : u.id = id) = K
    BY <1>1 DEF Pg!Where, OfId
  <2> QED
    BY <1>1, <1>3, <2>1 DEF Pg!UpdateUser, Pg!UpdateWhere, Set
<1>5. ASSUME K = {}
      PROVE  p = Pg!Fail(t, "notfound")
  <2>1. D = {}
    BY ONLY <1>3, <1>5
  <2> QED
    BY ONLY <1>4, <2>1, PublicReplies
<1>6. ASSUME NEW r, K = {r}, NEW ro, ro = Pg!Given(role, r.role),
             NEW di, di = Pg!Given(disabled, r.disabled)
      PROVE  p = Pg!Ok(RowWrittenIn(t, r, ro, di, r.hash), {UserWith(r, ro, di)})
  <2>1. IsUser(r)
    <3>1. r \in t.users
      BY <1>1, <1>6 DEF OfId
    <3> QED
      BY <3>1 DEF TablesInv, UsersInv
  <2>2. PICK n : n = RowWith(r, ro, di, r.hash)
    OBVIOUS
  <2>3. D = {n}
    <3>1. PICK z : z = [r EXCEPT !.disabled = Pg!Given(disabled, @), !.role = Pg!Given(role, @)]
      OBVIOUS
    <3>2. PICK ri, rn, rr, rd, rh : /\ ri = r.id /\ rn = r.name /\ rr = r.role
                                    /\ rd = r.disabled /\ rh = r.hash
      OBVIOUS
    <3>3. r = [id |-> ri, name |-> rn, role |-> rr, disabled |-> rd, hash |-> rh]
      BY ONLY <2>1, <3>2 DEF IsUser
    <3>4. z = [id |-> ri, name |-> rn, role |-> Pg!Given(role, rr),
               disabled |-> Pg!Given(disabled, rd), hash |-> rh]
      BY ONLY <3>1, <3>3
    <3>5. z = n
      BY ONLY <1>6, <2>2, <3>2, <3>4 DEF RowWith
    <3> QED
      BY ONLY <1>3, <1>6, <3>1, <3>5
  <2>4. {Pg!Public(u) : u \in D} = {UserWith(r, ro, di)}
    <3>1. Pg!Public(n) = UserWith(r, ro, di)
      BY ONLY <2>2 DEF Pg!Public, RowWith, UserWith
    <3> QED
      BY ONLY <2>3, <3>1
  <2>5. PICK u : u = Set(t, "users", (t.users \ K) \cup D)
    OBVIOUS
  <2>6. p = Pg!PublicReply(Pg!Ok(u, D))
    BY ONLY <1>4, <2>3, <2>5
  <2>7. Pg!PublicReply(Pg!Ok(u, D)) = Pg!Ok(u, {UserWith(r, ro, di)})
    BY ONLY <2>4, PublicReplies
  <2>8. u = RowWrittenIn(t, r, ro, di, r.hash)
    BY ONLY <1>6, <2>2, <2>3, <2>5 DEF RowWrittenIn
  <2> QED
    BY ONLY <2>6, <2>7, <2>8
<1>7. Step(t, p.db, f)
  <2>1. CASE K = {}
    <3>1. p.db = t
      BY ONLY <1>5, <2>1 DEF Pg!Fail
    <3> QED
      BY ONLY <3>1, TablesInv(t, f), SameTables
  <2>2. CASE K # {}
    <3>1. PICK r : K = {r} /\ r \in t.users
      BY ONLY <1>1, <1>2, <2>2 DEF OfId
    <3>2. PICK ro, di, u, x : /\ ro = Pg!Given(role, r.role)
                              /\ di = Pg!Given(disabled, r.disabled)
                           /\ u = RowWrittenIn(t, r, ro, di, r.hash)
                           /\ x = UserWith(r, ro, di)
      OBVIOUS
    <3>3. p = Pg!Ok(u, {x})
      BY ONLY <1>6, <3>1, <3>2
    <3>4. p.db = u
      BY ONLY <3>3 DEF Pg!Ok
    <3>5. f <= f
      BY ONLY f \in Nat
    <3> QED
      BY ONLY <3>1, <3>2, <3>4, <3>5, TablesInv(t, f), f \in Nat, RowWritten
  <2> QED
    BY ONLY <2>1, <2>2
<1>8. ASSUME NEW d, MemoryInv(d), View(d) = t
      PROVE  Agree(Mem!UpdateUser(d, id, disabled, role), p)
  <2>1. PICK s, ph : s = d.users /\ ph = d.passwordHashes
    OBVIOUS
  <2>2. PICK J, i, m : /\ J = OfId(Rows(s), id) /\ i = PlaceOfId(s, id)
                       /\ m = Mem!UpdateUser(d, id, disabled, role)
    OBVIOUS
  <2>3. UsersAre(s, ph, t.users)
    BY ONLY <1>8, <2>1, TablesInv(t, f), UsersHeld
  <2>4. K = UserRows(J, ph)
    BY ONLY <1>1, <2>2, <2>3, FoundRows DEF UsersAre
  <2>5. PICK z, w : /\ z = s[i]
                    /\ w = [z EXCEPT !.disabled = Mem!Given(disabled, @),
                                     !.role = Mem!Given(role, @)]
    OBVIOUS
  <2>6. m = IF i = 0 THEN Mem!Fail(d, "notfound")
            ELSE Mem!Ok([d EXCEPT !["users"][i] = w], {w})
    BY <2>1, <2>2, <2>5 DEF Mem!UpdateUser, Mem!Change, Mem!SelectInSeq, PlaceOfId
  <2>7. CASE i = 0
    <3>1. UserRows(J, ph) = {}
      <4>1. (i = 0 /\ UserRows(J, ph) = {}) \/ (i # 0 /\ UserRows(J, ph) = {UserOf(s[i], ph)})
        BY ONLY <2>2, <2>3, UserPlace
      <4> QED
        BY ONLY <2>7, <4>1
    <3>2. p = Pg!Fail(t, "notfound")
      BY ONLY <1>5, <2>4, <3>1
    <3>3. m = Mem!Fail(d, "notfound")
      BY ONLY <2>6, <2>7
    <3> QED
      BY ONLY <1>8, <2>2, <3>2, <3>3, Agreement
  <2>8. CASE i # 0
    <3>1. /\ J = {s[i]} /\ i \in DOMAIN s /\ (\A u \in J : IsPlain(u))
          /\ UserRows(J, ph) = {UserOf(s[i], ph)}
      BY ONLY <2>2, <2>3, <2>8, UserPlace
    <3>2. PICK r : r = UserOf(z, ph)
      OBVIOUS
    <3>3. /\ r.id = z.id /\ r.name = z.name /\ r.role = z.role /\ r.disabled = z.disabled
          /\ r.hash = ph[z.name]
      BY ONLY <3>2, RowOfUser
    <3>4. PICK ro, di, u, x : /\ ro = Pg!Given(role, r.role)
                              /\ di = Pg!Given(disabled, r.disabled)
                              /\ u = RowWrittenIn(t, r, ro, di, r.hash) /\ x = UserWith(z, ro, di)
      OBVIOUS
    <3>5. p = Pg!Ok(u, {x})
      <4>1. K = {r}
        BY ONLY <2>4, <2>5, <3>1, <3>2
      <4>2. p = Pg!Ok(u, {UserWith(r, ro, di)})
        BY ONLY <1>6, <3>4, <4>1
      <4>3. UserWith(r, ro, di) = x
        BY ONLY <3>3, <3>4 DEF UserWith
      <4> QED
        BY ONLY <4>2, <4>3
    <3>6. w = x
      <4>1. PICK zi, zn, zr, zd : /\ zi = z.id /\ zn = z.name /\ zr = z.role /\ zd = z.disabled
        OBVIOUS
      <4>2. z = [id |-> zi, name |-> zn, role |-> zr, disabled |-> zd]
        BY ONLY <2>5, <3>1, <4>1 DEF IsPlain
      <4>3. w = [id |-> zi, name |-> zn, role |-> Mem!Given(role, zr),
                 disabled |-> Mem!Given(disabled, zd)]
        <5>1. w = [z EXCEPT !.disabled = Mem!Given(disabled, @), !.role = Mem!Given(role, @)]
          BY ONLY <2>5
        <5> QED
          BY ONLY <4>2, <5>1
      <4>4. ro = Mem!Given(role, zr) /\ di = Mem!Given(disabled, zd)
        BY ONLY <3>3, <3>4, <4>1 DEF Mem!Given, Pg!Given
      <4> QED
        BY ONLY <3>4, <4>1, <4>3, <4>4 DEF UserWith
    <3>7. PICK e : e = UserWrittenIn(d, i, ro, di, r.hash)
      OBVIOUS
    <3>8. [d EXCEPT !["users"][i] = w] = e
      <4>1. [d EXCEPT !["users"][i] = x] = Set(d, "users", Put(d.users, i, x))
        BY ONLY PutInSlice
      <4>2. i \in DOMAIN d.users
        BY ONLY <2>1, <3>1
      <4>3. Set(d, "users", Put(d.users, i, UserWith(d.users[i], ro, di))) =
              UserWrittenIn(d, i, ro, di, d.passwordHashes[d.users[i].name])
        BY ONLY <1>8, <4>2, PartWritten
      <4>4. x = UserWith(d.users[i], ro, di) /\ r.hash = d.passwordHashes[d.users[i].name]
        BY ONLY <2>1, <2>5, <3>3, <3>4
      <4> QED
        BY ONLY <3>6, <3>7, <4>1, <4>3, <4>4
    <3>9. MemoryInv(e) /\ View(e) = u
      <4>1. i \in DOMAIN d.users /\ r = UserOf(d.users[i], d.passwordHashes)
        BY ONLY <2>1, <2>5, <3>1, <3>2
      <4>2. PICK h : h = r.hash
        OBVIOUS
      <4>3. /\ MemoryInv(UserWrittenIn(d, i, ro, di, h))
            /\ View(UserWrittenIn(d, i, ro, di, h)) =
                 RowWrittenIn(t, UserOf(d.users[i], d.passwordHashes), ro, di, h)
        BY ONLY <1>8, <4>1, TablesInv(t, f), f \in Nat, UserWritten
      <4> QED
        BY ONLY <3>4, <3>7, <4>1, <4>2, <4>3
    <3>10. m = Mem!Ok(e, {x})
      BY ONLY <2>6, <2>8, <3>6, <3>8
    <3> QED
      BY ONLY <2>2, <3>5, <3>9, <3>10, Agreement
  <2> QED
    BY ONLY <2>7, <2>8
<1> QED
  BY <1>1, <1>7, <1>8

\* SetPasswordHash, of a user that exists.
LEMMA SetPasswordHashCall ==
  ASSUME NEW t, NEW f \in Nat, TablesInv(t, f), NEW name, NEW hash
  PROVE  LET p == Pg!SetPasswordHash(t, name, hash)
         IN  /\ Step(t, p.db, f)
             /\ OfName(t.users, name) # {} =>
                  \A d : MemoryInv(d) /\ View(d) = t =>
                    Agree(Mem!SetPasswordHash(d, name, hash), p)
<1>1. PICK K, p : K = OfName(t.users, name) /\ p = Pg!SetPasswordHash(t, name, hash)
  OBVIOUS
<1>2. \A r, q \in K : r = q
  BY <1>1 DEF TablesInv, UsersInv, OfName
<1>3. PICK D : D = {[r EXCEPT !.hash = hash] : r \in K}
  OBVIOUS
<1>4. PICK v : v = Set(t, "users", (t.users \ K) \cup D)
  OBVIOUS
<1>5. p = Pg!Ok(IF D = {} THEN t ELSE v, {})
  <2>1. Pg!Where(t, "users", LAMBDA u : u.name = name) = K
    BY <1>1 DEF Pg!Where, OfName
  <2>2. Pg!Fail(t, "notfound").db = t /\ Pg!Ok(v, D).db = v
    BY ONLY TRUE DEF Pg!Fail, Pg!Ok
  <2>3. Pg!UpdateWhere(t, "users", LAMBDA u : u.name = name, LAMBDA u : [u EXCEPT !.hash = hash]) =
          IF D = {} THEN Pg!Fail(t, "notfound") ELSE Pg!Ok(v, D)
    BY <1>3, <1>4, <2>1 DEF Pg!UpdateWhere, Set
  <2> QED
    BY ONLY <1>1, <2>2, <2>3 DEF Pg!SetPasswordHash
<1>6. ASSUME NEW r, K = {r}
      PROVE  p = Pg!Ok(RowWrittenIn(t, r, r.role, r.disabled, hash), {})
  <2>1. IsUser(r)
    <3>1. r \in t.users
      BY <1>1, <1>6 DEF OfName
    <3> QED
      BY <3>1 DEF TablesInv, UsersInv
  <2>2. PICK n : n = RowWith(r, r.role, r.disabled, hash)
    OBVIOUS
  <2>3. D = {n}
    <3>1. PICK z : z = [r EXCEPT !.hash = hash]
      OBVIOUS
    <3>2. PICK ri, rn, rr, rd, rh : /\ ri = r.id /\ rn = r.name /\ rr = r.role
                                    /\ rd = r.disabled /\ rh = r.hash
      OBVIOUS
    <3>3. r = [id |-> ri, name |-> rn, role |-> rr, disabled |-> rd, hash |-> rh]
      BY ONLY <2>1, <3>2 DEF IsUser
    <3>4. z = [id |-> ri, name |-> rn, role |-> rr, disabled |-> rd, hash |-> hash]
      BY ONLY <3>1, <3>3
    <3>5. z = n
      BY ONLY <2>2, <3>2, <3>4 DEF RowWith
    <3> QED
      BY ONLY <1>3, <1>6, <3>1, <3>5
  <2>4. v = RowWrittenIn(t, r, r.role, r.disabled, hash)
    BY ONLY <1>4, <1>6, <2>2, <2>3 DEF RowWrittenIn
  <2> QED
    BY ONLY <1>5, <2>3, <2>4
<1>7. Step(t, p.db, f)
  <2>1. CASE K = {}
    <3>1. D = {}
      BY ONLY <1>3, <2>1
    <3>2. p.db = t
      BY ONLY <1>5, <3>1 DEF Pg!Ok
    <3> QED
      BY ONLY <3>2, TablesInv(t, f), SameTables
  <2>2. CASE K # {}
    <3>1. PICK r : K = {r} /\ r \in t.users
      BY ONLY <1>1, <1>2, <2>2 DEF OfName
    <3>2. PICK ro, di, u : ro = r.role /\ di = r.disabled /\ u = RowWrittenIn(t, r, ro, di, hash)
      OBVIOUS
    <3>3. p = Pg!Ok(u, {})
      BY ONLY <1>6, <3>1, <3>2
    <3>4. p.db = u
      BY ONLY <3>3 DEF Pg!Ok
    <3>5. f <= f
      BY ONLY f \in Nat
    <3>6. Step(t, RowWrittenIn(t, r, ro, di, hash), f)
      BY ONLY <3>1, <3>5, TablesInv(t, f), f \in Nat, RowWritten
    <3> QED
      BY ONLY <3>2, <3>4, <3>6
  <2> QED
    BY ONLY <2>1, <2>2
<1>8. ASSUME K # {}, NEW d, MemoryInv(d), View(d) = t
      PROVE  Agree(Mem!SetPasswordHash(d, name, hash), p)
  <2>1. PICK s, ph : s = d.users /\ ph = d.passwordHashes
    OBVIOUS
  <2>2. PICK J, i, m : /\ J = OfName(Rows(s), name) /\ i = PlaceOfName(s, name)
                       /\ m = Mem!SetPasswordHash(d, name, hash)
    OBVIOUS
  <2>3. UsersAre(s, ph, t.users)
    BY ONLY <1>8, <2>1, TablesInv(t, f), UsersHeld
  <2>4. K = UserRows(J, ph)
    BY ONLY <1>1, <2>2, <2>3, FoundRows DEF UsersAre
  <2>5. /\ J = {s[i]} /\ i \in DOMAIN s
        /\ UserRows(J, ph) = {UserOf(s[i], ph)}
    <3>1. \/ UserRows(J, ph) = {}
          \/ J = {s[i]} /\ i \in DOMAIN s /\ UserRows(J, ph) = {UserOf(s[i], ph)}
      BY ONLY <2>2, <2>3, UserPlace
    <3> QED
      BY ONLY <1>8, <2>4, <3>1
  <2>6. PICK z, r : z = s[i] /\ r = UserOf(z, ph)
    OBVIOUS
  <2>7. r.role = z.role /\ r.disabled = z.disabled
    BY ONLY <2>6, RowOfUser
  <2>8. z.name = name
    BY ONLY <2>2, <2>5, <2>6 DEF OfName
  <2>9. PICK ro, di, e, u : /\ ro = z.role /\ di = z.disabled
                            /\ e = UserWrittenIn(d, i, ro, di, hash)
                            /\ u = RowWrittenIn(t, r, ro, di, hash)
    OBVIOUS
  <2>10. i \in DOMAIN d.users /\ r = UserOf(d.users[i], d.passwordHashes)
    BY ONLY <2>1, <2>5, <2>6
  <2>11. m = Mem!Ok(e, {})
    <3>1. Set(d, "passwordHashes", Put(d.passwordHashes, d.users[i].name, hash)) =
            UserWrittenIn(d, i, d.users[i].role, d.users[i].disabled, hash)
      BY ONLY <1>8, <2>10, PartWritten
    <3>2. Set(d, "passwordHashes", Put(ph, name, hash)) = e
      BY ONLY <2>1, <2>6, <2>8, <2>9, <3>1
    <3>3. [d EXCEPT !.passwordHashes[name] = hash] = Set(d, "passwordHashes", Put(ph, name, hash))
      BY ONLY <2>1 DEF Set, Put
    <3> QED
      BY ONLY <2>2, <3>2, <3>3 DEF Mem!SetPasswordHash
  <2>12. MemoryInv(e) /\ View(e) = u
    <3>1. /\ MemoryInv(UserWrittenIn(d, i, ro, di, hash))
          /\ View(UserWrittenIn(d, i, ro, di, hash)) =
               RowWrittenIn(t, UserOf(d.users[i], d.passwordHashes), ro, di, hash)
      BY ONLY <1>8, <2>10, TablesInv(t, f), f \in Nat, UserWritten
    <3> QED
      BY ONLY <2>9, <2>10, <3>1
  <2>13. p = Pg!Ok(u, {})
    <3>1. K = {r}
      BY ONLY <2>4, <2>5, <2>6
    <3>2. p = Pg!Ok(RowWrittenIn(t, r, r.role, r.disabled, hash), {})
      BY ONLY <1>6, <3>1
    <3> QED
      BY ONLY <2>7, <2>9, <3>2
  <2> QED
    BY ONLY <2>2, <2>11, <2>12, <2>13, Agreement
<1> QED
  BY <1>1, <1>7, <1>8

\* BootstrapAdmin.
LEMMA BootstrapAdminCall ==
  ASSUME NEW t, NEW f \in Nat, TablesInv(t, f), NEW name \in Names, NEW hash
  PROVE  LET p == Pg!BootstrapAdmin(t, f, name, hash)
         IN  /\ p.err = "" /\ Step(t, p.db, f + 1)
             /\ \A d : MemoryInv(d) /\ View(d) = t =>
                  Agree(Mem!BootstrapAdmin(d, f, name, hash), p)
<1>1. PICK K, p : K = OfName(t.users, name) /\ p = Pg!BootstrapAdmin(t, f, name, hash)
  OBVIOUS
<1>2. \A r, q \in K : r = q
  BY <1>1 DEF TablesInv, UsersInv, OfName
<1>3. PICK D : D = {[r EXCEPT !.hash = Pg!Given(hash, @), !.role = "admin",
                              !.disabled = FALSE] : r \in K}
  OBVIOUS
<1>4. PICK v, a, b : /\ v = Set(t, "users", (t.users \ K) \cup D)
                     /\ a = Pg!UserRow(f, name, hash, "admin")
                     /\ b = Set(t, "users", t.users \cup {a})
  OBVIOUS
<1>5. p = Pg!Ok(IF K = {} THEN b ELSE IF D = {} THEN t ELSE v, {})
  <2>1. Pg!Where(t, "users", LAMBDA u : u.name = name) = K
    BY <1>1 DEF Pg!Where, OfName
  <2>2. Pg!Fail(t, "notfound").db = t /\ Pg!Ok(v, D).db = v /\ Pg!Ok(b, {a}).db = b
    BY ONLY TRUE DEF Pg!Fail, Pg!Ok
  <2>3. Pg!InsertRow(t, "users", a) = Pg!Ok(b, {a})
    BY ONLY <1>4 DEF Pg!InsertRow, Set
  <2>4. Pg!UpdateWhere(t, "users", LAMBDA u : u.name = name,
                       LAMBDA u : [u EXCEPT !.hash = Pg!Given(hash, @), !.role = "admin",
                                            !.disabled = FALSE]) =
          IF D = {} THEN Pg!Fail(t, "notfound") ELSE Pg!Ok(v, D)
    BY <1>3, <1>4, <2>1 DEF Pg!UpdateWhere, Set
  <2> QED
    BY ONLY <1>1, <1>4, <2>1, <2>2, <2>3, <2>4 DEF Pg!BootstrapAdmin, Pg!OnConflict
<1>6. ASSUME NEW r, K = {r}, NEW h, h = Pg!Given(hash, r.hash)
      PROVE  p = Pg!Ok(RowWrittenIn(t, r, "admin", FALSE, h), {})
  <2>1. IsUser(r)
    <3>1. r \in t.users
      BY <1>1, <1>6 DEF OfName
    <3> QED
      BY <3>1 DEF TablesInv, UsersInv
  <2>2. PICK n : n = RowWith(r, "admin", FALSE, h)
    OBVIOUS
  <2>3. D = {n}
    <3>1. PICK z : z = [r EXCEPT !.hash = Pg!Given(hash, @), !.role = "admin",
                                 !.disabled = FALSE]
      OBVIOUS
    <3>2. PICK ri, rn, rr, rd, rh : /\ ri = r.id /\ rn = r.name /\ rr = r.role
                                    /\ rd = r.disabled /\ rh = r.hash
      OBVIOUS
    <3>3. r = [id |-> ri, name |-> rn, role |-> rr, disabled |-> rd, hash |-> rh]
      BY ONLY <2>1, <3>2 DEF IsUser
    <3>4. z = [id |-> ri, name |-> rn, role |-> "admin", disabled |-> FALSE,
               hash |-> Pg!Given(hash, rh)]
      BY ONLY <3>1, <3>3
    <3>5. z = n
      BY ONLY <1>6, <2>2, <3>2, <3>4 DEF RowWith
    <3> QED
      BY ONLY <1>3, <1>6, <3>1, <3>5
  <2>4. v = RowWrittenIn(t, r, "admin", FALSE, h)
    BY ONLY <1>4, <1>6, <2>2, <2>3 DEF RowWrittenIn
  <2> QED
    BY ONLY <1>5, <1>6, <2>3, <2>4
<1>7. ASSUME K = {}
      PROVE  p = Pg!Ok(b, {})
  BY ONLY <1>5, <1>7
<1>8. IsUser(a) /\ a.id = f /\ a.name = name
  BY <1>4 DEF Pg!UserRow, IsUser
<1>9. Step(t, p.db, f + 1) /\ p.err = ""
  <2>1. CASE K = {}
    <3>1. p.db = b /\ p.err = ""
      <4>1. p = Pg!Ok(b, {})
        BY ONLY <1>7, <2>1
      <4> QED
        BY ONLY <4>1 DEF Pg!Ok
    <3>2. \A u \in t.users : u.name # a.name
      BY ONLY <1>1, <1>8, <2>1 DEF OfName
    <3>3. Step(t, b, f + 1)
      BY ONLY <1>4, <1>8, <3>2, TablesInv(t, f), f \in Nat, UserAdded
    <3> QED
      BY ONLY <3>1, <3>3
  <2>2. CASE K # {}
    <3>1. PICK r : K = {r} /\ r \in t.users
      BY ONLY <1>1, <1>2, <2>2 DEF OfName
    <3>2. PICK h, ro, di, u, g : /\ h = Pg!Given(hash, r.hash) /\ ro = "admin" /\ di = FALSE
                                 /\ u = RowWrittenIn(t, r, ro, di, h) /\ g = f + 1
      OBVIOUS
    <3>3. p = Pg!Ok(u, {})
      BY ONLY <1>6, <3>1, <3>2
    <3>4. p.db = u /\ p.err = ""
      BY ONLY <3>3 DEF Pg!Ok
    <3>5. g \in Nat /\ f <= g
      BY ONLY <3>2, f \in Nat
    <3>6. Step(t, RowWrittenIn(t, r, ro, di, h), g)
      BY ONLY <3>1, <3>5, TablesInv(t, f), f \in Nat, RowWritten
    <3> QED
      BY ONLY <3>2, <3>4, <3>6
  <2> QED
    BY ONLY <2>1, <2>2
<1>10. ASSUME NEW d, MemoryInv(d), View(d) = t
       PROVE  Agree(Mem!BootstrapAdmin(d, f, name, hash), p)
  <2>1. PICK s, ph : s = d.users /\ ph = d.passwordHashes
    OBVIOUS
  <2>2. PICK J, i, m : /\ J = OfName(Rows(s), name) /\ i = PlaceOfName(s, name)
                       /\ m = Mem!BootstrapAdmin(d, f, name, hash)
    OBVIOUS
  <2>3. UsersAre(s, ph, t.users)
    BY ONLY <1>10, <2>1, TablesInv(t, f), UsersHeld
  <2>4. K = UserRows(J, ph)
    BY ONLY <1>1, <2>2, <2>3, FoundRows DEF UsersAre
  <2>5. PICK z, x, w, h, q, c :
          /\ z = s[i] /\ x = [z EXCEPT !.disabled = FALSE, !.role = "admin"]
          /\ w = Mem!NewUser(f, name, "admin")
          /\ h = Mem!Given(hash, ph[name]) /\ q = Put(ph, name, h)
          /\ c = Set(d, "passwordHashes", q)
    OBVIOUS
  <2>6. c.users = s
    BY ONLY <1>10, <2>1, <2>5, SameUsers
  <2>7. m = Mem!Ok(IF i # 0 THEN Set(c, "users", Put(s, i, x))
                   ELSE Set(c, "users", Append(s, w)), {})
    <3>1. Mem!Has(d, "users", LAMBDA u : u.name = name) <=> i # 0
      BY <2>1, <2>2 DEF Mem!Has, Mem!SelectInSeq, PlaceOfName
    <3>2. [d EXCEPT !.passwordHashes[name] = Mem!Given(hash, @)] = c
      BY ONLY <2>1, <2>5 DEF Set, Put
    <3>3. Mem!Push(c, "users", w).db = Set(c, "users", Append(s, w))
      BY ONLY <2>6 DEF Mem!Push, Mem!Ok, Set
    <3>4. i # 0 => Mem!Change(c, "users", LAMBDA u : u.name = name,
                       LAMBDA u : [u EXCEPT !.disabled = FALSE, !.role = "admin"]).db =
                     Set(c, "users", Put(s, i, x))
      <4>1. [c EXCEPT !["users"][i] = x] = Set(c, "users", Put(c.users, i, x))
        BY ONLY PutInSlice
      <4>2. i # 0 => Mem!Change(c, "users", LAMBDA u : u.name = name,
                         LAMBDA u : [u EXCEPT !.disabled = FALSE, !.role = "admin"]) =
                       Mem!Ok([c EXCEPT !["users"][i] = x], {x})
        BY <2>2, <2>5, <2>6, ZenonT(60) DEF Mem!Change, Mem!SelectInSeq, PlaceOfName
      <4>3. Mem!Ok([c EXCEPT !["users"][i] = x], {x}).db = [c EXCEPT !["users"][i] = x]
        BY ONLY TRUE DEF Mem!Ok
      <4> QED
        BY ONLY <2>6, <4>1, <4>2, <4>3
    <3> QED
      BY <2>2, <2>5, <3>1, <3>2, <3>3, <3>4 DEF Mem!BootstrapAdmin
  <2>8. CASE i # 0
    <3>1. /\ J = {s[i]} /\ i \in DOMAIN s /\ (\A u \in J : IsPlain(u))
          /\ UserRows(J, ph) = {UserOf(s[i], ph)}
      BY ONLY <2>2, <2>3, <2>8, UserPlace
    <3>2. PICK r : r = UserOf(z, ph)
      OBVIOUS
    <3>3. z.name = name /\ IsPlain(z)
      <4>1. z \in J
        BY ONLY <2>5, <3>1
      <4> QED
        BY ONLY <2>2, <3>1, <4>1 DEF OfName
    <3>4. r.hash = ph[name]
      BY ONLY <3>2, <3>3, RowOfUser
    <3>5. PICK ro, di, u, e : /\ ro = "admin" /\ di = FALSE
                              /\ u = RowWrittenIn(t, r, ro, di, h)
                              /\ e = UserWrittenIn(d, i, ro, di, h)
      OBVIOUS
    <3>6. p = Pg!Ok(u, {})
      <4>1. K = {r}
        BY ONLY <2>4, <2>5, <3>1, <3>2
      <4>2. h = Pg!Given(hash, r.hash)
        BY ONLY <2>5, <3>4 DEF Mem!Given, Pg!Given
      <4> QED
        BY ONLY <1>6, <3>5, <4>1, <4>2
    <3>7. x = UserWith(z, ro, di)
      <4>1. PICK zi, zn, zr, zd : /\ zi = z.id /\ zn = z.name /\ zr = z.role /\ zd = z.disabled
        OBVIOUS
      <4>2. z = [id |-> zi, name |-> zn, role |-> zr, disabled |-> zd]
        BY ONLY <3>3, <4>1 DEF IsPlain
      <4>3. x = [id |-> zi, name |-> zn, role |-> "admin", disabled |-> FALSE]
        <5>1. x = [z EXCEPT !.disabled = FALSE, !.role = "admin"]
          BY ONLY <2>5
        <5> QED
          BY ONLY <4>2, <5>1
      <4> QED
        BY ONLY <3>5, <4>1, <4>3 DEF UserWith
    <3>8. m = Mem!Ok(e, {})
      <4>1. e = Set(c, "users", Put(s, i, x))
        BY ONLY <2>1, <2>5, <3>3, <3>5, <3>7 DEF UserWrittenIn, SetAccounts
      <4> QED
        BY ONLY <2>7, <2>8, <4>1
    <3>9. MemoryInv(e) /\ View(e) = u
      <4>1. i \in DOMAIN d.users /\ r = UserOf(d.users[i], d.passwordHashes)
        BY ONLY <2>1, <2>5, <3>1, <3>2
      <4>2. /\ MemoryInv(UserWrittenIn(d, i, ro, di, h))
            /\ View(UserWrittenIn(d, i, ro, di, h)) =
                 RowWrittenIn(t, UserOf(d.users[i], d.passwordHashes), ro, di, h)
        BY ONLY <1>10, <4>1, TablesInv(t, f), f \in Nat, UserWritten
      <4>3. e = UserWrittenIn(d, i, ro, di, h) /\ u = RowWrittenIn(t, r, ro, di, h)
        BY ONLY <3>5
      <4> QED
        BY ONLY <4>1, <4>2, <4>3
    <3> QED
      BY ONLY <2>2, <3>6, <3>8, <3>9, Agreement
  <2>9. CASE i = 0
    <3>1. J = {} /\ K = {}
      <4>1. \/ J = {} /\ i = 0 /\ UserRows(J, ph) = {}
            \/ i # 0
        BY ONLY <2>2, <2>3, UserPlace
      <4> QED
        BY ONLY <2>4, <2>9, <4>1
    <3>2. IsPlain(w) /\ w.name = name
      BY ONLY <2>5 DEF IsPlain, Mem!NewUser
    <3>3. PICK y, e : y = Append(s, w) /\ e = SetAccounts(d, y, q)
      OBVIOUS
    <3>4. AddedUser(s, ph, w, h, y, q)
      <4>1. \A u \in Rows(s) : u.name # w.name
        BY ONLY <2>2, <3>1, <3>2 DEF OfName
      <4> QED
        BY ONLY <2>5, <3>2, <3>3, <4>1, name \in Names DEF AddedUser
    <3>5. AccountsInv(y, q) /\ UsersOf(y, q) = t.users \cup {UserOf(w, q)}
      BY ONLY <2>3, <3>4, UserAdd
    <3>6. UserOf(w, q) = a
      <4>1. ph[name] = None /\ ph = [n \in Names |-> ph[n]]
        BY ONLY <2>2, <2>3, <3>1, name \in Names DEF UsersAre, AccountsInv, OfName
      <4>2. h = hash
        BY ONLY <2>5, <4>1 DEF Mem!Given
      <4>3. q[name] = hash
        BY ONLY <2>5, <4>1, <4>2, name \in Names, PutHash
      <4>4. UserOf(w, q) = [id |-> f, name |-> name, role |-> "admin", disabled |-> FALSE,
                            hash |-> hash]
        BY ONLY <2>5, <4>3 DEF UserOf, Mem!NewUser
      <4> QED
        BY ONLY <1>4, <4>4 DEF Pg!UserRow
    <3>7. MemoryInv(e) /\ View(e) = b
      <4>1. MemoryInv(SetAccounts(d, y, q))
            /\ View(SetAccounts(d, y, q)) = Set(View(d), "users", UsersOf(y, q))
        BY ONLY <1>10, <3>5, AccountsStep
      <4> QED
        BY ONLY <1>4, <1>10, <3>3, <3>5, <3>6, <4>1
    <3>8. m = Mem!Ok(e, {})
      BY ONLY <2>5, <2>7, <2>9, <3>3 DEF SetAccounts
    <3>9. p = Pg!Ok(b, {})
      BY ONLY <1>7, <3>1
    <3> QED
      BY ONLY <2>2, <3>7, <3>8, <3>9, Agreement
  <2> QED
    BY ONLY <2>8, <2>9
<1> QED
  BY <1>1, <1>9, <1>10
-----------------------------------------------------------------------------
(* Identities *)

\* The row of an identity, and the loop that looks for it.
OfIdentity(T, provider, subject) == {i \in T : i.provider = provider /\ i.subject = subject}
PlaceOfIdentity(s, provider, subject) ==
  LET I == {i \in 1 .. Len(s) : s[i].provider = provider /\ s[i].subject = subject}
  IN  IF I # {} THEN Mem!Min(I) ELSE 0
ByIdentity(T) == \A i, j \in T : i.provider = j.provider /\ i.subject = j.subject => i = j

\* The loop finds the row.
LEMMA IdentityPlace ==
  ASSUME NEW s, Slice(s), NEW T, Rows(s) = T, ByIdentity(T), NEW provider, NEW subject
  PROVE  /\ OfIdentity(T, provider, subject) \subseteq T
         /\ \A r, q \in OfIdentity(T, provider, subject) : r = q
         /\ PlaceOfIdentity(s, provider, subject) = Place(s, OfIdentity(T, provider, subject))
         /\ \/ /\ PlaceOfIdentity(s, provider, subject) = 0
               /\ OfIdentity(T, provider, subject) = {}
            \/ /\ PlaceOfIdentity(s, provider, subject) # 0
               /\ s[PlaceOfIdentity(s, provider, subject)] \in OfIdentity(T, provider, subject)
<1>1. PICK K : K = OfIdentity(T, provider, subject)
  OBVIOUS
<1>2. K \subseteq T /\ \A r, q \in K : r = q
  BY <1>1 DEF OfIdentity, ByIdentity
<1>3. {i \in 1 .. Len(s) : s[i].provider = provider /\ s[i].subject = subject} =
        {i \in 1 .. Len(s) : s[i] \in K}
  BY <1>1, SliceRows DEF OfIdentity
<1>4. PlaceOfIdentity(s, provider, subject) = Place(s, K)
  BY <1>3 DEF PlaceOfIdentity, Place
<1> QED
  BY <1>1, <1>2, <1>4, PlaceOf

\* The slice and the table hold the same identities.
LEMMA IdentitiesHeld ==
  ASSUME NEW t, NEW f, TablesInv(t, f), NEW d, MemoryInv(d), View(d) = t
  PROVE  /\ Slice(d.userIdentities) /\ Rows(d.userIdentities) = t.user_identities
         /\ ByIdentity(t.user_identities)
  BY ViewTables DEF MemoryInv, TablesInv, IdentitiesInv, ByIdentity

\* An identity is added, for a user that exists.
LEMMA IdentityAdded ==
  ASSUME NEW t, NEW f \in Nat, TablesInv(t, f), NEW x, IsIdentity(x),
         \E u \in t.users : u.id = x.user,
         OfIdentity(t.user_identities, x.provider, x.subject) = {}
  PROVE  Step(t, Set(t, "user_identities", t.user_identities \cup {x}), f)
<1>1. PICK X : X = t.user_identities \cup {x}
  OBVIOUS
<1>2. /\ \A i \in t.user_identities : IsIdentity(i) /\ \E u \in t.users : u.id = i.user
      /\ \A i, j \in t.user_identities :
           i.provider = j.provider /\ i.subject = j.subject => i = j
  BY DEF TablesInv, IdentitiesInv
<1>3. \A i \in t.user_identities : ~ (i.provider = x.provider /\ i.subject = x.subject)
  BY DEF OfIdentity
<1>4. IdentitiesInv(X, t.users)
  BY <1>1, <1>2, <1>3 DEF IdentitiesInv
<1>5. \A i \in t.user_identities, j \in X :
        i.provider = j.provider /\ i.subject = j.subject => i.user = j.user
  BY <1>1, <1>2, <1>3
<1> QED
  BY ONLY <1>1, <1>4, <1>5, TablesInv(t, f), IdentitiesTable

\* Identities are deleted.
LEMMA IdentitiesDeleted ==
  ASSUME NEW t, NEW f \in Nat, TablesInv(t, f), NEW X, X \subseteq t.user_identities
  PROVE  Step(t, Set(t, "user_identities", X), f)
<1>1. /\ \A i \in t.user_identities : IsIdentity(i) /\ \E u \in t.users : u.id = i.user
      /\ \A i, j \in t.user_identities :
           i.provider = j.provider /\ i.subject = j.subject => i = j
  BY DEF TablesInv, IdentitiesInv
<1>2. IdentitiesInv(X, t.users)
  BY <1>1 DEF IdentitiesInv
<1>3. \A i \in t.user_identities, j \in X :
        i.provider = j.provider /\ i.subject = j.subject => i.user = j.user
  BY <1>1
<1> QED
  BY ONLY <1>2, <1>3, TablesInv(t, f), IdentitiesTable

\* An identity is changed, key and user apart.
LEMMA IdentityChanged ==
  ASSUME NEW t, NEW f \in Nat, TablesInv(t, f), NEW provider, NEW subject, NEW N,
         \A r \in OfIdentity(t.user_identities, provider, subject) :
           /\ IsIdentity(N[r]) /\ N[r].provider = provider /\ N[r].subject = subject
           /\ N[r].user = r.user
  PROVE  /\ \A r \in OfIdentity(t.user_identities, provider, subject) :
              N[r] \notin t.user_identities \ OfIdentity(t.user_identities, provider, subject)
         /\ Step(t, PgUpdate(t, "user_identities",
                             OfIdentity(t.user_identities, provider, subject), N).db, f)
<1>1. /\ \A i \in t.user_identities : IsIdentity(i) /\ \E u \in t.users : u.id = i.user
      /\ \A i, j \in t.user_identities :
           i.provider = j.provider /\ i.subject = j.subject => i = j
  BY DEF TablesInv, IdentitiesInv
<1>2. PICK K : K = OfIdentity(t.user_identities, provider, subject)
  OBVIOUS
<1>3. \A r \in K : N[r] \notin t.user_identities \ K
  BY <1>2 DEF OfIdentity
<1>4. PICK X : X = (t.user_identities \ K) \cup {N[r] : r \in K}
  OBVIOUS
<1>5. \A r \in K : /\ IsIdentity(N[r]) /\ N[r].provider = provider /\ N[r].subject = subject
                   /\ N[r].user = r.user
  BY <1>2
<1>6. \A r \in t.user_identities : r \in K <=> r.provider = provider /\ r.subject = subject
  BY <1>2 DEF OfIdentity
<1>7. \A r, q \in K : r = q
  BY <1>1, <1>2 DEF OfIdentity
<1>8. K \subseteq t.user_identities
  BY <1>2 DEF OfIdentity
<1>9. IdentitiesInv(X, t.users)
  <2>1. \A y \in X : IsIdentity(y) /\ \E u \in t.users : u.id = y.user
    BY <1>1, <1>4, <1>5, <1>8
  <2>2. \A y, z \in X : y.provider = z.provider /\ y.subject = z.subject => y = z
    BY <1>1, <1>4, <1>5, <1>6, <1>7
  <2> QED
    BY <2>1, <2>2 DEF IdentitiesInv
<1>10. \A i \in t.user_identities, j \in X :
         i.provider = j.provider /\ i.subject = j.subject => i.user = j.user
  BY <1>1, <1>4, <1>5, <1>6, <1>7
<1>11. Step(t, Set(t, "user_identities", X), f)
  BY ONLY <1>9, <1>10, TablesInv(t, f), IdentitiesTable
<1>12. \/ PgUpdate(t, "user_identities", K, N).db = t
       \/ PgUpdate(t, "user_identities", K, N).db = Set(t, "user_identities", X)
  BY <1>4, UpdateEffect
<1> QED
  BY <1>2, <1>3, <1>11, <1>12, SameTables

\* A reply without its rows.
NoRows(m) == [m EXCEPT !.rows = {}]
IsReply(m) == m = [err |-> m.err, rows |-> m.rows, db |-> m.db]

\* Replies agree without their rows.
LEMMA NoRowsAgree ==
  ASSUME NEW m, NEW p, IsReply(m), IsReply(p)
  PROVE  NoRows(p).db = p.db /\ (Agree(m, p) => Agree(NoRows(m), NoRows(p)))
<1>1. PICK me, mr, md, pe, pr, pd : /\ me = m.err /\ mr = m.rows /\ md = m.db
                                    /\ pe = p.err /\ pr = p.rows /\ pd = p.db
  OBVIOUS
<1>2. /\ m = [err |-> me, rows |-> mr, db |-> md]
      /\ p = [err |-> pe, rows |-> pr, db |-> pd]
  BY ONLY <1>1, IsReply(m), IsReply(p) DEF IsReply
<1>3. PICK n, q : n = NoRows(m) /\ q = NoRows(p)
  OBVIOUS
<1>4. n = [err |-> me, rows |-> {}, db |-> md] /\ q = [err |-> pe, rows |-> {}, db |-> pd]
  BY ONLY <1>2, <1>3, NewRows DEF NoRows
<1>5. /\ n.err = me /\ n.rows = {} /\ n.db = md
      /\ q.err = pe /\ q.rows = {} /\ q.db = pd
  BY ONLY <1>4
<1>6. Agree(m, p) => Agree(n, q)
  BY ONLY <1>1, <1>5 DEF Agree, SameReply
<1> QED
  BY ONLY <1>1, <1>3, <1>5, <1>6

\* The replies of a change.
LEMMA ChangeReplies ==
  ASSUME NEW d, NEW n, NEW t, NEW p, NEW K, NEW N
  PROVE  IsReply(MemChange(d, n, K, N)) /\ IsReply(PgUpdate(t, p, K, N))
<1>1. \A x, R, e : /\ IsReply(Mem!Ok(x, R)) /\ IsReply(Mem!Fail(x, e))
                   /\ IsReply(Pg!Ok(x, R)) /\ IsReply(Pg!Fail(x, e))
  BY ONLY TRUE DEF IsReply, Mem!Ok, Mem!Fail, Pg!Ok, Pg!Fail
<1> QED
  BY ONLY <1>1 DEF MemChange, PgUpdate

\* GetUserIDByIdentity.
LEMMA GetUserIDByIdentityCall ==
  ASSUME NEW t, NEW f \in Nat, TablesInv(t, f), NEW provider, NEW subject
  PROVE  /\ Step(t, Pg!GetUserIDByIdentity(t, provider, subject).db, f)
         /\ \A d : MemoryInv(d) /\ View(d) = t =>
              Agree(Mem!GetUserIDByIdentity(d, provider, subject),
                    Pg!GetUserIDByIdentity(t, provider, subject))
<1>1. PICK K, Q : /\ K = OfIdentity(t.user_identities, provider, subject)
                  /\ Q = {[user |-> i.user] : i \in K}
  OBVIOUS
<1>2. Pg!GetUserIDByIdentity(t, provider, subject) = Pg!Ok(t, Q)
  <2>1. Pg!Where(t, "user_identities",
                 LAMBDA i : i.provider = provider /\ i.subject = subject) = K
    BY <1>1 DEF Pg!Where, OfIdentity
  <2> QED
    BY <1>1, <2>1 DEF Pg!GetUserIDByIdentity
<1>3. Pg!Ok(t, Q).db = t
  BY ONLY TRUE DEF Pg!Ok
<1>4. ASSUME NEW d, MemoryInv(d), View(d) = t
      PROVE  Agree(Mem!GetUserIDByIdentity(d, provider, subject),
                   Pg!GetUserIDByIdentity(t, provider, subject))
  <2>1. PICK s, i, T : /\ s = d.userIdentities /\ i = PlaceOfIdentity(s, provider, subject)
                       /\ T = t.user_identities
    OBVIOUS
  <2>2. Slice(s) /\ Rows(s) = T /\ ByIdentity(T)
    BY ONLY <1>4, <2>1, TablesInv(t, f), IdentitiesHeld
  <2>3. /\ \A r, q \in K : r = q
        /\ (i = 0 /\ K = {}) \/ (i # 0 /\ s[i] \in K)
    BY ONLY <1>1, <2>1, <2>2, IdentityPlace
  <2>4. K = IF i = 0 THEN {} ELSE {s[i]}
    BY ONLY <2>3
  <2>5. Mem!First(d, "userIdentities",
                  LAMBDA r : r.provider = provider /\ r.subject = subject) =
          IF i = 0 THEN Mem!Fail(d, "notfound") ELSE Mem!Ok(d, {s[i]})
    BY <2>1 DEF Mem!First, Mem!SelectInSeq, PlaceOfIdentity
  <2>6. Mem!First(d, "userIdentities",
                  LAMBDA r : r.provider = provider /\ r.subject = subject).rows = K
    <3>1. Mem!Fail(d, "notfound").rows = {} /\ Mem!Ok(d, {s[i]}).rows = {s[i]}
      BY ONLY TRUE DEF Mem!Fail, Mem!Ok
    <3> QED
      BY ONLY <2>4, <2>5, <3>1
  <2>7. Mem!GetUserIDByIdentity(d, provider, subject) = Mem!Ok(d, Q)
    BY <1>1, <2>6 DEF Mem!GetUserIDByIdentity
  <2> QED
    BY ONLY <1>2, <1>4, <2>7, Agreement
<1> QED
  BY <1>2, <1>3, <1>4, SameTables

\* TouchIdentityLogin.
LEMMA TouchIdentityLoginCall ==
  ASSUME NEW t, NEW f \in Nat, TablesInv(t, f), NEW provider, NEW subject
  PROVE  /\ Step(t, Pg!TouchIdentityLogin(t, provider, subject).db, f)
         /\ \A d : MemoryInv(d) /\ View(d) = t =>
              Agree(Mem!TouchIdentityLogin(d, provider, subject),
                    Pg!TouchIdentityLogin(t, provider, subject))
<1>1. PICK K, N, p : /\ K = OfIdentity(t.user_identities, provider, subject)
                     /\ N = [r \in K |-> [r EXCEPT !.seen = TRUE]]
                     /\ p = PgUpdate(t, "user_identities", K, N)
  OBVIOUS
<1>2. Pg!TouchIdentityLogin(t, provider, subject) = NoRows(p)
  <2>1. {[r EXCEPT !.seen = TRUE] : r \in K} = {N[r] : r \in K}
    BY <1>1
  <2>2. {N[r] : r \in K} = {} <=> K = {}
    OBVIOUS
  <2>3. Pg!Where(t, "user_identities",
                 LAMBDA i : i.provider = provider /\ i.subject = subject) = K
    BY <1>1 DEF Pg!Where, OfIdentity
  <2>4. Pg!UpdateWhere(t, "user_identities",
                       LAMBDA i : i.provider = provider /\ i.subject = subject,
                       LAMBDA i : [i EXCEPT !.seen = TRUE]) = p
    BY <1>1, <2>1, <2>2, <2>3 DEF Pg!UpdateWhere, PgUpdate, Set
  <2> QED
    BY ONLY <2>4 DEF Pg!TouchIdentityLogin, NoRows
<1>3. \A r \in K : /\ IsIdentity(N[r]) /\ N[r].provider = provider /\ N[r].subject = subject
                   /\ N[r].user = r.user
  <2> SUFFICES ASSUME NEW r \in K
               PROVE  /\ IsIdentity(N[r]) /\ N[r].provider = provider
                      /\ N[r].subject = subject /\ N[r].user = r.user
    OBVIOUS
  <2>1. IsIdentity(r) /\ r.provider = provider /\ r.subject = subject
    BY <1>1 DEF TablesInv, IdentitiesInv, OfIdentity
  <2>2. PICK n, ru, rs : n = [r EXCEPT !.seen = TRUE] /\ ru = r.user /\ rs = r.seen
    OBVIOUS
  <2>3. r = [provider |-> provider, subject |-> subject, user |-> ru, seen |-> rs]
    BY ONLY <2>1, <2>2 DEF IsIdentity
  <2>4. n = [provider |-> provider, subject |-> subject, user |-> ru, seen |-> TRUE]
    <3>1. n = [r EXCEPT !.seen = TRUE]
      BY ONLY <2>2
    <3> QED
      BY ONLY <2>3, <3>1
  <2>5. N[r] = n
    BY ONLY <1>1, <2>2, r \in K
  <2>6. IsIdentity(n) /\ n.provider = provider /\ n.subject = subject /\ n.user = ru
    BY ONLY <2>4 DEF IsIdentity
  <2> QED
    BY ONLY <2>2, <2>5, <2>6
<1>4. (\A r \in K : N[r] \notin t.user_identities \ K) /\ Step(t, p.db, f)
  <2>1. K = OfIdentity(t.user_identities, provider, subject) /\ p =
            PgUpdate(t, "user_identities", K, N)
    BY ONLY <1>1
  <2> QED
    BY ONLY <1>3, <2>1, TablesInv(t, f), f \in Nat, IdentityChanged
<1>5. IsReply(p) /\ NoRows(p).db = p.db
  <2>1. IsReply(p)
    BY ONLY <1>1, ChangeReplies
  <2> QED
    BY ONLY <2>1, NoRowsAgree
<1>6. ASSUME NEW d, MemoryInv(d), View(d) = t
      PROVE  Agree(Mem!TouchIdentityLogin(d, provider, subject), NoRows(p))
  <2>1. PICK s, i, T : /\ s = d.userIdentities /\ i = PlaceOfIdentity(s, provider, subject)
                       /\ T = t.user_identities
    OBVIOUS
  <2>2. Slice(s) /\ Rows(s) = T /\ ByIdentity(T)
    BY ONLY <1>6, <2>1, TablesInv(t, f), IdentitiesHeld
  <2>3. /\ K \subseteq T /\ (\A r, q \in K : r = q)
        /\ i = Place(s, K) /\ (i # 0 => s[i] \in K)
    BY ONLY <1>1, <2>1, <2>2, IdentityPlace
  <2>4. PICK x, m : x = [s[i] EXCEPT !.seen = TRUE] /\ m = MemChange(d, "userIdentities", K, N)
    OBVIOUS
  <2>5. i # 0 => N[s[i]] = x
    BY <1>1, <2>3, <2>4
  <2>6. Mem!Change(d, "userIdentities",
                   LAMBDA r : r.provider = provider /\ r.subject = subject,
                   LAMBDA r : [r EXCEPT !.seen = TRUE]) =
          IF i = 0 THEN Mem!Fail(d, "notfound")
          ELSE Mem!Ok([d EXCEPT !["userIdentities"][i] = x], {x})
    BY <2>1, <2>4 DEF Mem!Change, Mem!SelectInSeq, PlaceOfIdentity
  <2>7. [d EXCEPT !["userIdentities"][i] = x] = Set(d, "userIdentities", Put(s, i, x))
    BY ONLY <2>1 DEF Set, Put
  <2>8. Mem!Change(d, "userIdentities",
                   LAMBDA r : r.provider = provider /\ r.subject = subject,
                   LAMBDA r : [r EXCEPT !.seen = TRUE]) = m
    BY <2>1, <2>3, <2>4, <2>5, <2>6, <2>7 DEF MemChange
  <2>9. Mem!TouchIdentityLogin(d, provider, subject) = NoRows(m)
    BY ONLY <2>8 DEF Mem!TouchIdentityLogin, NoRows
  <2>10. Agree(m, p)
    BY <1>1, <1>4, <1>6, <2>1, <2>3, <2>4, KeyedAgrees DEF Paired
  <2>11. IsReply(m)
    BY ONLY <2>4, ChangeReplies
  <2> QED
    BY ONLY <1>5, <2>9, <2>10, <2>11, NoRowsAgree
<1> QED
  BY <1>2, <1>4, <1>5, <1>6

\* ListUserIdentities.
LEMMA ListUserIdentitiesCall ==
  ASSUME NEW t, NEW f \in Nat, TablesInv(t, f), NEW user
  PROVE  /\ Step(t, Pg!ListUserIdentities(t, user).db, f)
         /\ \A d : MemoryInv(d) /\ View(d) = t =>
              Agree(Mem!ListUserIdentities(d, user), Pg!ListUserIdentities(t, user))
<1>1. PICK T, K : T = t.user_identities /\ K = {i \in T : i.user = user}
  OBVIOUS
<1>2. Pg!ListUserIdentities(t, user) = Pg!Ok(t, K)
  BY <1>1 DEF Pg!ListUserIdentities, Pg!Where
<1>3. Pg!Ok(t, K).db = t
  BY ONLY TRUE DEF Pg!Ok
<1>4. ASSUME NEW d, MemoryInv(d), View(d) = t
      PROVE  Agree(Mem!ListUserIdentities(d, user), Pg!ListUserIdentities(t, user))
  <2>1. PICK s : s = d.userIdentities
    OBVIOUS
  <2>2. Rows(s) = T
    BY ONLY <1>1, <1>4, <2>1, TablesInv(t, f), IdentitiesHeld
  <2>3. Mem!ToSet(s) = T
    BY ONLY <2>2 DEF Mem!ToSet, Rows
  <2>4. Mem!ListUserIdentities(d, user) = Mem!Ok(d, K)
    BY <1>1, <2>1, <2>3 DEF Mem!ListUserIdentities, Mem!All
  <2> QED
    BY ONLY <1>2, <1>4, <2>4, Agreement
<1> QED
  BY <1>2, <1>3, <1>4, SameTables

\* The identity of a user, and the loop that looks for it.
OfLink(T, user, provider, subject) ==
  {i \in T : i.user = user /\ i.provider = provider /\ i.subject = subject}
PlaceOfLink(s, user, provider, subject) ==
  LET I == {i \in 1 .. Len(s) : /\ s[i].user = user
                                /\ s[i].provider = provider /\ s[i].subject = subject}
  IN  IF I # {} THEN Mem!Min(I) ELSE 0

\* UnlinkIdentity.
LEMMA UnlinkIdentityCall ==
  ASSUME NEW t, NEW f \in Nat, TablesInv(t, f), NEW user, NEW provider, NEW subject
  PROVE  /\ Step(t, Pg!UnlinkIdentity(t, user, provider, subject).db, f)
         /\ \A d : MemoryInv(d) /\ View(d) = t =>
              Agree(Mem!UnlinkIdentity(d, user, provider, subject),
                    Pg!UnlinkIdentity(t, user, provider, subject))
<1>1. PICK T, K, p : /\ T = t.user_identities /\ K = OfLink(T, user, provider, subject)
                     /\ p = PgDelete(t, "user_identities", K)
  OBVIOUS
<1>2. Pg!UnlinkIdentity(t, user, provider, subject) = p
  BY <1>1 DEF Pg!UnlinkIdentity, Pg!DeleteWhere, Pg!Where, PgDelete, Set, OfLink
<1>3. K \subseteq T /\ \A r, q \in K : r = q
  BY <1>1 DEF OfLink, TablesInv, IdentitiesInv
<1>4. Step(t, p.db, f)
  <2>1. PICK X : X = T \ K
    OBVIOUS
  <2>2. p = IF K = {} THEN Pg!Fail(t, "notfound")
            ELSE Pg!Ok(Set(t, "user_identities", X), {})
    BY <1>1, <2>1 DEF PgDelete
  <2>3. p.db = t \/ p.db = Set(t, "user_identities", X)
    BY ONLY <2>2 DEF Pg!Ok, Pg!Fail
  <2>4. Step(t, Set(t, "user_identities", X), f)
    <3>1. X \subseteq t.user_identities
      BY ONLY <1>1, <2>1
    <3> QED
      BY ONLY <3>1, TablesInv(t, f), f \in Nat, IdentitiesDeleted
  <2> QED
    BY ONLY <2>3, <2>4, TablesInv(t, f), SameTables
<1>5. ASSUME NEW d, MemoryInv(d), View(d) = t
      PROVE  Agree(Mem!UnlinkIdentity(d, user, provider, subject), p)
  <2>1. PICK s, i : s = d.userIdentities /\ i = PlaceOfLink(s, user, provider, subject)
    OBVIOUS
  <2>2. Slice(s) /\ Rows(s) = T
    BY ONLY <1>1, <1>5, <2>1, TablesInv(t, f), IdentitiesHeld
  <2>3. i = Place(s, K)
    <3>1. {j \in 1 .. Len(s) : /\ s[j].user = user
                               /\ s[j].provider = provider /\ s[j].subject = subject} =
            {j \in 1 .. Len(s) : s[j] \in K}
      BY <1>1, <2>2, SliceRows DEF OfLink
    <3> QED
      BY <2>1, <3>1 DEF PlaceOfLink, Place
  <2>4. Mem!UnlinkIdentity(d, user, provider, subject) =
          IF i = 0 THEN Mem!Fail(d, "notfound")
          ELSE Mem!Ok([d EXCEPT !["userIdentities"] = Mem!RemoveAt(@, i)], {})
    BY <2>1 DEF Mem!UnlinkIdentity, Mem!Cut, Mem!SelectInSeq, PlaceOfLink
  <2>5. Mem!UnlinkIdentity(d, user, provider, subject) = MemCut(d, "userIdentities", K)
    BY <2>1, <2>3, <2>4 DEF MemCut, Set
  <2>6. K \subseteq t["user_identities"] /\ Paired("userIdentities", "user_identities")
    BY <1>1, <1>3 DEF Paired
  <2>7. Agree(MemCut(d, "userIdentities", K), PgDelete(t, "user_identities", K))
    BY ONLY <1>3, <1>5, <2>6, CutAgrees
  <2> QED
    BY ONLY <1>1, <2>5, <2>7
<1> QED
  BY <1>2, <1>4, <1>5

\* The insert of an identity.
LEMMA InsertedIdentity ==
  ASSUME NEW t, NEW provider, NEW subject, NEW user
  PROVE  Pg!InsertIdentity(t, provider, subject, user) =
           IF OfIdentity(t.user_identities, provider, subject) # {}
           THEN Pg!Fail(t, "conflict")
           ELSE Pg!Ok(Set(t, "user_identities",
                          t.user_identities \cup {Pg!IdentityRow(provider, subject, user)}), {})
<1>1. PICK x, v : /\ x = Pg!IdentityRow(provider, subject, user)
                  /\ v = Set(t, "user_identities", t.user_identities \cup {x})
  OBVIOUS
<1>2. Pg!InsertRow(t, "user_identities", x) = Pg!Ok(v, {x})
  BY ONLY <1>1 DEF Pg!InsertRow, Set
<1>3. Pg!Ok(v, {x}).db = v
  BY ONLY TRUE DEF Pg!Ok
<1>4. (\E i \in t.user_identities : i.provider = provider /\ i.subject = subject) <=>
        OfIdentity(t.user_identities, provider, subject) # {}
  BY ONLY TRUE DEF OfIdentity
<1>5. Pg!InsertIdentity(t, provider, subject, user) =
        IF OfIdentity(t.user_identities, provider, subject) # {}
        THEN Pg!Fail(t, "conflict") ELSE Pg!Ok(v, {})
  BY ONLY <1>1, <1>2, <1>3, <1>4 DEF Pg!InsertIdentity
<1> QED
  BY ONLY <1>1, <1>5

\* LinkIdentityToUser.
LEMMA LinkIdentityToUserCall ==
  ASSUME NEW t, NEW f \in Nat, TablesInv(t, f), NEW user, NEW provider, NEW subject
  PROVE  /\ Step(t, Pg!LinkIdentityToUser(t, user, provider, subject).db, f)
         /\ \A d : MemoryInv(d) /\ View(d) = t =>
              Agree(Mem!LinkIdentityToUser(d, user, provider, subject),
                    Pg!LinkIdentityToUser(t, user, provider, subject))
<1>1. PICK L, T, K, x, v, p : /\ L = OfId(t.users, user) /\ T = t.user_identities
                              /\ K = OfIdentity(T, provider, subject)
                              /\ x = Pg!IdentityRow(provider, subject, user)
                              /\ v = Set(t, "user_identities", T \cup {x})
                              /\ p = Pg!LinkIdentityToUser(t, user, provider, subject)
  OBVIOUS
<1>2. p = IF L = {} THEN Pg!Fail(t, "notfound")
          ELSE IF K # {} THEN Pg!Fail(t, "conflict") ELSE Pg!Ok(v, {})
  <2>1. (\A u \in t.users : u.id # user) <=> L = {}
    BY ONLY <1>1 DEF OfId
  <2>2. Pg!InsertIdentity(t, provider, subject, user) =
          IF OfIdentity(t.user_identities, provider, subject) # {}
          THEN Pg!Fail(t, "conflict")
          ELSE Pg!Ok(Set(t, "user_identities",
                         t.user_identities \cup {Pg!IdentityRow(provider, subject, user)}), {})
    BY ONLY InsertedIdentity
  <2>3. Pg!InsertIdentity(t, provider, subject, user) =
          IF K # {} THEN Pg!Fail(t, "conflict") ELSE Pg!Ok(v, {})
    BY ONLY <1>1, <2>2
  <2> QED
    BY ONLY <1>1, <2>1, <2>3 DEF Pg!LinkIdentityToUser
<1>3. IsIdentity(x) /\ x.provider = provider /\ x.subject = subject /\ x.user = user
  BY ONLY <1>1 DEF Pg!IdentityRow, IsIdentity
<1>4. L # {} /\ K = {} => Step(t, v, f)
  <2> SUFFICES ASSUME L # {}, K = {} PROVE Step(t, v, f)
    OBVIOUS
  <2>1. \E u \in t.users : u.id = x.user
    BY ONLY <1>1, <1>3, L # {} DEF OfId
  <2>2. OfIdentity(t.user_identities, x.provider, x.subject) = {}
    BY ONLY <1>1, <1>3, K = {}
  <2>3. Step(t, Set(t, "user_identities", t.user_identities \cup {x}), f)
    BY ONLY <1>3, <2>1, <2>2, TablesInv(t, f), f \in Nat, IdentityAdded
  <2> QED
    BY ONLY <1>1, <2>3
<1>5. Step(t, p.db, f)
  <2>1. (L # {} /\ K = {} /\ p.db = v) \/ p.db = t
    BY ONLY <1>2, Replies
  <2> QED
    BY ONLY <1>4, <2>1, TablesInv(t, f), SameTables
<1>6. ASSUME NEW d, MemoryInv(d), View(d) = t
      PROVE  Agree(Mem!LinkIdentityToUser(d, user, provider, subject), p)
  <2>1. PICK us, ph, s : us = d.users /\ ph = d.passwordHashes /\ s = d.userIdentities
    OBVIOUS
  <2>2. PICK J, j, i, m : /\ J = OfId(Rows(us), user) /\ j = PlaceOfId(us, user)
                          /\ i = PlaceOfIdentity(s, provider, subject)
                          /\ m = Mem!LinkIdentityToUser(d, user, provider, subject)
    OBVIOUS
  <2>3. UsersAre(us, ph, t.users)
    BY ONLY <1>6, <2>1, TablesInv(t, f), UsersHeld
  <2>4. j = 0 <=> L = {}
    <3>1. L = UserRows(J, ph)
      BY ONLY <1>1, <2>2, <2>3, FoundRows DEF UsersAre
    <3>2. (j = 0 /\ UserRows(J, ph) = {}) \/ (j # 0 /\ UserRows(J, ph) = {UserOf(us[j], ph)})
      BY ONLY <2>2, <2>3, UserPlace
    <3> QED
      BY ONLY <3>1, <3>2
  <2>5. Slice(s) /\ Rows(s) = T /\ ByIdentity(T)
    BY ONLY <1>1, <1>6, <2>1, TablesInv(t, f), IdentitiesHeld
  <2>6. i = 0 <=> K = {}
    <3>1. \/ i = 0 /\ OfIdentity(T, provider, subject) = {}
          \/ i # 0 /\ s[i] \in OfIdentity(T, provider, subject)
      BY ONLY <2>2, <2>5, IdentityPlace
    <3> QED
      BY ONLY <1>1, <3>1
  <2>7. PICK e : e = Set(d, "userIdentities", Append(s, x))
    OBVIOUS
  <2>8. m = IF j = 0 THEN Mem!Fail(d, "notfound")
            ELSE IF i # 0 THEN Mem!Fail(d, "conflict") ELSE Mem!Ok(e, {})
    <3>1. Mem!Has(d, "users", LAMBDA u : u.id = user) <=> j # 0
      BY <2>1, <2>2 DEF Mem!Has, Mem!SelectInSeq, PlaceOfId
    <3>2. Mem!Has(d, "userIdentities",
                  LAMBDA r : r.provider = provider /\ r.subject = subject) <=> i # 0
      BY <2>1, <2>2 DEF Mem!Has, Mem!SelectInSeq, PlaceOfIdentity
    <3>3. Mem!NewIdentity(provider, subject, user) = x
      BY ONLY <1>1 DEF Mem!NewIdentity, Pg!IdentityRow
    <3>4. Mem!Push(d, "userIdentities", x) = Mem!Ok(e, {x})
      BY ONLY <2>1, <2>7 DEF Mem!Push, Set
    <3>5. Mem!Ok(e, {x}).db = e
      BY ONLY TRUE DEF Mem!Ok
    <3> QED
      BY ONLY <2>2, <3>1, <3>2, <3>3, <3>4, <3>5 DEF Mem!LinkIdentityToUser
  <2>9. CASE j = 0
    <3>1. m = Mem!Fail(d, "notfound") /\ p = Pg!Fail(t, "notfound")
      BY ONLY <1>2, <2>4, <2>8, <2>9
    <3> QED
      BY ONLY <1>6, <2>2, <3>1, Agreement
  <2>10. CASE j # 0 /\ i # 0
    <3>1. m = Mem!Fail(d, "conflict") /\ p = Pg!Fail(t, "conflict")
      BY ONLY <1>2, <2>4, <2>6, <2>8, <2>10
    <3> QED
      BY ONLY <1>6, <2>2, <3>1, Agreement
  <2>11. CASE j # 0 /\ i = 0
    <3>1. m = Mem!Ok(e, {}) /\ p = Pg!Ok(v, {})
      BY ONLY <1>2, <2>4, <2>6, <2>8, <2>11
    <3>2. MemoryInv(e) /\ View(e) = v
      <4>1. x \notin Rows(s)
        BY ONLY <1>1, <1>3, <2>5, <2>6, <2>11 DEF OfIdentity
      <4>2. PICK y : y = Append(s, x)
        OBVIOUS
      <4>3. Slice(y) /\ Rows(y) = Rows(s) \cup {x}
        BY ONLY <2>5, <4>1, <4>2, AppendSlice
      <4>4. /\ MemoryInv(Set(d, "userIdentities", y))
            /\ View(Set(d, "userIdentities", y)) = Set(View(d), "user_identities", Rows(y))
        BY ONLY <1>6, <4>3, ViewStep
      <4> QED
        BY ONLY <1>1, <1>6, <2>5, <2>7, <4>2, <4>3, <4>4
    <3> QED
      BY ONLY <2>2, <3>1, <3>2, Agreement
  <2> QED
    BY ONLY <2>9, <2>10, <2>11
<1> QED
  BY <1>1, <1>5, <1>6

\* The other tables and slices when the users are replaced.
LEMMA BesideUsers ==
  ASSUME NEW t, IsTables(t), NEW d, IsMemory(d), NEW X
  PROVE  /\ Set(t, "users", X).user_identities = t.user_identities
         /\ Set(t, "users", X).users = X
         /\ Set(d, "users", X).userIdentities = d.userIdentities
<1>1. Set(t, "users", X).user_identities = t.user_identities /\ Set(t, "users", X).users = X
  BY ONLY IsTables(t) DEF IsTables, Tables, Set
<1>2. Set(d, "users", X).userIdentities = d.userIdentities
  BY ONLY IsMemory(d) DEF IsMemory, Memory, Set
<1> QED
  BY ONLY <1>1, <1>2

\* CreateUserAndIdentity.
LEMMA CreateUserAndIdentityCall ==
  ASSUME NEW t, NEW f \in Nat, TablesInv(t, f), NEW name \in Names, NEW role,
         NEW provider, NEW subject
  PROVE  LET p == Pg!CreateUserAndIdentity(t, f, name, role, provider, subject)
         IN  /\ Step(t, p.db, IF p.err = "" THEN f + 1 ELSE f)
             /\ \A d : MemoryInv(d) /\ View(d) = t =>
                  Agree(Mem!CreateUserAndIdentity(d, f, name, role, provider, subject), p)
<1>1. PICK L, T, K, p : /\ L = OfName(t.users, name) /\ T = t.user_identities
                        /\ K = OfIdentity(T, provider, subject)
                        /\ p = Pg!CreateUserAndIdentity(t, f, name, role, provider, subject)
  OBVIOUS
<1>2. PICK r, w, x, u, v : /\ r = Pg!UserRow(f, name, None, role)
                           /\ w = Mem!NewUser(f, name, role)
                           /\ x = Pg!IdentityRow(provider, subject, f)
                           /\ u = Set(t, "users", t.users \cup {r})
                           /\ v = Set(u, "user_identities", T \cup {x})
  OBVIOUS
<1>3. u.user_identities = T /\ u.users = t.users \cup {r}
  <2>1. IsTables(t)
    BY DEF TablesInv
  <2> QED
    BY ONLY <1>1, <1>2, <2>1 DEF IsTables, Tables, Set
<1>4. p = IF L # {} \/ K # {} THEN Pg!Fail(t, "conflict") ELSE Pg!Ok(v, {w})
  <2>1. PICK a, b : /\ a = Pg!CreateUser(t, f, name, None, role)
                    /\ b = Pg!InsertIdentity(a.db, provider, subject, f)
    OBVIOUS
  <2>2. p = IF a.err # "" THEN a
            ELSE IF b.err # "" THEN Pg!Fail(t, b.err) ELSE Pg!Ok(b.db, a.rows)
    BY ONLY <1>1, <2>1 DEF Pg!CreateUserAndIdentity
  <2>3. a = IF L # {} THEN Pg!Fail(t, "conflict") ELSE Pg!Ok(u, {w})
    <3>1. Pg!CreateUser(t, f, name, None, role) =
            IF OfName(t.users, name) # {} THEN Pg!Fail(t, "conflict")
            ELSE Pg!Ok(Set(t, "users", t.users \cup {Pg!UserRow(f, name, None, role)}),
                       {Mem!NewUser(f, name, role)})
      BY ONLY TablesInv(t, f), f \in Nat, InsertedUser
    <3> QED
      BY ONLY <1>1, <1>2, <2>1, <3>1
  <2>4. /\ Pg!Fail(t, "conflict").err # ""
        /\ Pg!Ok(u, {w}).err = "" /\ Pg!Ok(u, {w}).db = u /\ Pg!Ok(u, {w}).rows = {w}
        /\ Pg!Ok(v, {}).err = "" /\ Pg!Ok(v, {}).db = v
        /\ Pg!Fail(u, "conflict").err = "conflict"
    BY ONLY TRUE DEF Pg!Ok, Pg!Fail
  <2>5. Pg!InsertIdentity(u, provider, subject, f) =
          IF K # {} THEN Pg!Fail(u, "conflict") ELSE Pg!Ok(v, {})
    <3>1. Pg!InsertIdentity(u, provider, subject, f) =
            IF OfIdentity(u.user_identities, provider, subject) # {}
            THEN Pg!Fail(u, "conflict")
            ELSE Pg!Ok(Set(u, "user_identities",
                           u.user_identities \cup {Pg!IdentityRow(provider, subject, f)}), {})
      BY ONLY InsertedIdentity
    <3> QED
      BY ONLY <1>1, <1>2, <1>3, <3>1
  <2>6. CASE L # {}
    <3>1. a = Pg!Fail(t, "conflict")
      BY ONLY <2>3, <2>6
    <3> QED
      BY ONLY <2>2, <2>4, <2>6, <3>1
  <2>7. CASE L = {}
    <3>1. a = Pg!Ok(u, {w})
      BY ONLY <2>3, <2>7
    <3>2. a.err = "" /\ a.db = u /\ a.rows = {w}
      BY ONLY <2>4, <3>1
    <3>3. b = IF K # {} THEN Pg!Fail(u, "conflict") ELSE Pg!Ok(v, {})
      BY ONLY <2>1, <2>5, <3>2
    <3>4. p = IF b.err # "" THEN Pg!Fail(t, b.err) ELSE Pg!Ok(b.db, {w})
      BY ONLY <2>2, <3>2
    <3>5. K # {} => b.err = "conflict"
      BY ONLY <2>4, <3>3
    <3>6. K = {} => b.err = "" /\ b.db = v
      BY ONLY <2>4, <3>3
    <3> QED
      BY ONLY <2>7, <3>4, <3>5, <3>6
  <2> QED
    BY ONLY <2>6, <2>7
<1>5. /\ IsUser(r) /\ r.id = f /\ r.name = name
      /\ IsIdentity(x) /\ x.provider = provider /\ x.subject = subject /\ x.user = f
      /\ IsPlain(w) /\ w.name = name
  BY <1>2 DEF Pg!UserRow, Pg!IdentityRow, Mem!NewUser, IsUser, IsIdentity, IsPlain
<1>6. L = {} /\ K = {} => Step(t, v, f + 1)
  <2> SUFFICES ASSUME L = {}, K = {} PROVE Step(t, v, f + 1)
    OBVIOUS
  <2>1. \A z \in t.users : z.name # r.name
    BY ONLY <1>1, <1>5, L = {} DEF OfName
  <2>2. Step(t, Set(t, "users", t.users \cup {r}), f + 1)
    BY ONLY <1>5, <2>1, TablesInv(t, f), f \in Nat, UserAdded
  <2>3. PICK g \in Nat : g = f + 1
    BY ONLY f \in Nat
  <2>4. TablesInv(u, g)
    BY ONLY <1>2, <2>2, <2>3 DEF Step
  <2>5. \E z \in u.users : z.id = x.user
    BY ONLY <1>3, <1>5
  <2>6. OfIdentity(u.user_identities, x.provider, x.subject) = {}
    BY ONLY <1>1, <1>3, <1>5, K = {}
  <2>7. Step(u, Set(u, "user_identities", u.user_identities \cup {x}), g)
    BY ONLY <1>5, <2>4, <2>5, <2>6, g \in Nat, IdentityAdded
  <2>8. Step(u, v, g)
    BY ONLY <1>2, <1>3, <2>7
  <2> QED
    BY ONLY <1>1, <1>3, <2>3, <2>8 DEF Step, StayPut
<1>7. Step(t, p.db, IF p.err = "" THEN f + 1 ELSE f)
  <2>1. CASE L # {} \/ K # {}
    <3>1. p = Pg!Fail(t, "conflict")
      BY ONLY <1>4, <2>1
    <3>2. p.db = t /\ p.err # ""
      BY ONLY <3>1 DEF Pg!Fail
    <3> QED
      BY ONLY <3>2, TablesInv(t, f), SameTables
  <2>2. CASE L = {} /\ K = {}
    <3>1. p = Pg!Ok(v, {w})
      BY ONLY <1>4, <2>2
    <3>2. p.db = v /\ p.err = ""
      BY ONLY <3>1 DEF Pg!Ok
    <3> QED
      BY ONLY <1>6, <2>2, <3>2
  <2> QED
    BY ONLY <2>1, <2>2
<1>8. ASSUME NEW d, MemoryInv(d), View(d) = t
      PROVE  Agree(Mem!CreateUserAndIdentity(d, f, name, role, provider, subject), p)
  <2>1. PICK us, ph, s : us = d.users /\ ph = d.passwordHashes /\ s = d.userIdentities
    OBVIOUS
  <2>2. PICK J, j, i, m : /\ J = OfName(Rows(us), name) /\ j = PlaceOfName(us, name)
                          /\ i = PlaceOfIdentity(s, provider, subject)
                          /\ m = Mem!CreateUserAndIdentity(d, f, name, role, provider, subject)
    OBVIOUS
  <2>3. UsersAre(us, ph, t.users)
    BY ONLY <1>8, <2>1, TablesInv(t, f), UsersHeld
  <2>4. (j = 0 <=> L = {}) /\ (j = 0 => J = {})
    <3>1. L = UserRows(J, ph)
      BY ONLY <1>1, <2>2, <2>3, FoundRows DEF UsersAre
    <3>2. \/ j = 0 /\ J = {} /\ UserRows(J, ph) = {}
          \/ j # 0 /\ UserRows(J, ph) = {UserOf(us[j], ph)}
      BY ONLY <2>2, <2>3, UserPlace
    <3> QED
      BY ONLY <3>1, <3>2
  <2>5. Slice(s) /\ Rows(s) = T /\ ByIdentity(T)
    BY ONLY <1>1, <1>8, <2>1, TablesInv(t, f), IdentitiesHeld
  <2>6. i = 0 <=> K = {}
    <3>1. \/ i = 0 /\ OfIdentity(T, provider, subject) = {}
          \/ i # 0 /\ s[i] \in OfIdentity(T, provider, subject)
      BY ONLY <2>2, <2>5, IdentityPlace
    <3> QED
      BY ONLY <1>1, <3>1
  <2>7. PICK y, n, c, e : /\ y = Append(us, w) /\ n = Append(s, x)
                          /\ c = Set(d, "users", y) /\ e = Set(c, "userIdentities", n)
    OBVIOUS
  <2>8. IsTables(t) /\ IsMemory(d)
    BY <1>8 DEF TablesInv, MemoryInv
  <2>9. c.userIdentities = s
    BY ONLY <2>1, <2>7, <2>8, BesideUsers
  <2>10. m = IF j # 0 \/ i # 0 THEN Mem!Fail(d, "conflict") ELSE Mem!Ok(e, {w})
    <3>1. Mem!Has(d, "users", LAMBDA u_1 : u_1.name = name) <=> j # 0
      BY <2>1, <2>2 DEF Mem!Has, Mem!SelectInSeq, PlaceOfName
    <3>2. Mem!Has(d, "userIdentities",
                  LAMBDA u_1 : u_1.provider = provider /\ u_1.subject = subject) <=> i # 0
      BY <2>1, <2>2 DEF Mem!Has, Mem!SelectInSeq, PlaceOfIdentity
    <3>3. Mem!NewIdentity(provider, subject, f) = x
      BY ONLY <1>2 DEF Mem!NewIdentity, Pg!IdentityRow
    <3>4. [d EXCEPT !.users = Append(@, w), !.userIdentities = Append(@, x)] = e
      <4>1. [d EXCEPT !.users = Append(@, w), !.userIdentities = Append(@, x)] =
              [[d EXCEPT !["users"] = y] EXCEPT !["userIdentities"] = n]
        BY ONLY <2>1, <2>7
      <4> QED
        BY ONLY <2>7, <4>1 DEF Set
    <3> QED
      BY ONLY <1>2, <2>2, <3>1, <3>2, <3>3, <3>4 DEF Mem!CreateUserAndIdentity
  <2>11. CASE j # 0 \/ i # 0
    <3>1. m = Mem!Fail(d, "conflict") /\ p = Pg!Fail(t, "conflict")
      BY ONLY <1>4, <2>4, <2>6, <2>10, <2>11
    <3> QED
      BY ONLY <1>8, <2>2, <3>1, Agreement
  <2>12. CASE j = 0 /\ i = 0
    <3>1. m = Mem!Ok(e, {w}) /\ p = Pg!Ok(v, {w})
      BY ONLY <1>4, <2>4, <2>6, <2>10, <2>12
    <3>2. \A z \in Rows(us) : z.name # name
      BY ONLY <2>2, <2>4, <2>12 DEF OfName
    <3>3. ph[name] = None /\ ph = [k \in Names |-> ph[k]]
      BY ONLY <2>3, <3>2, name \in Names DEF UsersAre, AccountsInv
    <3>4. ph = Put(ph, name, None)
      BY ONLY <3>3 DEF Put
    <3>5. PICK h : h = None
      OBVIOUS
    <3>6. AddedUser(us, ph, w, h, y, ph)
      BY ONLY <1>5, <2>7, <3>2, <3>4, <3>5, name \in Names DEF AddedUser
    <3>7. AccountsInv(y, ph) /\ UsersOf(y, ph) = t.users \cup {UserOf(w, ph)}
      BY ONLY <2>3, <3>6, UserAdd
    <3>8. UserOf(w, ph) = r
      BY ONLY <1>2, <3>3 DEF UserOf, Pg!UserRow, Mem!NewUser
    <3>9. MemoryInv(c) /\ View(c) = u
      <4>1. AccountsInv(y, d.passwordHashes)
        BY ONLY <2>1, <3>7
      <4>2. /\ MemoryInv(Set(d, "users", y))
            /\ View(Set(d, "users", y)) = Set(View(d), "users", UsersOf(y, d.passwordHashes))
        BY ONLY <1>8, <4>1, ViewStep
      <4> QED
        BY ONLY <1>2, <1>8, <2>1, <2>7, <3>7, <3>8, <4>2
    <3>10. MemoryInv(e) /\ View(e) = v
      <4>1. x \notin Rows(s)
        BY ONLY <1>1, <1>5, <2>5, <2>6, <2>12 DEF OfIdentity
      <4>2. Slice(n) /\ Rows(n) = Rows(s) \cup {x}
        BY ONLY <2>5, <2>7, <4>1, AppendSlice
      <4>3. /\ MemoryInv(Set(c, "userIdentities", n))
            /\ View(Set(c, "userIdentities", n)) = Set(View(c), "user_identities", Rows(n))
        BY ONLY <3>9, <4>2, ViewStep
      <4> QED
        BY ONLY <1>2, <2>5, <2>7, <3>9, <4>2, <4>3
    <3> QED
      BY ONLY <2>2, <3>1, <3>10, Agreement
  <2> QED
    BY ONLY <2>11, <2>12
<1> QED
  BY <1>1, <1>7, <1>8
===============================================================================
