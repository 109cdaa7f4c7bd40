-------------------------- MODULE RelationalProofs --------------------------
(***************************************************************************)
(* Proofs about the relational store.                                      *)
(***************************************************************************)
EXTENDS Relational, SequenceTheorems, OrderLemmas

(* Sequences *)

\* Vec::remove: the elements before position i stay, the others move up.
LEMMA RemoveAtElements ==
    ASSUME NEW S, NEW s \in Seq(S), NEW i \in 1..Len(s)
    PROVE  /\ RemoveAt(s, i) \in Seq(S)
           /\ Len(RemoveAt(s, i)) = Len(s) - 1
           /\ \A j \in 1..(Len(s) - 1) : RemoveAt(s, i)[j] = IF j < i THEN s[j] ELSE s[j + 1]
  <1> DEFINE a == SubSeq(s, 1, i - 1)
             b == SubSeq(s, i + 1, Len(s))
  <1>1. Len(s) \in Nat /\ \A j \in 1..Len(s) : s[j] \in S
    OBVIOUS
  <1>2. a \in Seq(S) /\ Len(a) = i - 1 /\ \A j \in 1..(i - 1) : a[j] = s[j]
    BY <1>1
  <1>3. b \in Seq(S) /\ Len(b) = Len(s) - i /\ \A j \in 1..(Len(s) - i) : b[j] = s[i + j]
    BY <1>1
  <1> HIDE DEF a, b
  <1>4. RemoveAt(s, i) = a \o b
    BY DEF RemoveAt, a, b
  <1>5. RemoveAt(s, i) \in Seq(S) /\ Len(RemoveAt(s, i)) = Len(s) - 1
    BY <1>1, <1>2, <1>3, <1>4
  <1>6. ASSUME NEW j \in 1..(Len(s) - 1)
        PROVE  RemoveAt(s, i)[j] = IF j < i THEN s[j] ELSE s[j + 1]
    <2>1. CASE j < i
      BY <1>1, <1>2, <1>3, <1>4, <2>1
    <2>2. CASE j >= i
      <3>1. j - (i - 1) \in 1..(Len(s) - i) /\ j - (i - 1) = j - Len(a)
        BY <1>1, <1>2, <2>2
      <3>2. (a \o b)[j] = b[j - (i - 1)]
        BY <1>1, <1>2, <1>3, <2>2, <3>1
      <3>3. b[j - (i - 1)] = s[i + (j - (i - 1))]
        BY <1>3, <3>1
      <3>4. i + (j - (i - 1)) = j + 1
        BY <1>1
      <3>5. QED
        BY <1>4, <2>2, <3>2, <3>3, <3>4
    <2>3. QED
      BY <1>1, <2>1, <2>2
  <1>7. QED
    BY <1>5, <1>6

\* Sequence r is s with e at position i.
InsertedAt(s, i, e, r) ==
    /\ Len(r) = Len(s) + 1
    /\ \A j \in 1..(Len(s) + 1) : r[j] = IF j < i THEN s[j] ELSE IF j = i THEN e ELSE s[j - 1]

\* Vec::insert: the elements from position i on move down.
LEMMA InsertAtElements ==
    ASSUME NEW S, NEW s \in Seq(S), NEW i \in 1..(Len(s) + 1), NEW e \in S
    PROVE  InsertAt(s, i, e) \in Seq(S) /\ InsertedAt(s, i, e, InsertAt(s, i, e))
  <1> DEFINE a == SubSeq(s, 1, i - 1)
             b == SubSeq(s, i, Len(s))
             c == a \o <<e>>
  <1>1. Len(s) \in Nat /\ \A j \in 1..Len(s) : s[j] \in S
    OBVIOUS
  <1>2. a \in Seq(S) /\ Len(a) = i - 1 /\ \A j \in 1..(i - 1) : a[j] = s[j]
    BY <1>1
  <1>3. /\ b \in Seq(S) /\ Len(b) = Len(s) - i + 1
        /\ \A j \in 1..(Len(s) - i + 1) : b[j] = s[i + j - 1]
    BY <1>1
  <1> HIDE DEF a, b
  <1>4. c \in Seq(S) /\ Len(c) = i /\ c[i] = e /\ \A j \in 1..(i - 1) : c[j] = s[j]
    BY <1>1, <1>2
  <1> HIDE DEF c
  <1>5. InsertAt(s, i, e) = c \o b
    BY DEF InsertAt, a, b, c
  <1>6. InsertAt(s, i, e) \in Seq(S) /\ Len(InsertAt(s, i, e)) = Len(s) + 1
    BY <1>1, <1>3, <1>4, <1>5
  <1>7. ASSUME NEW j \in 1..(Len(s) + 1)
        PROVE  InsertAt(s, i, e)[j] = IF j < i THEN s[j] ELSE IF j = i THEN e ELSE s[j - 1]
    <2>1. CASE j <= i
      BY <1>1, <1>3, <1>4, <1>5, <2>1
    <2>2. CASE j > i
      <3>1. j - i \in 1..(Len(s) - i + 1) /\ i + (j - i) - 1 = j - 1
        BY <1>1, <2>2
      <3>2. (c \o b)[j] = b[j - i]
        BY <1>1, <1>3, <1>4, <2>2, <3>1
      <3>3. b[j - i] = s[i + (j - i) - 1]
        BY <1>3, <3>1
      <3>4. QED
        BY <1>5, <2>2, <3>1, <3>2, <3>3
    <2>3. QED
      BY <1>1, <2>1, <2>2
  <1>8. QED
    BY <1>6, <1>7 DEF InsertedAt

\* Where Moved takes the element at position k from.
Origin(k, from, to) ==
    IF k = to THEN from
    ELSE LET m == IF k < to THEN k ELSE k - 1 IN IF m < from THEN m ELSE m + 1

\* Moved permutes a sequence, in a way that depends on the positions only: the
\* columns of a schema and the cells of a row end up in the same order.
LEMMA MovedElements ==
    ASSUME NEW S, NEW s \in Seq(S), NEW from \in 1..Len(s), NEW to \in 1..Len(s)
    PROVE  /\ Moved(s, from, to) \in Seq(S)
           /\ Len(Moved(s, from, to)) = Len(s)
           /\ \A k \in 1..Len(s) : /\ Origin(k, from, to) \in 1..Len(s)
                                   /\ Moved(s, from, to)[k] = s[Origin(k, from, to)]
  <1> DEFINE r == RemoveAt(s, from)
  <1>1. Len(s) \in Nat /\ s[from] \in S
    OBVIOUS
  <1>2. /\ r \in Seq(S) /\ Len(r) = Len(s) - 1
        /\ \A j \in 1..(Len(s) - 1) : r[j] = IF j < from THEN s[j] ELSE s[j + 1]
    BY RemoveAtElements
  <1> HIDE DEF r
  <1>3. Moved(s, from, to) = InsertAt(r, to, s[from])
    BY DEF Moved, r
  <1>4. to \in 1..(Len(r) + 1) /\ Len(r) + 1 = Len(s)
    BY <1>1, <1>2
  <1>5. /\ InsertAt(r, to, s[from]) \in Seq(S)
        /\ Len(InsertAt(r, to, s[from])) = Len(r) + 1
        /\ \A j \in 1..(Len(r) + 1) : InsertAt(r, to, s[from])[j] =
                IF j < to THEN r[j] ELSE IF j = to THEN s[from] ELSE r[j - 1]
    <2>1. s[from] \in S /\ r \in Seq(S) /\ to \in 1..(Len(r) + 1)
      BY <1>1, <1>2, <1>4
    <2>2. InsertAt(r, to, s[from]) \in Seq(S) /\ InsertedAt(r, to, s[from], InsertAt(r, to, s[from]))
      BY <2>1, InsertAtElements
    <2>3. QED
      BY <2>2 DEF InsertedAt
  <1>6. ASSUME NEW k \in 1..Len(s)
        PROVE  /\ Origin(k, from, to) \in 1..Len(s)
               /\ Moved(s, from, to)[k] = s[Origin(k, from, to)]
    <2>1. Moved(s, from, to)[k] =
            IF k < to THEN r[k] ELSE IF k = to THEN s[from] ELSE r[k - 1]
      BY <1>3, <1>4, <1>5
    <2>2. CASE k = to
      BY <2>1, <2>2 DEF Origin
    <2>3. CASE k < to
      <3>1. k \in 1..(Len(s) - 1)
        BY <1>1, <2>3
      <3>2. r[k] = IF k < from THEN s[k] ELSE s[k + 1]
        BY <1>2, <3>1
      <3>3. QED
        BY <1>1, <2>1, <2>3, <3>1, <3>2 DEF Origin
    <2>4. CASE k > to
      <3>1. k - 1 \in 1..(Len(s) - 1)
        BY <1>1, <2>4
      <3>2. r[k - 1] = IF k - 1 < from THEN s[k - 1] ELSE s[k - 1 + 1]
        BY <1>2, <3>1
      <3>3. QED
        BY <1>1, <2>1, <2>4, <3>1, <3>2 DEF Origin
    <2>5. QED
      BY <1>1, <2>2, <2>3, <2>4
  <1>7. QED
    BY <1>3, <1>4, <1>5, <1>6

\* The permutation leaves no position out and takes none twice.
LEMMA OriginBijective ==
    ASSUME NEW n \in Nat, NEW from \in 1..n, NEW to \in 1..n
    PROVE  /\ \A j, k \in 1..n : Origin(j, from, to) = Origin(k, from, to) => j = k
           /\ \A i \in 1..n : \E k \in 1..n : Origin(k, from, to) = i
  <1>1. ASSUME NEW j \in 1..n, NEW k \in 1..n, Origin(j, from, to) = Origin(k, from, to)
        PROVE  j = k
    BY <1>1 DEF Origin
  <1>2. ASSUME NEW i \in 1..n
        PROVE  \E k \in 1..n : Origin(k, from, to) = i
    <2> DEFINE m == IF i < from THEN i ELSE i - 1
               k == IF m < to THEN m ELSE m + 1
    <2>1. CASE i = from
      <3>1. Origin(to, from, to) = i
        BY <2>1 DEF Origin
      <3>2. QED
        BY <3>1
    <2>2. CASE i # from
      <3>1. k \in 1..n /\ Origin(k, from, to) = i
        BY <2>2 DEF Origin
      <3>2. QED
        BY <3>1
    <2>3. QED
      BY <2>1, <2>2
  <1>3. QED
    BY <1>1, <1>2

\* Sequence r has at position k of n what s had at its origin.
MovedBy(s, r, S, n, from, to) ==
    /\ r \in Seq(S) /\ Len(r) = n
    /\ \A k \in 1..n : r[k] = s[Origin(k, from, to)]

\* Sequences of one length are moved alike.
LEMMA MovedAlike ==
    ASSUME NEW S, NEW n \in Nat, NEW from \in 1..n, NEW to \in 1..n
    PROVE  /\ \A k \in 1..n : Origin(k, from, to) \in 1..n
           /\ \A s \in Seq(S) : Len(s) = n => MovedBy(s, Moved(s, from, to), S, n, from, to)
  <1>1. \A k \in 1..n : Origin(k, from, to) \in 1..n
    BY DEF Origin
  <1>2. ASSUME NEW s \in Seq(S), Len(s) = n
        PROVE  MovedBy(s, Moved(s, from, to), S, n, from, to)
    <2>1. from \in 1..Len(s) /\ to \in 1..Len(s)
      BY <1>2
    <2>2. /\ Moved(s, from, to) \in Seq(S)
          /\ Len(Moved(s, from, to)) = Len(s)
          /\ \A k \in 1..Len(s) : Moved(s, from, to)[k] = s[Origin(k, from, to)]
      BY <2>1, MovedElements
    <2>3. QED
      BY <1>2, <2>2 DEF MovedBy
  <1>3. QED
    BY <1>1, <1>2

\* Where RemoveAt takes the element at position k from.
Left(k, i) == IF k < i THEN k ELSE k + 1

\* Sequence r has at position k of n - 1 what is left of s there.
LeftBy(s, r, S, n, i) ==
    /\ r \in Seq(S) /\ Len(r) = n - 1
    /\ \A k \in 1..(n - 1) : r[k] = s[Left(k, i)]

\* Sequences of one length lose the same position alike, and nothing else.
LEMMA RemovedAlike ==
    ASSUME NEW S, NEW n \in Nat, NEW i \in 1..n
    PROVE  /\ \A k \in 1..(n - 1) : Left(k, i) \in 1..n /\ Left(k, i) # i
           /\ \A j, k \in 1..(n - 1) : Left(j, i) = Left(k, i) => j = k
           /\ \A j \in 1..n : j = i \/ \E k \in 1..(n - 1) : Left(k, i) = j
           /\ \A s \in Seq(S) : Len(s) = n => LeftBy(s, RemoveAt(s, i), S, n, i)
  <1>1. \A k \in 1..(n - 1) : Left(k, i) \in 1..n /\ Left(k, i) # i
    BY DEF Left
  <1>2. \A j, k \in 1..(n - 1) : Left(j, i) = Left(k, i) => j = k
    BY DEF Left
  <1>3. ASSUME NEW j \in 1..n, j # i
        PROVE  \E k \in 1..(n - 1) : Left(k, i) = j
    <2>1. CASE j < i
      <3>1. j \in 1..(n - 1) /\ Left(j, i) = j
        BY <2>1 DEF Left
      <3>2. QED
        BY <3>1
    <2>2. CASE j > i
      <3>1. j - 1 \in 1..(n - 1) /\ Left(j - 1, i) = j
        BY <2>2 DEF Left
      <3>2. QED
        BY <3>1
    <2>3. QED
      BY <1>3, <2>1, <2>2
  <1>4. ASSUME NEW s \in Seq(S), Len(s) = n
        PROVE  LeftBy(s, RemoveAt(s, i), S, n, i)
    <2>1. i \in 1..Len(s)
      BY <1>4
    <2>2. /\ RemoveAt(s, i) \in Seq(S)
          /\ Len(RemoveAt(s, i)) = Len(s) - 1
          /\ \A j \in 1..(Len(s) - 1) : RemoveAt(s, i)[j] = IF j < i THEN s[j] ELSE s[j + 1]
      BY <2>1, RemoveAtElements
    <2>3. QED
      BY <1>4, <2>2 DEF Left, LeftBy
  <1>5. QED
    BY <1>1, <1>2, <1>3, <1>4

\* The position that Retained takes its n-th element from.
Position(kept, n) == CHOOSE i \in kept : Cardinality({j \in kept : j < i}) = n - 1

\* Vec::retain: what is left are elements at kept positions, no position twice.
LEMMA RetainedElements ==
    ASSUME NEW S, NEW s \in Seq(S), NEW kept \in SUBSET (1..Len(s))
    PROVE  /\ Retained(s, kept) \in Seq(S)
           /\ \A n \in DOMAIN Retained(s, kept) :
                Position(kept, n) \in kept /\ Retained(s, kept)[n] = s[Position(kept, n)]
           /\ \A m, n \in DOMAIN Retained(s, kept) :
                Position(kept, m) = Position(kept, n) => m = n
  <1> DEFINE below(i) == {j \in kept : j < i}
             rank == [i \in kept |-> Cardinality(below(i))]
             N == Cardinality(kept)
  <1>1. Len(s) \in Nat /\ kept \subseteq Nat /\ \A j \in kept : s[j] \in S
    OBVIOUS
  <1>2. IsFiniteSet(kept) /\ N \in Nat
    <2>1. IsFiniteSet(1..Len(s))
      BY <1>1, FS_Interval
    <2>2. QED
      BY <2>1, FS_Subset, FS_CardinalityType
  <1>3. \A i \in kept : IsFiniteSet(below(i)) /\ Cardinality(below(i)) \in Nat
    <2>1. \A i \in kept : below(i) \in SUBSET kept
      OBVIOUS
    <2>2. QED
      BY <1>2, <2>1, FS_Subset, FS_CardinalityType
  <1>4. ASSUME NEW i \in kept, NEW U \in SUBSET kept, below(i) \cup {i} \subseteq U
        PROVE  Cardinality(below(i)) + 1 <= Cardinality(U)
    <2>1. i \notin below(i)
      BY <1>1
    <2>2. Cardinality(below(i) \cup {i}) = Cardinality(below(i)) + 1
      BY <1>3, <2>1, FS_AddElement
    <2>3. IsFiniteSet(U)
      BY <1>2, FS_Subset
    <2>4. QED
      BY <1>4, <2>2, <2>3, FS_Subset
  <1>5. rank \in [kept -> 0..(N - 1)]
    <2>1. ASSUME NEW i \in kept PROVE Cardinality(below(i)) \in 0..(N - 1)
      <3>1. Cardinality(below(i)) + 1 <= N
        BY <1>4
      <3>2. QED
        BY <1>2, <1>3, <3>1
    <2>2. QED
      BY <2>1
  <1>6. ASSUME NEW i \in kept, NEW k \in kept, i < k
        PROVE  Cardinality(below(i)) < Cardinality(below(k))
    <2>1. below(i) \cup {i} \subseteq below(k)
      <3>1. \A j \in kept : j < i => j < k
        BY <1>1, <1>6
      <3>2. QED
        BY <1>6, <3>1
    <2>2. below(k) \in SUBSET kept
      OBVIOUS
    <2>3. Cardinality(below(i)) + 1 <= Cardinality(below(k))
      BY <1>4, <2>1, <2>2
    <2>4. Cardinality(below(i)) \in Nat /\ Cardinality(below(k)) \in Nat
      BY <1>3
    <2> HIDE DEF below
    <2>5. QED
      BY <2>3, <2>4
  <1> HIDE DEF below
  <1>7. rank \in Injection(kept, 0..(N - 1))
    <2>1. ASSUME NEW i \in kept, NEW k \in kept, rank[i] = rank[k] PROVE i = k
      <3>1. CASE i < k
        BY <1>3, <1>6, <2>1, <3>1
      <3>2. CASE k < i
        BY <1>3, <1>6, <2>1, <3>2
      <3>3. QED
        BY <1>1, <3>1, <3>2
    <2>2. QED
      BY <1>5, <2>1 DEF Injection, IsInjective
  <1>8. IsFiniteSet(0..(N - 1)) /\ Cardinality(0..(N - 1)) = N
    <2>1. 0 \in Int /\ N - 1 \in Int /\ (0 > N - 1 => N = 0) /\ (N - 1) - 0 + 1 = N
      BY <1>2
    <2>2. QED
      BY <2>1, FS_Interval
  <1>9. rank \in Surjection(kept, 0..(N - 1))
    BY <1>7, <1>8, FS_Injection
  <1>10. ASSUME NEW n \in 1..N
         PROVE  Position(kept, n) \in kept /\ Cardinality(below(Position(kept, n))) = n - 1
    <2>1. n - 1 \in 0..(N - 1)
      BY <1>2
    <2>2. PICK i \in kept : rank[i] = n - 1
      BY <1>9, <2>1 DEF Surjection
    <2>3. Cardinality(below(i)) = n - 1
      BY <2>2
    <2>4. Position(kept, n) = CHOOSE k \in kept : Cardinality(below(k)) = n - 1
      BY DEF Position, below
    <2>5. QED
      BY <2>3, <2>4
  <1>11. Retained(s, kept) = [n \in 1..N |-> s[Position(kept, n)]]
    BY DEF Retained, Position
  <1>12. Retained(s, kept) \in Seq(S)
    <2>1. Retained(s, kept) \in [1..N -> S]
      BY <1>1, <1>10, <1>11
    <2>2. QED
      BY <1>2, <2>1
  <1>13. \A m, n \in 1..N : Position(kept, m) = Position(kept, n) => m = n
    <2>1. \A m, n \in 1..N : m - 1 = n - 1 => m = n
      OBVIOUS
    <2>2. QED
      BY <1>10, <2>1
  <1>14. QED
    BY <1>10, <1>11, <1>12, <1>13

-----------------------------------------------------------------------------
(* The invariant, table by table and key by key *)

\* The inductive invariant: the parts of it rest on each other.
RelationalInv == TypeOK /\ SchemaSound /\ RowsFit /\ UniqueHolds /\ RefIntegrity

\* No two elements of a sequence of records have the same name.
NamesDiffer(s) == \A i, j \in DOMAIN s : s[i].name = s[j].name => i = j

\* The rows of a table fit its columns and respect UNIQUE.
DataOk(T) ==
    /\ T.row_count = Cardinality(DOMAIN T.rows)
    /\ \A id \in DOMAIN T.rows :
         /\ Len(T.rows[id]) = Len(T.columns)
         /\ \A i \in DOMAIN T.columns : CellFits(T.columns[i], T.rows[id][i])
    /\ \A i \in DOMAIN T.columns : T.columns[i].unique =>
         \A r, q \in DOMAIN T.rows :
            T.rows[r][i] = T.rows[q][i] => r = q \/ T.rows[r][i] = Null

LabelOk(T) == ToSet(T.ref_cols) \subseteq Names(T) /\ IsInjective(T.ref_cols)

\* What the invariant says about one table on its own.
Sound(T) ==
    /\ IsTable(T)
    /\ NamesDiffer(T.columns)
    /\ NamesDiffer(T.fks)
    /\ LabelOk(T)
    /\ DataOk(T)

\* What it says about one foreign key of table o of database d.
KeyOk(d, o, f) ==
    /\ f.from_col \in Names(d[o])
    /\ f.to_table \in DOMAIN d
    /\ f.to_col \in Names(d[f.to_table])
    /\ column(d[f.to_table], f.to_col).unique
    /\ column(d[f.to_table], f.to_col).ty = column(d[o], f.from_col).ty
    /\ all_values_in(d[o], f.from_col) \subseteq all_values_in(d[f.to_table], f.to_col)

\* A catalog of tables.
Shape(d) ==
    /\ d = [t \in DOMAIN d |-> d[t]]
    /\ DOMAIN d \subseteq TableName /\ IsFiniteSet(DOMAIN d)

Good(d) ==
    /\ Shape(d)
    /\ \A t \in DOMAIN d : Sound(d[t])
    /\ \A t \in DOMAIN d : \A k \in DOMAIN d[t].fks : KeyOk(d, t, d[t].fks[k])

\* Column names are counted apart exactly when no two columns share one.
LEMMA NamesCounted ==
    ASSUME NEW T, IsTable(T)
    PROVE  Cardinality(Names(T)) = Len(T.columns) <=> NamesDiffer(T.columns)
  <1> DEFINE n == Len(T.columns)
             f == [i \in 1..n |-> T.columns[i].name]
  <1>1. n \in Nat /\ DOMAIN T.columns = 1..n
    BY DEF IsTable
  <1>2. f \in Surjection(1..n, Names(T))
    BY <1>1 DEF Surjection, Names
  <1>3. IsFiniteSet(1..n) /\ Cardinality(1..n) = n
    BY <1>1, FS_Interval
  <1>4. Cardinality(Names(T)) = n <=> f \in Injection(1..n, Names(T))
    BY <1>2, <1>3, FS_Surjection
  <1>5. f \in Injection(1..n, Names(T)) <=> IsInjective(f)
    BY <1>2 DEF Surjection, Injection
  <1>6. IsInjective(f) <=> NamesDiffer(T.columns)
    BY <1>1 DEF IsInjective, NamesDiffer
  <1>7. QED
    BY <1>4, <1>5, <1>6

\* column_index finds the one column of a name.
LEMMA ColumnIndex ==
    ASSUME NEW T, IsTable(T), NamesDiffer(T.columns), NEW i \in DOMAIN T.columns
    PROVE  column_index(T, T.columns[i].name) = i
  <1> DEFINE c == T.columns[i].name
             P(k) == T.columns[k].name = c /\ \A j \in 1..(k - 1) : T.columns[j].name # c
  <1>1. DOMAIN T.columns = 1..Len(T.columns) /\ Len(T.columns) \in Nat
    BY DEF IsTable
  <1>2. \A k \in DOMAIN T.columns : T.columns[k].name = c => k = i
    BY DEF NamesDiffer
  <1>3. \A j \in 1..(i - 1) : j \in DOMAIN T.columns /\ j # i
    BY <1>1
  <1>4. P(i)
    BY <1>2, <1>3
  <1>5. column_index(T, c) = CHOOSE k \in DOMAIN T.columns : P(k)
    BY DEF column_index
  <1>6. QED
    BY <1>2, <1>4, <1>5

\* A name that some column has, looked up.
LEMMA LookedUp ==
    ASSUME NEW T, IsTable(T), NamesDiffer(T.columns), NEW c \in Names(T)
    PROVE  /\ column_index(T, c) \in DOMAIN T.columns
           /\ T.columns[column_index(T, c)].name = c
           /\ column(T, c) = T.columns[column_index(T, c)]
  <1>1. PICK i \in DOMAIN T.columns : T.columns[i].name = c
    BY DEF Names
  <1>2. column_index(T, T.columns[i].name) = i
    BY ColumnIndex
  <1>3. QED
    BY <1>1, <1>2 DEF column

\* The invariant is the conjunction of what it says table by table.
LEMMA InvIsGood == RelationalInv <=> Good(db)
  <1>1. TypeOK <=> Shape(db) /\ \A t \in DOMAIN db : IsTable(db[t])
    BY DEF TypeOK, Shape
  <1> SUFFICES ASSUME \A t \in DOMAIN db : IsTable(db[t])
               PROVE  RelationalInv <=> Good(db)
    BY <1>1 DEF RelationalInv, Good, Sound
  <1>2. ASSUME NEW t \in DOMAIN db
        PROVE  (\A f \in ToSet(db[t].fks) : KeyOk(db, t, f)) <=>
               (\A k \in DOMAIN db[t].fks : KeyOk(db, t, db[t].fks[k]))
    BY DEF ToSet
  <1>3. SchemaSound /\ RefIntegrity <=>
           /\ \A t \in DOMAIN db :
                /\ NamesDiffer(db[t].columns) /\ NamesDiffer(db[t].fks) /\ LabelOk(db[t])
           /\ \A t \in DOMAIN db : \A k \in DOMAIN db[t].fks : KeyOk(db, t, db[t].fks[k])
    <2>1. SchemaSound /\ RefIntegrity <=>
             \A t \in DOMAIN db :
                /\ Cardinality(Names(db[t])) = Len(db[t].columns)
                /\ LabelOk(db[t]) /\ NamesDiffer(db[t].fks)
                /\ \A f \in ToSet(db[t].fks) : KeyOk(db, t, f)
      BY Zenon DEF SchemaSound, RefIntegrity, LabelOk, NamesDiffer, KeyOk
    <2>2. \A t \in DOMAIN db :
             Cardinality(Names(db[t])) = Len(db[t].columns) <=> NamesDiffer(db[t].columns)
      BY NamesCounted
    <2>3. QED
      BY <1>2, <2>1, <2>2
  <1>4. RowsFit /\ UniqueHolds <=> \A t \in DOMAIN db : DataOk(db[t])
    <2>1. ASSUME NEW t \in DOMAIN db, NEW id \in DOMAIN db[t].rows
          PROVE  /\ Len(db[t].rows[id]) = Len(db[t].columns) =>
                      DOMAIN db[t].rows[id] = DOMAIN db[t].columns
      BY DEF IsTable
    <2>2. QED
      BY <2>1 DEF RowsFit, UniqueHolds, DataOk, CellsFit
  <1>5. QED
    BY <1>1, <1>3, <1>4 DEF RelationalInv, Good, Sound

\* add_fk finds a name: of Len(fks) + 1 candidates one is free, and the first
\* free one is a name that no key of the table has.
LEMMA FreshName ==
    ASSUME NEW t, db[t].fks \in Seq(ForeignKey), NEW c \in ColName
    PROVE  /\ FreshFkName(t, c) \in FkName
           /\ \A k \in DOMAIN db[t].fks : db[t].fks[k].name # FreshFkName(t, c)
  <1> DEFINE s == db[t].fks
             L == Len(s)
             taken(n) == \E f \in ToSet(s) : f.name = <<c, n>>
             Free == {n \in 1..(L + 1) : ~taken(n)}
             First(n) == /\ \A f \in ToSet(s) : f.name # <<c, n>>
                         /\ \A m \in 1..(n - 1) : \E f \in ToSet(s) : f.name = <<c, m>>
  <1>1. L \in Nat /\ DOMAIN s = 1..L
    OBVIOUS
  <1>2. Free # {}
    <2> SUFFICES ASSUME \A n \in 1..(L + 1) : \E k \in 1..L : s[k].name = <<c, n>>
                 PROVE  FALSE
      BY <1>1 DEF ToSet
    <2> DEFINE h == [n \in 1..(L + 1) |-> CHOOSE k \in 1..L : s[k].name = <<c, n>>]
    <2>1. \A n \in 1..(L + 1) : h[n] \in 1..L /\ s[h[n]].name = <<c, n>>
      OBVIOUS
    <2>2. h \in [1..(L + 1) -> 1..L]
      BY <2>1
    <2>3. /\ IsFiniteSet(1..L) /\ Cardinality(1..L) = L
          /\ IsFiniteSet(1..(L + 1)) /\ Cardinality(1..(L + 1)) = L + 1
      BY <1>1, FS_Interval
    <2> HIDE DEF h, L
    <2>4. Cardinality(1..L) < Cardinality(1..(L + 1))
      BY <1>1, <2>3
    <2>5. \E x, y \in 1..(L + 1) : x # y /\ h[x] = h[y]
      <3> DEFINE A == 1..(L + 1)
                 B == 1..L
      <3>1. h \in [A -> B] /\ IsFiniteSet(A) /\ IsFiniteSet(B) /\ Cardinality(B) < Cardinality(A)
        BY <2>2, <2>3, <2>4
      <3> HIDE DEF A, B
      <3>2. \E x, y \in A : x # y /\ h[x] = h[y]
        BY <3>1, FS_PigeonHole
      <3>3. QED
        BY <3>2 DEF A
    <2>6. QED
      BY <2>1, <2>5
  <1>3. Free \in SUBSET Nat
    BY <1>1
  <1>4. PICK n \in Free : \A m \in Free : n <= m
    BY <1>2, <1>3, LeastNumber
  <1>5. n \in 1..(L + 1) /\ First(n)
    <2>1. \A m \in 1..(n - 1) : m \in 1..(L + 1) /\ m \notin Free
      <3>1. n \in 1..(L + 1)
        BY <1>4
      <3> HIDE DEF Free, L
      <3>2. QED
        BY <1>1, <1>4, <3>1
    <2>2. QED
      BY <1>4, <2>1
  <1> DEFINE z == CHOOSE k \in 1..(L + 1) : First(k)
  <1>6. z \in 1..(L + 1) /\ First(z)
    BY <1>5
  <1>7. FreshFkName(t, c) = <<c, z>>
    BY DEF FreshFkName
  <1>8. z \in Nat
    BY <1>1, <1>6
  <1> HIDE DEF z
  <1>9. \A k \in DOMAIN s : s[k].name # <<c, z>>
    BY <1>6 DEF ToSet
  <1>10. QED
    BY <1>7, <1>8, <1>9 DEF FkName

\* The slots of one table are among those of the database.
LEMMA SlotsCounted ==
    ASSUME Shape(db), \A t \in DOMAIN db : db[t].slots \in Nat, NEW t \in DOMAIN db
    PROVE  SlotCount \in Nat /\ db[t].slots <= SlotCount
  <1> DEFINE slotsOf(u) == {u} \X (1..db[u].slots)
             All == {slotsOf(u) : u \in DOMAIN db}
             h == [u \in DOMAIN db |-> slotsOf(u)]
  <1>1. ASSUME NEW u \in DOMAIN db
        PROVE  IsFiniteSet(slotsOf(u)) /\ Cardinality(slotsOf(u)) = db[u].slots
    <2>1. IsFiniteSet({u}) /\ Cardinality({u}) = 1
      BY FS_Singleton
    <2>2. /\ db[u].slots \in Nat
          /\ IsFiniteSet(1..db[u].slots) /\ Cardinality(1..db[u].slots) = db[u].slots
      <3> DEFINE n == db[u].slots
      <3>1. n \in Nat
        OBVIOUS
      <3> HIDE DEF n
      <3>2. 1 \in Int /\ n \in Int /\ (1 > n => n = 0) /\ n - 1 + 1 = n
        BY <3>1
      <3>3. IsFiniteSet(1..n) /\ Cardinality(1..n) = n
        BY <3>2, FS_Interval
      <3>4. QED
        BY <3>1, <3>3 DEF n
    <2>3. /\ IsFiniteSet({u} \X (1..db[u].slots))
          /\ Cardinality({u} \X (1..db[u].slots)) = Cardinality({u}) * Cardinality(1..db[u].slots)
      BY <2>1, <2>2, FS_Product
    <2>4. QED
      BY <2>1, <2>2, <2>3
  <1> HIDE DEF slotsOf
  <1>2. h \in Surjection(DOMAIN db, All)
    BY DEF Surjection
  <1>3. IsFiniteSet(All)
    BY <1>2, FS_Surjection DEF Shape
  <1>4. \A X \in All : IsFiniteSet(X)
    BY <1>1
  <1>5. IsFiniteSet(UNION All)
    BY <1>3, <1>4, FS_UNION
  <1>6. slotsOf(t) \in SUBSET UNION All
    OBVIOUS
  <1>7. Cardinality(slotsOf(t)) <= Cardinality(UNION All) /\ Cardinality(UNION All) \in Nat
    BY <1>5, <1>6, FS_Subset, FS_CardinalityType
  <1>8. SlotCount = Cardinality(UNION All)
    BY DEF SlotCount, slotsOf
  <1>9. QED
    BY <1>1, <1>7, <1>8

-----------------------------------------------------------------------------
(* Steps that change one table *)

\* Column c2 of table T2 is what column c of table T was, for a key that uses it.
Carries(T, c, T2, c2) ==
    /\ c2 \in Names(T2)
    /\ column(T2, c2).ty = column(T, c).ty
    /\ all_values_in(T2, c2) = all_values_in(T, c)

\* Column j of T2 has the type and the cells of column i of T.
SameColumn(T, i, T2, j) ==
    /\ i \in DOMAIN T.columns /\ j \in DOMAIN T2.columns
    /\ T2.columns[j].ty = T.columns[i].ty
    /\ DOMAIN T2.rows = DOMAIN T.rows
    /\ \A id \in DOMAIN T.rows : T2.rows[id][j] = T.rows[id][i]

\* A column that keeps its type and its cells carries the old one, wherever
\* it is now and whatever it is called.
LEMMA CarriedColumn ==
    ASSUME NEW T, IsTable(T), NamesDiffer(T.columns),
           NEW T2, IsTable(T2), NamesDiffer(T2.columns),
           NEW i, NEW j, SameColumn(T, i, T2, j)
    PROVE  /\ Carries(T, T.columns[i].name, T2, T2.columns[j].name)
           /\ column(T2, T2.columns[j].name) = T2.columns[j]
  <1>1. i \in DOMAIN T.columns /\ j \in DOMAIN T2.columns
    BY DEF SameColumn
  <1>2. column_index(T, T.columns[i].name) = i /\ column_index(T2, T2.columns[j].name) = j
    BY <1>1, ColumnIndex
  <1>3. T2.columns[j].name \in Names(T2)
    BY <1>1 DEF Names
  <1>4. QED
    BY <1>2, <1>3 DEF Carries, column, all_values_in, CellOf, SameColumn

\* A key whose two columns are carried over is in order.
LEMMA CarriedKey ==
    ASSUME NEW d, NEW o, NEW f, KeyOk(d, o, f),
           NEW e, NEW g, g.to_table = f.to_table, g.to_table \in DOMAIN e,
           Carries(d[o], f.from_col, e[o], g.from_col),
           Carries(d[f.to_table], f.to_col, e[f.to_table], g.to_col),
           column(e[f.to_table], g.to_col).unique
    PROVE  KeyOk(e, o, g)
  BY DEF KeyOk, Carries

\* One table changes; every key of the new catalog is in order.
LEMMA Replaced ==
    ASSUME NEW d, Good(d), NEW t \in DOMAIN d, NEW T2, Sound(T2),
           NEW e, e = [d EXCEPT ![t] = T2],
           \A k \in DOMAIN T2.fks : KeyOk(e, t, T2.fks[k]),
           \A o \in DOMAIN d \ {t} : \A k \in DOMAIN d[o].fks : KeyOk(e, o, d[o].fks[k])
    PROVE  Good(e)
  <1>1. DOMAIN e = DOMAIN d /\ e[t] = T2 /\ \A o \in DOMAIN d \ {t} : e[o] = d[o]
    BY DEF Good, Shape
  <1>2. Shape(e)
    BY <1>1 DEF Good, Shape
  <1>3. \A o \in DOMAIN e : Sound(e[o])
    BY <1>1 DEF Good
  <1>4. \A o \in DOMAIN e : \A k \in DOMAIN e[o].fks : KeyOk(e, o, e[o].fks[k])
    BY <1>1
  <1>5. QED
    BY <1>2, <1>3, <1>4 DEF Good

\* One table changes, adding no key, and carries every column that a key uses.
LEMMA ReplacedView ==
    ASSUME NEW d, Good(d), NEW t \in DOMAIN d, NEW T2, Sound(T2),
           \A k \in DOMAIN T2.fks : \E j \in DOMAIN d[t].fks : T2.fks[k] = d[t].fks[j],
           \A k \in DOMAIN T2.fks : Carries(d[t], T2.fks[k].from_col, T2, T2.fks[k].from_col),
           \A o \in DOMAIN d : \A k \in DOMAIN d[o].fks : d[o].fks[k].to_table = t =>
               /\ Carries(d[t], d[o].fks[k].to_col, T2, d[o].fks[k].to_col)
               /\ column(T2, d[o].fks[k].to_col).unique
    PROVE  Good([d EXCEPT ![t] = T2])
  <1> DEFINE e == [d EXCEPT ![t] = T2]
  <1>1. DOMAIN e = DOMAIN d /\ e[t] = T2 /\ \A o \in DOMAIN d \ {t} : e[o] = d[o]
    BY DEF Good, Shape
  <1>2. ASSUME NEW o \in DOMAIN d, NEW k \in DOMAIN d[o].fks,
               Carries(d[o], d[o].fks[k].from_col, e[o], d[o].fks[k].from_col)
        PROVE  KeyOk(e, o, d[o].fks[k])
    <2> DEFINE f == d[o].fks[k]
    <2>1. KeyOk(d, o, f)
      BY DEF Good
    <2>2. f.to_table \in DOMAIN e
      BY <1>1, <2>1 DEF KeyOk
    <2>3. /\ Carries(d[f.to_table], f.to_col, e[f.to_table], f.to_col)
          /\ column(e[f.to_table], f.to_col).unique
      <3>1. CASE f.to_table = t
        BY <1>1, <3>1
      <3>2. CASE f.to_table # t
        <4>1. e[f.to_table] = d[f.to_table]
          BY <1>1, <2>2, <3>2
        <4>2. QED
          BY <2>1, <4>1 DEF KeyOk, Carries
      <3>3. QED
        BY <3>1, <3>2
    <2>4. QED
      BY <1>2, <2>1, <2>2, <2>3, CarriedKey
  <1>3. \A k \in DOMAIN T2.fks : KeyOk(e, t, T2.fks[k])
    BY <1>1, <1>2
  <1>4. \A o \in DOMAIN d \ {t} : \A k \in DOMAIN d[o].fks : KeyOk(e, o, d[o].fks[k])
    <2>1. ASSUME NEW o \in DOMAIN d \ {t}, NEW k \in DOMAIN d[o].fks
          PROVE  Carries(d[o], d[o].fks[k].from_col, e[o], d[o].fks[k].from_col)
      BY <1>1 DEF Good, KeyOk, Carries
    <2>2. QED
      BY <1>2, <2>1
  <1>5. QED
    BY <1>3, <1>4, Replaced

\* What EditsKeepCells says about one table.
KeepsCells(T, T2) ==
    /\ \A id \in DOMAIN T2.rows \ DOMAIN T.rows : id > T.slots
    /\ T2.columns # T.columns =>
         /\ DOMAIN T2.rows = DOMAIN T.rows
         /\ \A id \in DOMAIN T.rows : \A i \in DOMAIN T.columns, j \in DOMAIN T2.columns :
              T.columns[i].name = T2.columns[j].name => T.rows[id][i] = T2.rows[id][j]

\* What EditsKeepCells says about a step.
StepKeepsCells == \A t \in DOMAIN db \cap DOMAIN db' : KeepsCells(db[t], db'[t])

\* A table that does not change keeps its cells, so one that does is enough.
LEMMA OneTable ==
    ASSUME Good(db), NEW t \in DOMAIN db, NEW T2, KeepsCells(db[t], T2),
           db' = [db EXCEPT ![t] = T2]
    PROVE  StepKeepsCells
  <1>1. \A u \in DOMAIN db : db'[u] = IF u = t THEN T2 ELSE db[u]
    BY DEF Good, Shape
  <1>2. \A T : KeepsCells(T, T)
    BY DEF KeepsCells
  <1>3. QED
    BY <1>1, <1>2 DEF StepKeepsCells

\* One element of a sequence changes.
LEMMA OneElement ==
    ASSUME NEW S, NEW s \in Seq(S), NEW i \in DOMAIN s, NEW x \in S
    PROVE  /\ [s EXCEPT ![i] = x] \in Seq(S)
           /\ DOMAIN [s EXCEPT ![i] = x] = DOMAIN s
           /\ \A j \in DOMAIN s : [s EXCEPT ![i] = x][j] = IF j = i THEN x ELSE s[j]
  OBVIOUS

\* A key between two tables that do not change.
LEMMA UntouchedKey ==
    ASSUME NEW d, NEW o, NEW f, KeyOk(d, o, f),
           NEW e, e[o] = d[o], f.to_table \in DOMAIN e, e[f.to_table] = d[f.to_table]
    PROVE  KeyOk(e, o, f)
  BY DEF KeyOk

\* A new table has no columns, keys or rows.
LEMMA NewTableSound == Sound(NewTable)
  <1>1. IsTable(NewTable)
    BY RelationalAssumption DEF IsTable, NewTable
  <1>2. NamesDiffer(NewTable.columns) /\ NamesDiffer(NewTable.fks)
    BY DEF NamesDiffer, NewTable
  <1>3. LabelOk(NewTable)
    BY DEF LabelOk, ToSet, IsInjective, NewTable
  <1>4. DataOk(NewTable)
    BY FS_EmptySet DEF DataOk, NewTable
  <1>5. QED
    BY <1>1, <1>2, <1>3, <1>4 DEF Sound

LEMMA CreateTableKeeps ==
    ASSUME Good(db), NEW t \in TableName, create_table(t)
    PROVE  Good(db') /\ StepKeepsCells
  <1>1. /\ DOMAIN db' = DOMAIN db \cup {t} /\ t \notin DOMAIN db
        /\ db'[t] = NewTable /\ \A u \in DOMAIN db : db'[u] = db[u]
    BY DEF create_table
  <1>2. Shape(db')
    <2>1. IsFiniteSet(DOMAIN db \cup {t})
      BY FS_AddElement DEF Good, Shape
    <2>2. QED
      BY <1>1, <2>1 DEF Good, Shape, create_table
  <1>3. \A u \in DOMAIN db' : Sound(db'[u])
    BY <1>1, NewTableSound DEF Good
  <1>4. ASSUME NEW u \in DOMAIN db', NEW k \in DOMAIN db'[u].fks
        PROVE  KeyOk(db', u, db'[u].fks[k])
    <2>1. u \in DOMAIN db
      BY <1>1 DEF NewTable
    <2>2. KeyOk(db, u, db[u].fks[k]) /\ db[u].fks[k].to_table \in DOMAIN db
      BY <1>1, <2>1 DEF Good, KeyOk
    <2>3. QED
      BY <1>1, <2>1, <2>2, UntouchedKey
  <1>5. StepKeepsCells
    BY <1>1 DEF StepKeepsCells, KeepsCells
  <1>6. QED
    BY <1>2, <1>3, <1>4, <1>5 DEF Good

LEMMA DropTableKeeps ==
    ASSUME Good(db), NEW t \in DOMAIN db, drop_table(t)
    PROVE  Good(db') /\ StepKeepsCells
  <1>1. /\ DOMAIN db' = DOMAIN db \ {t}
        /\ \A u \in DOMAIN db' : db'[u] = db[u]
    BY DEF drop_table
  <1>2. Shape(db')
    <2>1. IsFiniteSet(DOMAIN db \ {t})
      BY FS_RemoveElement DEF Good, Shape
    <2>2. QED
      BY <1>1, <2>1 DEF Good, Shape, drop_table
  <1>3. \A u \in DOMAIN db' : Sound(db'[u])
    BY <1>1 DEF Good
  <1>4. ASSUME NEW u \in DOMAIN db', NEW k \in DOMAIN db'[u].fks
        PROVE  KeyOk(db', u, db'[u].fks[k])
    <2>1. u \in DOMAIN db \ {t} /\ db'[u] = db[u]
      BY <1>1
    <2>2. KeyOk(db, u, db[u].fks[k]) /\ db[u].fks[k].to_table \in DOMAIN db
      BY <2>1 DEF Good, KeyOk
    <2>3. db[u].fks[k].to_table # t
      BY <2>1 DEF drop_table, ToSet
    <2>4. QED
      BY <1>1, <2>1, <2>2, <2>3, UntouchedKey
  <1>5. StepKeepsCells
    BY <1>1 DEF StepKeepsCells, KeepsCells
  <1>6. QED
    BY <1>2, <1>3, <1>4, <1>5 DEF Good

\* A table with other columns.
LEMMA OtherColumns ==
    ASSUME NEW T, IsTable(T), NEW cols \in Seq(Column)
    PROVE  LET T2 == [T EXCEPT !.columns = cols]
           IN  /\ IsTable(T2)
               /\ T2.columns = cols /\ T2.fks = T.fks /\ T2.ref_cols = T.ref_cols
               /\ T2.rows = T.rows /\ T2.slots = T.slots /\ T2.row_count = T.row_count
  <1> DEFINE T2 == [columns |-> cols, fks |-> T.fks, ref_cols |-> T.ref_cols, rows |-> T.rows,
                    slots |-> T.slots, row_count |-> T.row_count]
  <1>1. [T EXCEPT !.columns = cols] = T2
    BY DEF IsTable
  <1>2. IsTable(T2)
    BY DEF IsTable
  <1>3. QED
    BY <1>1, <1>2

\* The columns of a table change in what no cell depends on: their names, types
\* and NULL rules stay, and a column that is UNIQUE now has no duplicates.
LEMMA EditedColumns ==
    ASSUME NEW T, Sound(T), NEW cols \in Seq(Column), DOMAIN cols = DOMAIN T.columns,
           \A i \in DOMAIN cols : /\ cols[i].name = T.columns[i].name
                                  /\ cols[i].ty = T.columns[i].ty
                                  /\ cols[i].nullable = T.columns[i].nullable,
           \A i \in DOMAIN cols : cols[i].unique =>
               \A r, q \in DOMAIN T.rows :
                  T.rows[r][i] = T.rows[q][i] => r = q \/ T.rows[r][i] = Null,
           NEW T2, IsTable(T2), T2.columns = cols, T2.fks = T.fks, T2.ref_cols = T.ref_cols,
           T2.rows = T.rows, T2.row_count = T.row_count
    PROVE  /\ Sound(T2) /\ KeepsCells(T, T2)
           /\ \A c \in Names(T) : /\ Carries(T, c, T2, c)
                                  /\ column(T2, c) = cols[column_index(T, c)]
  <1>1. NamesDiffer(T2.columns) /\ NamesDiffer(T2.fks) /\ Names(T2) = Names(T)
    BY DEF Sound, NamesDiffer, Names
  <1>2. LabelOk(T2)
    BY <1>1 DEF Sound, LabelOk
  <1>3. DataOk(T2)
    <2>1. Len(cols) = Len(T.columns)
      BY DEF Sound, IsTable
    <2>2. QED
      BY <2>1 DEF Sound, DataOk, CellFits
  <1>4. ASSUME NEW c \in Names(T)
        PROVE  Carries(T, c, T2, c) /\ column(T2, c) = cols[column_index(T, c)]
    <2> DEFINE i == column_index(T, c)
    <2>1. i \in DOMAIN T.columns /\ T.columns[i].name = c
      BY LookedUp DEF Sound
    <2> HIDE DEF i
    <2>2. T2.columns[i].name = c /\ T2.columns[i].ty = T.columns[i].ty
      BY <2>1
    <2>3. /\ Carries(T, T.columns[i].name, T2, T2.columns[i].name)
          /\ column(T2, T2.columns[i].name) = T2.columns[i]
      <3>1. SameColumn(T, i, T2, i)
        BY <2>1, <2>2 DEF SameColumn
      <3>2. IsTable(T) /\ NamesDiffer(T.columns)
        BY DEF Sound
      <3>3. QED
        BY <1>1, <3>1, <3>2, CarriedColumn
    <2>4. QED
      BY <2>1, <2>2, <2>3 DEF i
  <1>5. KeepsCells(T, T2)
    BY DEF Sound, NamesDiffer, KeepsCells
  <1>6. QED
    BY <1>1, <1>2, <1>3, <1>4, <1>5 DEF Sound

LEMMA SetDisplayWidthKeeps ==
    ASSUME Good(db), NEW t \in DOMAIN db, NEW c \in ColName, NEW w \in Width,
           set_display_width(t, c, w)
    PROVE  Good(db') /\ StepKeepsCells
  <1> DEFINE T == db[t]
             i == column_index(T, c)
             cols == [T.columns EXCEPT ![i].width = w]
             T2 == [T EXCEPT !.columns = cols]
  <1>1. Sound(T) /\ c \in Names(T)
    BY DEF Good, set_display_width
  <1>2. db' = [db EXCEPT ![t] = T2]
    BY DEF set_display_width
  <1>3. i \in DOMAIN T.columns
    BY <1>1, LookedUp DEF Sound
  <1> HIDE DEF i
  <1>4. /\ cols \in Seq(Column) /\ DOMAIN cols = DOMAIN T.columns
        /\ \A j \in DOMAIN cols : /\ cols[j].name = T.columns[j].name
                                  /\ cols[j].ty = T.columns[j].ty
                                  /\ cols[j].nullable = T.columns[j].nullable
                                  /\ cols[j].unique = T.columns[j].unique
    <2>1. T.columns \in Seq(Column)
      BY <1>1 DEF Sound, IsTable
    <2> DEFINE x == [T.columns[i] EXCEPT !.width = w]
    <2>2. T.columns[i] \in Column
      BY <1>3, <2>1
    <2>3. /\ x \in Column /\ x.name = T.columns[i].name /\ x.ty = T.columns[i].ty
          /\ x.nullable = T.columns[i].nullable /\ x.unique = T.columns[i].unique
      BY <2>2 DEF Column
    <2>4. cols = [T.columns EXCEPT ![i] = x]
      OBVIOUS
    <2> HIDE DEF x, cols
    <2>5. QED
      BY <1>3, <2>1, <2>3, <2>4, OneElement
  <1>5. \A j \in DOMAIN cols : cols[j].unique =>
            \A r, q \in DOMAIN T.rows :
                T.rows[r][j] = T.rows[q][j] => r = q \/ T.rows[r][j] = Null
    BY <1>1, <1>4 DEF Sound, DataOk
  <1> HIDE DEF cols
  <1>6. /\ Sound(T2) /\ KeepsCells(T, T2)
        /\ \A n \in Names(T) : /\ Carries(T, n, T2, n)
                               /\ column(T2, n) = cols[column_index(T, n)]
    <2>1. /\ T2.columns = cols /\ T2.fks = T.fks /\ T2.ref_cols = T.ref_cols
          /\ T2.rows = T.rows /\ T2.row_count = T.row_count
          /\ IsTable(T2)
      BY <1>1, <1>4, OtherColumns DEF Sound
    <2> HIDE DEF T, T2
    <2>2. QED
      BY <1>1, <1>4, <1>5, <2>1, EditedColumns
  <1>7. T2.fks = T.fks
    BY <1>1 DEF Sound, IsTable
  <1>8. ASSUME NEW o \in DOMAIN db, NEW k \in DOMAIN db[o].fks, db[o].fks[k].to_table = t
        PROVE  /\ Carries(T, db[o].fks[k].to_col, T2, db[o].fks[k].to_col)
               /\ column(T2, db[o].fks[k].to_col).unique
    <2>1. KeyOk(db, o, db[o].fks[k])
      BY DEF Good
    <2>2. db[o].fks[k].to_col \in Names(T) /\ column(T, db[o].fks[k].to_col).unique
      BY <1>8, <2>1 DEF KeyOk
    <2>3. QED
      BY <1>1, <1>4, <1>6, <2>2, LookedUp DEF Sound
  <1>9. \A k \in DOMAIN T2.fks : /\ \E j \in DOMAIN T.fks : T2.fks[k] = T.fks[j]
                                 /\ Carries(T, T2.fks[k].from_col, T2, T2.fks[k].from_col)
    BY <1>6, <1>7 DEF Good, KeyOk
  <1> HIDE DEF T2
  <1>10. QED
    BY <1>2, <1>6, <1>8, <1>9, ReplacedView, OneTable

LEMMA SetUniqueKeeps ==
    ASSUME Good(db), NEW t \in DOMAIN db, NEW c \in ColName, NEW u \in BOOLEAN,
           set_unique(t, c, u)
    PROVE  Good(db') /\ StepKeepsCells
  <1> DEFINE T == db[t]
             i == column_index(T, c)
             cols == [T.columns EXCEPT ![i].unique = u]
             T2 == [T EXCEPT !.columns = cols]
  <1>1. Sound(T) /\ c \in Names(T)
    BY DEF Good, set_unique
  <1>2. db' = [db EXCEPT ![t] = T2]
    BY DEF set_unique
  <1>3. i \in DOMAIN T.columns /\ T.columns[i].name = c
    BY <1>1, LookedUp DEF Sound
  <1>4. u => \A r, q \in DOMAIN T.rows :
                T.rows[r][i] = T.rows[q][i] => r = q \/ T.rows[r][i] = Null
    BY DEF set_unique, CellOf
  <1> HIDE DEF i
  <1>5. /\ cols \in Seq(Column) /\ DOMAIN cols = DOMAIN T.columns
        /\ \A j \in DOMAIN cols : /\ cols[j].name = T.columns[j].name
                                  /\ cols[j].ty = T.columns[j].ty
                                  /\ cols[j].nullable = T.columns[j].nullable
                                  /\ cols[j].unique = IF j = i THEN u ELSE T.columns[j].unique
    <2>1. T.columns \in Seq(Column)
      BY <1>1 DEF Sound, IsTable
    <2> DEFINE x == [T.columns[i] EXCEPT !.unique = u]
    <2>2. T.columns[i] \in Column
      BY <1>3, <2>1
    <2>3. /\ x \in Column /\ x.name = T.columns[i].name /\ x.ty = T.columns[i].ty
          /\ x.nullable = T.columns[i].nullable /\ x.unique = u
      BY <2>2 DEF Column
    <2>4. cols = [T.columns EXCEPT ![i] = x]
      OBVIOUS
    <2> HIDE DEF x, cols
    <2>5. QED
      BY <1>3, <2>1, <2>3, <2>4, OneElement
  <1>6. \A j \in DOMAIN cols : cols[j].unique =>
            \A r, q \in DOMAIN T.rows :
                T.rows[r][j] = T.rows[q][j] => r = q \/ T.rows[r][j] = Null
    BY <1>1, <1>4, <1>5 DEF Sound, DataOk
  <1> HIDE DEF cols
  <1>7. /\ Sound(T2) /\ KeepsCells(T, T2)
        /\ \A n \in Names(T) : /\ Carries(T, n, T2, n)
                               /\ column(T2, n) = cols[column_index(T, n)]
    <2>1. /\ T2.columns = cols /\ T2.fks = T.fks /\ T2.ref_cols = T.ref_cols
          /\ T2.rows = T.rows /\ T2.row_count = T.row_count
          /\ IsTable(T2)
      BY <1>1, <1>5, OtherColumns DEF Sound
    <2> HIDE DEF T, T2
    <2>2. QED
      BY <1>1, <1>5, <1>6, <2>1, EditedColumns
  <1>8. T2.fks = T.fks
    BY <1>1 DEF Sound, IsTable
  <1>9. ASSUME NEW o \in DOMAIN db, NEW k \in DOMAIN db[o].fks, db[o].fks[k].to_table = t
        PROVE  /\ Carries(T, db[o].fks[k].to_col, T2, db[o].fks[k].to_col)
               /\ column(T2, db[o].fks[k].to_col).unique
    <2> DEFINE n == db[o].fks[k].to_col
    <2>1. KeyOk(db, o, db[o].fks[k])
      BY DEF Good
    <2>2. n \in Names(T) /\ column(T, n).unique
      BY <1>9, <2>1 DEF KeyOk
    <2>3. column_index(T, n) \in DOMAIN T.columns /\ T.columns[column_index(T, n)].unique
      BY <1>1, <2>2, LookedUp DEF Sound
    <2>4. column_index(T, n) = i => u
      <3> SUFFICES ASSUME n = c, ~u
                   PROVE  FALSE
        BY <1>1, <1>3, <2>2, LookedUp DEF Sound
      <3>1. db[o].fks[k] \in FksInto(t, c)
        BY <1>9 DEF FksInto, ToSet
      <3>2. QED
        BY <3>1 DEF set_unique
    <2>5. QED
      BY <1>5, <1>7, <2>2, <2>3, <2>4
  <1>10. \A k \in DOMAIN T2.fks : /\ \E j \in DOMAIN T.fks : T2.fks[k] = T.fks[j]
                                  /\ Carries(T, T2.fks[k].from_col, T2, T2.fks[k].from_col)
    BY <1>7, <1>8 DEF Good, KeyOk
  <1> HIDE DEF T2
  <1>11. QED
    BY <1>2, <1>7, <1>9, <1>10, ReplacedView, OneTable

\* The schema keeps its columns and the table its rows; labels and keys change.
LEMMA SameData ==
    ASSUME NEW T, Sound(T), NEW fks \in Seq(ForeignKey), NEW cols \in Seq(ColName),
           NamesDiffer(fks), ToSet(cols) \subseteq Names(T), IsInjective(cols),
           NEW T2, T2 = [T EXCEPT !.fks = fks, !.ref_cols = cols]
    PROVE  /\ Sound(T2) /\ T2.fks = fks /\ KeepsCells(T, T2)
           /\ \A c : column(T2, c) = column(T, c)
           /\ \A c \in Names(T) : Carries(T, c, T2, c)
  <1>1. /\ T2.columns = T.columns /\ T2.fks = fks /\ T2.ref_cols = cols
        /\ T2.rows = T.rows /\ T2.slots = T.slots /\ T2.row_count = T.row_count
    BY DEF Sound, IsTable
  <1>2. IsTable(T2)
    BY <1>1 DEF Sound, IsTable
  <1>3. Sound(T2)
    BY <1>1, <1>2 DEF Sound, NamesDiffer, LabelOk, Names, DataOk
  <1>4. \A c : column(T2, c) = column(T, c) /\ all_values_in(T2, c) = all_values_in(T, c)
    BY <1>1 DEF column, column_index, all_values_in, CellOf
  <1>5. QED
    BY <1>1, <1>3, <1>4 DEF Carries, Names, KeepsCells

\* Labels and keys change; the keys are among those the table had.
LEMMA FewerKeys ==
    ASSUME Good(db), NEW t \in DOMAIN db,
           NEW fks \in Seq(ForeignKey), NEW cols \in Seq(ColName),
           NamesDiffer(fks), ToSet(cols) \subseteq Names(db[t]), IsInjective(cols),
           \A k \in DOMAIN fks : \E j \in DOMAIN db[t].fks : fks[k] = db[t].fks[j]
    PROVE  /\ Good([db EXCEPT ![t] = [db[t] EXCEPT !.fks = fks, !.ref_cols = cols]])
           /\ KeepsCells(db[t], [db[t] EXCEPT !.fks = fks, !.ref_cols = cols])
  <1> DEFINE T == db[t]
             T2 == [T EXCEPT !.fks = fks, !.ref_cols = cols]
  <1>1. Sound(T)
    BY DEF Good
  <1>2. /\ Sound(T2) /\ T2.fks = fks /\ KeepsCells(T, T2)
        /\ \A c : column(T2, c) = column(T, c)
        /\ \A c \in Names(T) : Carries(T, c, T2, c)
    BY <1>1, SameData
  <1> HIDE DEF T2
  <1>3. ASSUME NEW o \in DOMAIN db, NEW k \in DOMAIN db[o].fks, db[o].fks[k].to_table = t
        PROVE  /\ Carries(T, db[o].fks[k].to_col, T2, db[o].fks[k].to_col)
               /\ column(T2, db[o].fks[k].to_col).unique
    BY <1>2, <1>3 DEF Good, KeyOk
  <1>4. \A k \in DOMAIN T2.fks : /\ \E j \in DOMAIN T.fks : T2.fks[k] = T.fks[j]
                                 /\ Carries(T, T2.fks[k].from_col, T2, T2.fks[k].from_col)
    BY <1>2 DEF Good, KeyOk
  <1>5. Good([db EXCEPT ![t] = T2])
    BY <1>2, <1>3, <1>4, ReplacedView
  <1>6. QED
    BY <1>2, <1>5 DEF T2

LEMMA SetReferenceColumnsKeeps ==
    ASSUME Good(db), NEW t \in DOMAIN db, NEW cols \in Seq(ColName),
           set_reference_columns(t, cols)
    PROVE  Good(db') /\ StepKeepsCells
  <1>1. /\ db[t].fks \in Seq(ForeignKey) /\ NamesDiffer(db[t].fks)
        /\ db' = [db EXCEPT ![t] = [db[t] EXCEPT !.fks = db[t].fks, !.ref_cols = cols]]
    <2>1. IsTable(db[t]) /\ db[t].fks \in Seq(ForeignKey) /\ NamesDiffer(db[t].fks)
      BY DEF Good, Sound, IsTable
    <2>2. [db[t] EXCEPT !.fks = db[t].fks, !.ref_cols = cols] = [db[t] EXCEPT !.ref_cols = cols]
      BY <2>1 DEF IsTable
    <2>3. QED
      BY <2>1, <2>2 DEF set_reference_columns
  <1>2. ToSet(cols) \subseteq Names(db[t]) /\ IsInjective(cols)
    BY DEF set_reference_columns
  <1>3. QED
    <2> DEFINE T2 == [db[t] EXCEPT !.fks = db[t].fks, !.ref_cols = cols]
    <2>1. Good([db EXCEPT ![t] = T2]) /\ KeepsCells(db[t], T2)
      BY <1>1, <1>2, FewerKeys
    <2>2. db' = [db EXCEPT ![t] = T2]
      BY <1>1
    <2> HIDE DEF T2
    <2>3. QED
      BY <2>1, <2>2, OneTable

LEMMA DropFkKeeps ==
    ASSUME Good(db), NEW t \in DOMAIN db, NEW name, drop_fk(t, name)
    PROVE  Good(db') /\ StepKeepsCells
  <1> DEFINE T == db[t]
             kept == {k \in DOMAIN T.fks : T.fks[k].name # name}
             fks == Retained(T.fks, kept)
  <1>1. /\ IsTable(T) /\ T.fks \in Seq(ForeignKey) /\ NamesDiffer(T.fks)
        /\ T.ref_cols \in Seq(ColName) /\ ToSet(T.ref_cols) \subseteq Names(T)
        /\ IsInjective(T.ref_cols)
    BY DEF Good, Sound, IsTable, LabelOk
  <1>2. /\ fks \in Seq(ForeignKey)
        /\ \A n \in DOMAIN fks : Position(kept, n) \in kept /\ fks[n] = T.fks[Position(kept, n)]
        /\ \A m, n \in DOMAIN fks : Position(kept, m) = Position(kept, n) => m = n
    <2>1. kept \in SUBSET (1..Len(T.fks))
      BY <1>1
    <2> HIDE DEF kept
    <2>2. QED
      BY <1>1, <2>1, RetainedElements
  <1>3. db' = [db EXCEPT ![t] = [T EXCEPT !.fks = fks, !.ref_cols = T.ref_cols]]
    <2>1. [T EXCEPT !.fks = fks, !.ref_cols = T.ref_cols] = [T EXCEPT !.fks = fks]
      BY <1>1 DEF IsTable
    <2>2. QED
      BY <2>1 DEF drop_fk
  <1>4. NamesDiffer(fks) /\ \A k \in DOMAIN fks : \E j \in DOMAIN T.fks : fks[k] = T.fks[j]
    <2>1. kept \subseteq DOMAIN T.fks
      OBVIOUS
    <2> HIDE DEF kept, fks
    <2>2. QED
      BY <1>1, <1>2, <2>1 DEF NamesDiffer
  <1> HIDE DEF fks
  <1>5. QED
    <2> DEFINE T2 == [T EXCEPT !.fks = fks, !.ref_cols = T.ref_cols]
    <2>1. Good([db EXCEPT ![t] = T2]) /\ KeepsCells(T, T2)
      BY <1>1, <1>2, <1>4, FewerKeys
    <2>2. db' = [db EXCEPT ![t] = T2]
      BY <1>3
    <2> HIDE DEF T2
    <2>3. QED
      BY <2>1, <2>2, OneTable

LEMMA AddFkKeeps ==
    ASSUME Good(db), NEW t \in DOMAIN db, NEW from_col \in ColName, NEW to_table \in TableName,
           NEW to_col \in ColName, add_fk(t, from_col, to_table, to_col)
    PROVE  Good(db') /\ StepKeepsCells
  <1> DEFINE T == db[t]
             f == [name |-> FreshFkName(t, from_col), from_col |-> from_col,
                   to_table |-> to_table, to_col |-> to_col]
             fks == Append(T.fks, f)
             T2 == [T EXCEPT !.fks = fks, !.ref_cols = T.ref_cols]
  <1>1. Sound(T) /\ IsTable(T) /\ T.fks \in Seq(ForeignKey) /\ T.ref_cols \in Seq(ColName)
    BY DEF Good, Sound, IsTable
  <1>2. db' = [db EXCEPT ![t] = T2]
    <2>1. T2 = [T EXCEPT !.fks = fks]
      BY <1>1 DEF IsTable
    <2>2. QED
      BY <2>1 DEF add_fk
  <1>3. FreshFkName(t, from_col) \in FkName /\ \A k \in DOMAIN T.fks : T.fks[k].name # f.name
    BY <1>1, FreshName
  <1>4. f \in ForeignKey
    BY <1>3 DEF ForeignKey
  <1>5. KeyOk(db, t, f)
    BY DEF KeyOk, add_fk
  <1> HIDE DEF f
  <1>6. /\ fks \in Seq(ForeignKey) /\ DOMAIN fks = DOMAIN T.fks \cup {Len(T.fks) + 1}
        /\ Len(T.fks) + 1 \notin DOMAIN T.fks
        /\ fks[Len(T.fks) + 1] = f /\ \A k \in DOMAIN T.fks : fks[k] = T.fks[k]
    BY <1>1, <1>4
  <1>7. NamesDiffer(fks)
    BY <1>1, <1>3, <1>6 DEF Sound, NamesDiffer
  <1> HIDE DEF fks
  <1>8. /\ Sound(T2) /\ T2.fks = fks /\ KeepsCells(T, T2)
        /\ \A c : column(T2, c) = column(T, c)
        /\ \A c \in Names(T) : Carries(T, c, T2, c)
    <2>1. ToSet(T.ref_cols) \subseteq Names(T) /\ IsInjective(T.ref_cols)
      BY <1>1 DEF Sound, LabelOk
    <2>2. QED
      BY <1>1, <1>6, <1>7, <2>1, SameData
  <1> HIDE DEF T2
  <1>9. DOMAIN db' = DOMAIN db /\ db'[t] = T2 /\ \A o \in DOMAIN db \ {t} : db'[o] = db[o]
    BY <1>2 DEF Good, Shape
  <1>10. ASSUME NEW o \in DOMAIN db, NEW g, KeyOk(db, o, g)
         PROVE  KeyOk(db', o, g)
    <2>1. \A u \in DOMAIN db : \A c \in Names(db[u]) :
             Carries(db[u], c, db'[u], c) /\ column(db'[u], c) = column(db[u], c)
      BY <1>8, <1>9 DEF Carries
    <2>2. /\ g.to_table \in DOMAIN db' /\ column(db'[g.to_table], g.to_col).unique
          /\ Carries(db[o], g.from_col, db'[o], g.from_col)
          /\ Carries(db[g.to_table], g.to_col, db'[g.to_table], g.to_col)
      BY <1>9, <1>10, <2>1 DEF KeyOk
    <2>3. QED
      BY <1>10, <2>2, CarriedKey
  <1>11. \A k \in DOMAIN T2.fks : KeyOk(db', t, T2.fks[k])
    <2>1. \A k \in DOMAIN T.fks : KeyOk(db, t, T.fks[k])
      BY DEF Good
    <2>2. QED
      BY <1>5, <1>6, <1>8, <1>10, <2>1
  <1>12. \A o \in DOMAIN db \ {t} : \A k \in DOMAIN db[o].fks : KeyOk(db', o, db[o].fks[k])
    BY <1>10 DEF Good
  <1>13. QED
    BY <1>2, <1>8, <1>11, <1>12, Replaced, OneTable

\* A table with other columns, labels and rows.
Rewritten(T, cols, labels, rows) == [T EXCEPT !.columns = cols, !.ref_cols = labels, !.rows = rows]

LEMMA RewrittenTable ==
    ASSUME NEW T, IsTable(T), NEW cols \in Seq(Column), NEW labels \in Seq(ColName),
           NEW rows \in [DOMAIN T.rows -> Seq(Cell)], NEW T2, T2 = Rewritten(T, cols, labels, rows)
    PROVE  /\ IsTable(T2)
           /\ T2.columns = cols /\ T2.fks = T.fks /\ T2.ref_cols = labels
           /\ T2.rows = rows /\ T2.slots = T.slots /\ T2.row_count = T.row_count
  <1> DEFINE table(c, r, d) == [columns |-> c, fks |-> T.fks, ref_cols |-> r, rows |-> d,
                                slots |-> T.slots, row_count |-> T.row_count]
             U == [T EXCEPT !.columns = cols]
             V == [U EXCEPT !.ref_cols = labels]
  <1>1. T = table(T.columns, T.ref_cols, T.rows)
    BY DEF IsTable
  <1>2. U = table(cols, T.ref_cols, T.rows)
    BY <1>1
  <1> HIDE DEF U
  <1>3. V = table(cols, labels, T.rows)
    BY <1>2
  <1> HIDE DEF V
  <1>4. [V EXCEPT !.rows = rows] = table(cols, labels, rows)
    BY <1>3
  <1>5. Rewritten(T, cols, labels, rows) = [V EXCEPT !.rows = rows]
    BY DEF Rewritten, U, V
  <1>6. IsTable(table(cols, labels, rows))
    BY DEF IsTable
  <1>7. QED
    BY <1>4, <1>5, <1>6

\* T2 carries all columns of T but those of X, and UNIQUE ones stay UNIQUE.
CarriesAllBut(T, T2, X) ==
    \A c \in Names(T) \ X : Carries(T, c, T2, c) /\ (column(T, c).unique => column(T2, c).unique)

\* No key uses the columns X of table t.
Unused(t, X) ==
    /\ \A k \in DOMAIN db[t].fks : db[t].fks[k].from_col \notin X
    /\ \A c \in X : FksInto(t, c) = {}

\* A schema edit that keeps the keys and carries the columns that they use.
LEMMA ColumnsCarried ==
    ASSUME Good(db), NEW t \in DOMAIN db, NEW T2, Sound(T2), T2.fks = db[t].fks,
           NEW X, CarriesAllBut(db[t], T2, X), Unused(t, X)
    PROVE  Good([db EXCEPT ![t] = T2])
  <1>1. ASSUME NEW o \in DOMAIN db, NEW k \in DOMAIN db[o].fks, db[o].fks[k].to_table = t
        PROVE  /\ Carries(db[t], db[o].fks[k].to_col, T2, db[o].fks[k].to_col)
               /\ column(T2, db[o].fks[k].to_col).unique
    <2>1. db[o].fks[k] \in FksInto(t, db[o].fks[k].to_col)
      BY <1>1 DEF FksInto, ToSet
    <2>2. /\ db[o].fks[k].to_col \in Names(db[t]) \ X
          /\ column(db[t], db[o].fks[k].to_col).unique
      BY <1>1, <2>1 DEF Good, KeyOk, Unused
    <2>3. QED
      BY <2>2 DEF CarriesAllBut
  <1>2. \A k \in DOMAIN T2.fks :
           /\ \E j \in DOMAIN db[t].fks : T2.fks[k] = db[t].fks[j]
           /\ Carries(db[t], T2.fks[k].from_col, T2, T2.fks[k].from_col)
    BY DEF Good, KeyOk, Unused, CarriesAllBut
  <1>3. QED
    BY <1>1, <1>2, ReplacedView

\* Columns and cells are rearranged alike: column n of T2 is column p[n] of T.
Rearranges(T, T2, p) ==
    /\ p \in [DOMAIN T2.columns -> DOMAIN T.columns]
    /\ \A m, n \in DOMAIN T2.columns : p[m] = p[n] => m = n
    /\ DOMAIN T2.rows = DOMAIN T.rows
    /\ \A id \in DOMAIN T.rows : Len(T2.rows[id]) = Len(T2.columns)
    /\ \A n \in DOMAIN T2.columns :
         /\ T2.columns[n] = T.columns[p[n]]
         /\ \A id \in DOMAIN T.rows : T2.rows[id][n] = T.rows[id][p[n]]

\* Such a table is sound, and the columns it still has are what they were.
LEMMA RearrangedTable ==
    ASSUME NEW T, Sound(T), NEW T2, IsTable(T2), T2.fks = T.fks, LabelOk(T2),
           T2.row_count = T.row_count, NEW p, Rearranges(T, T2, p)
    PROVE  /\ Sound(T2) /\ KeepsCells(T, T2)
           /\ \A c \in Names(T2) : Carries(T, c, T2, c) /\ column(T2, c) = column(T, c)
  <1>1. IsTable(T) /\ NamesDiffer(T.columns)
    BY DEF Sound
  <1>2. NamesDiffer(T2.columns)
    BY <1>1 DEF NamesDiffer, Rearranges
  <1>3. DataOk(T2)
    <2>1. ASSUME NEW id \in DOMAIN T2.rows, NEW n \in DOMAIN T2.columns
          PROVE  CellFits(T2.columns[n], T2.rows[id][n])
      BY DEF Sound, DataOk, Rearranges
    <2>2. ASSUME NEW n \in DOMAIN T2.columns, T2.columns[n].unique,
                 NEW r \in DOMAIN T2.rows, NEW q \in DOMAIN T2.rows,
                 T2.rows[r][n] = T2.rows[q][n]
          PROVE  r = q \/ T2.rows[r][n] = Null
      BY <2>2 DEF Sound, DataOk, Rearranges
    <2>3. QED
      BY <2>1, <2>2 DEF Sound, DataOk, Rearranges
  <1>4. Sound(T2)
    BY <1>2, <1>3 DEF Sound
  <1>5. ASSUME NEW c \in Names(T2)
        PROVE  Carries(T, c, T2, c) /\ column(T2, c) = column(T, c)
    <2>1. PICK n \in DOMAIN T2.columns : T2.columns[n].name = c
      BY DEF Names
    <2>2. SameColumn(T, p[n], T2, n)
      BY DEF SameColumn, Rearranges
    <2>3. T.columns[p[n]].name = c /\ p[n] \in DOMAIN T.columns /\ T2.columns[n] = T.columns[p[n]]
      BY <2>1 DEF Rearranges
    <2>4. Carries(T, c, T2, c) /\ column(T2, c) = T2.columns[n]
      BY <1>1, <1>2, <2>1, <2>2, <2>3, CarriedColumn
    <2>5. column(T, c) = T.columns[p[n]]
      <3>1. column_index(T, T.columns[p[n]].name) = p[n]
        BY <1>1, <2>3, ColumnIndex
      <3>2. QED
        BY <2>3, <3>1 DEF column
    <2>6. QED
      BY <2>3, <2>4, <2>5
  <1>6. KeepsCells(T, T2)
    BY <1>1 DEF KeepsCells, Rearranges, NamesDiffer
  <1>7. QED
    BY <1>4, <1>5, <1>6

LEMMA AddColumnKeeps ==
    ASSUME Good(db), NEW t \in DOMAIN db, NEW c \in Column, add_column(t, c)
    PROVE  Good(db') /\ StepKeepsCells
  <1> DEFINE T == db[t]
             N == Len(T.columns)
             cols == Append(T.columns, c)
             rows == Widened(t)
             T2 == Rewritten(T, cols, T.ref_cols, rows)
  <1>1. /\ Sound(T) /\ IsTable(T) /\ T.columns \in Seq(Column) /\ T.ref_cols \in Seq(ColName)
        /\ \A id \in DOMAIN T.rows : T.rows[id] \in Seq(Cell) /\ Len(T.rows[id]) = N
    BY DEF Good, Sound, IsTable, DataOk
  <1>2. N \in Nat /\ DOMAIN T.columns = 1..N
    BY <1>1
  <1>3. db' = [db EXCEPT ![t] = T2]
    <2>1. T2 = [T EXCEPT !.columns = cols, !.rows = rows]
      BY <1>1 DEF IsTable, Rewritten
    <2>2. QED
      BY <2>1 DEF add_column, PutSchema
  <1>4. /\ cols \in Seq(Column) /\ Len(cols) = N + 1 /\ DOMAIN cols = 1..(N + 1)
        /\ cols[N + 1] = c /\ \A i \in 1..N : cols[i] = T.columns[i]
    BY <1>1
  <1>5. /\ rows \in [DOMAIN T.rows -> Seq(Cell)]
        /\ \A id \in DOMAIN T.rows : /\ Len(rows[id]) = N + 1 /\ rows[id][N + 1] = Null
                                     /\ \A i \in 1..N : rows[id][i] = T.rows[id][i]
    <2>1. Null \in Cell
      BY DEF Cell
    <2>2. ASSUME NEW id \in DOMAIN T.rows
          PROVE  /\ Append(T.rows[id], Null) \in Seq(Cell)
                 /\ Len(Append(T.rows[id], Null)) = N + 1 /\ Append(T.rows[id], Null)[N + 1] = Null
                 /\ \A i \in 1..N : Append(T.rows[id], Null)[i] = T.rows[id][i]
      BY <1>1, <1>2, <2>1
    <2>3. QED
      BY <2>2 DEF Widened
  <1>6. c.nullable \/ DOMAIN T.rows = {}
    <2>1. IsFiniteSet(DOMAIN T.rows)
      <3>1. T.slots \in Int /\ DOMAIN T.rows \in SUBSET (1..T.slots)
        BY <1>1, RelationalAssumption DEF IsTable
      <3>2. QED
        BY <3>1, FS_Interval, FS_Subset
    <2>2. T.row_count = Cardinality(DOMAIN T.rows)
      BY <1>1 DEF Sound, DataOk
    <2>3. QED
      BY <2>1, <2>2, FS_EmptySet DEF add_column
  <1>7. \A i \in 1..N : T.columns[i].name # c.name
    BY <1>2 DEF add_column, Names
  <1> HIDE DEF N, cols, rows
  <1>8. /\ IsTable(T2) /\ T2.columns = cols /\ T2.fks = T.fks /\ T2.ref_cols = T.ref_cols
        /\ T2.rows = rows /\ T2.row_count = T.row_count
    BY <1>1, <1>4, <1>5, RewrittenTable
  <1> HIDE DEF T2
  <1>9. \A i \in 1..(N + 1) : i \in 1..N \/ i = N + 1
    BY <1>2
  <1>10. NamesDiffer(T2.columns)
    BY <1>1, <1>2, <1>4, <1>7, <1>8, <1>9 DEF Sound, NamesDiffer
  <1>11. LabelOk(T2)
    <2>1. Names(T) \subseteq Names(T2)
      BY <1>2, <1>4, <1>8 DEF Names
    <2>2. QED
      BY <1>1, <1>8, <2>1 DEF Sound, LabelOk
  <1>12. DataOk(T2)
    <2>1. ASSUME NEW id \in DOMAIN T.rows, NEW i \in 1..(N + 1)
          PROVE  CellFits(cols[i], rows[id][i])
      <3>1. CASE i \in 1..N
        BY <1>1, <1>2, <1>4, <1>5, <3>1 DEF Sound, DataOk
      <3>2. CASE i = N + 1
        BY <1>4, <1>5, <1>6, <3>2 DEF CellFits
      <3>3. QED
        BY <1>9, <3>1, <3>2
    <2>2. ASSUME NEW i \in 1..(N + 1), cols[i].unique, NEW r \in DOMAIN T.rows,
                 NEW q \in DOMAIN T.rows, rows[r][i] = rows[q][i]
          PROVE  r = q \/ rows[r][i] = Null
      <3>1. CASE i \in 1..N
        <4>1. /\ i \in DOMAIN T.columns /\ T.columns[i].unique
              /\ T.rows[r][i] = T.rows[q][i] /\ rows[r][i] = T.rows[r][i]
          BY <1>2, <1>4, <1>5, <2>2, <3>1
        <4>2. QED
          BY <1>1, <4>1 DEF Sound, DataOk
      <3>2. CASE i = N + 1
        BY <1>5, <3>2
      <3>3. QED
        BY <1>9, <3>1, <3>2
    <2>3. DOMAIN rows = DOMAIN T.rows /\ T.row_count = Cardinality(DOMAIN T.rows)
      BY <1>1, <1>5 DEF Sound, DataOk
    <2>4. QED
      BY <1>4, <1>5, <1>8, <2>1, <2>2, <2>3 DEF DataOk
  <1>13. Sound(T2)
    BY <1>1, <1>8, <1>10, <1>11, <1>12 DEF Sound
  <1>14. ASSUME NEW n \in Names(T)
         PROVE  Carries(T, n, T2, n) /\ column(T2, n) = column(T, n)
    <2>1. PICK i \in 1..N : T.columns[i].name = n
      BY <1>2 DEF Names
    <2>2. i \in 1..(N + 1) /\ T2.columns[i] = T.columns[i]
      BY <1>2, <1>4, <1>8
    <2>3. SameColumn(T, i, T2, i)
      BY <1>2, <1>4, <1>5, <1>8, <2>2 DEF SameColumn
    <2>4. Carries(T, n, T2, n) /\ column(T2, n) = T2.columns[i]
      BY <1>1, <1>8, <1>10, <2>1, <2>2, <2>3, CarriedColumn DEF Sound
    <2>5. column_index(T, T.columns[i].name) = i
      BY <1>1, <1>2, ColumnIndex DEF Sound
    <2>6. QED
      BY <2>1, <2>2, <2>4, <2>5 DEF column
  <1>15. QED
    <2>1. CarriesAllBut(T, T2, {}) /\ Unused(t, {})
      BY <1>14 DEF CarriesAllBut, Unused
    <2>2. KeepsCells(T, T2)
      <3>1. DOMAIN T2.rows = DOMAIN T.rows
        BY <1>5, <1>8
      <3>2. ASSUME NEW id \in DOMAIN T.rows, NEW i \in 1..N, NEW j \in 1..(N + 1),
                   T.columns[i].name = cols[j].name
            PROVE  T.rows[id][i] = rows[id][j]
        <4>1. j # N + 1
          BY <1>4, <1>7, <3>2
        <4>2. j \in 1..N
          BY <1>9, <4>1
        <4>3. i = j
          BY <1>1, <1>2, <1>4, <3>2, <4>2 DEF Sound, NamesDiffer
        <4>4. QED
          BY <1>5, <4>3
      <3>3. QED
        BY <1>2, <1>4, <1>8, <3>1, <3>2 DEF KeepsCells
    <2>3. QED
      BY <1>3, <1>8, <1>13, <2>1, <2>2, ColumnsCarried, OneTable

LEMMA MoveColumnKeeps ==
    ASSUME Good(db), NEW t \in DOMAIN db, NEW c \in ColName, NEW to \in Nat,
           move_column(t, c, to)
    PROVE  Good(db') /\ StepKeepsCells
  <1> DEFINE T == db[t]
             N == Len(T.columns)
             from == column_index(T, c)
             cols == Moved(T.columns, from, to)
             rows == [id \in DOMAIN T.rows |-> Moved(T.rows[id], from, to)]
             T2 == Rewritten(T, cols, T.ref_cols, rows)
             p == [n \in 1..N |-> Origin(n, from, to)]
  <1>1. /\ Sound(T) /\ IsTable(T) /\ T.columns \in Seq(Column) /\ T.ref_cols \in Seq(ColName)
        /\ \A id \in DOMAIN T.rows : T.rows[id] \in Seq(Cell) /\ Len(T.rows[id]) = N
    BY DEF Good, Sound, IsTable, DataOk
  <1>2. N \in Nat /\ DOMAIN T.columns = 1..N
    BY <1>1
  <1>3. db' = [db EXCEPT ![t] = T2]
    <2>1. T2 = [T EXCEPT !.columns = cols, !.rows = rows]
      BY <1>1 DEF IsTable, Rewritten
    <2>2. QED
      BY <2>1 DEF move_column, PutSchema
  <1>4. from \in 1..N /\ to \in 1..N
    BY <1>1, <1>2, LookedUp DEF move_column, Sound
  <1> HIDE DEF from
  <1> HIDE DEF N
  <1>5. /\ \A k \in 1..N : Origin(k, from, to) \in 1..N
        /\ cols \in Seq(Column) /\ Len(cols) = N
        /\ \A k \in 1..N : cols[k] = T.columns[Origin(k, from, to)]
    <2>1. T.columns \in Seq(Column) /\ Len(T.columns) = N
      BY <1>1 DEF N
    <2>2. MovedBy(T.columns, Moved(T.columns, from, to), Column, N, from, to)
      BY <1>2, <1>4, <2>1, MovedAlike
    <2>3. \A k \in 1..N : Origin(k, from, to) \in 1..N
      BY <1>2, <1>4, MovedAlike
    <2>4. QED
      BY <2>1, <2>2, <2>3 DEF MovedBy
  <1>6. ASSUME NEW id \in DOMAIN T.rows
        PROVE  /\ rows[id] \in Seq(Cell) /\ Len(rows[id]) = N
               /\ \A k \in 1..N : rows[id][k] = T.rows[id][Origin(k, from, to)]
    <2>1. T.rows[id] \in Seq(Cell) /\ Len(T.rows[id]) = N /\ rows[id] = Moved(T.rows[id], from, to)
      BY <1>1
    <2>2. MovedBy(T.rows[id], Moved(T.rows[id], from, to), Cell, N, from, to)
      BY <1>2, <1>4, <2>1, MovedAlike
    <2>3. QED
      BY <2>1, <2>2 DEF MovedBy
  <1>7. rows \in [DOMAIN T.rows -> Seq(Cell)]
    BY <1>6
  <1>8. DOMAIN cols = 1..N
    BY <1>5
  <1> HIDE DEF cols, rows
  <1>9. /\ IsTable(T2) /\ T2.columns = cols /\ T2.fks = T.fks /\ T2.ref_cols = T.ref_cols
        /\ T2.rows = rows /\ T2.row_count = T.row_count
    BY <1>1, <1>5, <1>7, RewrittenTable
  <1> HIDE DEF T2
  <1>10. /\ \A j, k \in 1..N : Origin(j, from, to) = Origin(k, from, to) => j = k
         /\ \A i \in 1..N : \E k \in 1..N : Origin(k, from, to) = i
    <2>1. \A j, k \in 1..N : Origin(j, from, to) = Origin(k, from, to) => j = k
      BY <1>2, <1>4, OriginBijective
    <2>2. \A i \in 1..N : \E k \in 1..N : Origin(k, from, to) = i
      BY <1>2, <1>4, OriginBijective
    <2>3. QED
      BY <2>1, <2>2
  <1>11. p \in [1..N -> 1..N] /\ \A k \in 1..N : p[k] = Origin(k, from, to)
    BY <1>5
  <1> HIDE DEF p
  <1>12. Rearranges(T, T2, p)
    <2>1. DOMAIN T2.rows = DOMAIN T.rows
      BY <1>7, <1>9
    <2>2. \A id \in DOMAIN T.rows : Len(T2.rows[id]) = Len(T2.columns)
      BY <1>5, <1>6, <1>9
    <2>3. \A n \in DOMAIN T2.columns :
             /\ T2.columns[n] = T.columns[p[n]]
             /\ \A id \in DOMAIN T.rows : T2.rows[id][n] = T.rows[id][p[n]]
      BY <1>5, <1>6, <1>8, <1>9, <1>11
    <2>4. p \in [DOMAIN T2.columns -> DOMAIN T.columns]
      BY <1>2, <1>8, <1>9, <1>11
    <2>5. \A j, k \in DOMAIN T2.columns : p[j] = p[k] => j = k
      <3>1. \A j, k \in 1..N : p[j] = p[k] => j = k
        BY <1>10, <1>11
      <3>2. QED
        BY <1>8, <1>9, <3>1
    <2>6. QED
      BY <2>1, <2>2, <2>3, <2>4, <2>5 DEF Rearranges
  <1>13. Names(T2) = Names(T)
    <2> DEFINE M == 1..N
    <2>1. \A k \in M : p[k] \in M /\ cols[k] = T.columns[p[k]]
      BY <1>5, <1>11
    <2>2. \A j \in M : \E k \in M : p[k] = j
      <3>1. ASSUME NEW j \in M
            PROVE  \E k \in M : p[k] = j
        <4>1. PICK k \in M : Origin(k, from, to) = j
          BY <1>10
        <4>2. QED
          BY <1>11, <4>1
      <3>2. QED
        BY <3>1
    <2>3. /\ Names(T2) = {cols[k].name : k \in M}
          /\ Names(T) = {T.columns[j].name : j \in M}
      BY <1>2, <1>8, <1>9 DEF Names
    <2> HIDE DEF M
    <2>4. \A n : n \in Names(T2) => n \in Names(T)
      BY <2>1, <2>3
    <2>5. \A n : n \in Names(T) => n \in Names(T2)
      BY <2>1, <2>2, <2>3
    <2>6. QED
      BY <2>4, <2>5
  <1>14. LabelOk(T2)
    BY <1>1, <1>9, <1>13 DEF Sound, LabelOk
  <1>15. /\ Sound(T2) /\ KeepsCells(T, T2)
         /\ \A n \in Names(T2) : Carries(T, n, T2, n) /\ column(T2, n) = column(T, n)
    BY <1>1, <1>9, <1>12, <1>14, RearrangedTable
  <1>16. CarriesAllBut(T, T2, {}) /\ Unused(t, {})
    BY <1>13, <1>15 DEF CarriesAllBut, Unused
  <1>17. QED
    BY <1>3, <1>9, <1>15, <1>16, ColumnsCarried, OneTable

LEMMA DropColumnKeeps ==
    ASSUME Good(db), NEW t \in DOMAIN db, NEW c \in ColName, drop_column(t, c)
    PROVE  Good(db') /\ StepKeepsCells
  <1> DEFINE T == db[t]
             N == Len(T.columns)
             i == column_index(T, c)
             cols == RemoveAt(T.columns, i)
             kept == {k \in DOMAIN T.ref_cols : T.ref_cols[k] # c}
             labels == Retained(T.ref_cols, kept)
             rows == [id \in DOMAIN T.rows |-> RemoveAt(T.rows[id], i)]
             T2 == Rewritten(T, cols, labels, rows)
             p == [n \in 1..(N - 1) |-> Left(n, i)]
  <1>1. /\ Sound(T) /\ IsTable(T) /\ T.columns \in Seq(Column) /\ T.ref_cols \in Seq(ColName)
        /\ \A id \in DOMAIN T.rows : T.rows[id] \in Seq(Cell) /\ Len(T.rows[id]) = N
    BY DEF Good, Sound, IsTable, DataOk
  <1>2. N \in Nat /\ DOMAIN T.columns = 1..N
    BY <1>1
  <1>3. db' = [db EXCEPT ![t] = T2]
    BY DEF drop_column, Rewritten
  <1>4. i \in 1..N /\ T.columns[i].name = c
    BY <1>1, <1>2, LookedUp DEF drop_column, Sound
  <1> HIDE DEF i
  <1> HIDE DEF N
  <1>5. /\ cols \in Seq(Column) /\ Len(cols) = N - 1
        /\ \A k \in 1..(N - 1) : cols[k] = T.columns[Left(k, i)]
    <2>1. T.columns \in Seq(Column) /\ Len(T.columns) = N
      BY <1>1 DEF N
    <2>2. LeftBy(T.columns, RemoveAt(T.columns, i), Column, N, i)
      BY <1>2, <1>4, <2>1, RemovedAlike
    <2>3. QED
      BY <2>1, <2>2 DEF LeftBy
  <1>6. ASSUME NEW id \in DOMAIN T.rows
        PROVE  /\ rows[id] \in Seq(Cell) /\ Len(rows[id]) = N - 1
               /\ \A k \in 1..(N - 1) : rows[id][k] = T.rows[id][Left(k, i)]
    <2>1. T.rows[id] \in Seq(Cell) /\ Len(T.rows[id]) = N /\ rows[id] = RemoveAt(T.rows[id], i)
      BY <1>1
    <2>2. LeftBy(T.rows[id], RemoveAt(T.rows[id], i), Cell, N, i)
      BY <1>2, <1>4, <2>1, RemovedAlike
    <2>3. QED
      BY <2>1, <2>2 DEF LeftBy
  <1>7. rows \in [DOMAIN T.rows -> Seq(Cell)]
    BY <1>6
  <1>8. DOMAIN cols = 1..(N - 1)
    BY <1>5
  <1>9. /\ labels \in Seq(ColName)
        /\ \A n \in DOMAIN labels : /\ Position(kept, n) \in kept
                                    /\ labels[n] = T.ref_cols[Position(kept, n)]
        /\ \A m, n \in DOMAIN labels : Position(kept, m) = Position(kept, n) => m = n
    <2>1. kept \in SUBSET (1..Len(T.ref_cols))
      BY <1>1
    <2> HIDE DEF kept
    <2>2. QED
      BY <1>1, <2>1, RetainedElements
  <1> HIDE DEF cols, rows, labels
  <1>10. /\ IsTable(T2) /\ T2.columns = cols /\ T2.fks = T.fks /\ T2.ref_cols = labels
         /\ T2.rows = rows /\ T2.row_count = T.row_count
    BY <1>1, <1>5, <1>7, <1>9, RewrittenTable
  <1> HIDE DEF T2
  <1>11. /\ p \in [1..(N - 1) -> 1..N]
         /\ \A k \in 1..(N - 1) : p[k] = Left(k, i) /\ p[k] # i
         /\ \A j, k \in 1..(N - 1) : p[j] = p[k] => j = k
         /\ \A j \in 1..N : j = i \/ \E k \in 1..(N - 1) : p[k] = j
    <2>1. /\ \A k \in 1..(N - 1) : Left(k, i) \in 1..N /\ Left(k, i) # i
          /\ \A j, k \in 1..(N - 1) : Left(j, i) = Left(k, i) => j = k
          /\ \A j \in 1..N : j = i \/ \E k \in 1..(N - 1) : Left(k, i) = j
      BY <1>2, <1>4, RemovedAlike
    <2>2. QED
      BY <2>1
  <1> HIDE DEF p
  <1>12. Rearranges(T, T2, p)
    <2>1. DOMAIN T2.rows = DOMAIN T.rows
      BY <1>7, <1>10
    <2>2. \A id \in DOMAIN T.rows : Len(T2.rows[id]) = Len(T2.columns)
      BY <1>5, <1>6, <1>10
    <2>3. \A n \in DOMAIN T2.columns :
             /\ T2.columns[n] = T.columns[p[n]]
             /\ \A id \in DOMAIN T.rows : T2.rows[id][n] = T.rows[id][p[n]]
      BY <1>5, <1>6, <1>8, <1>10, <1>11
    <2>4. QED
      BY <1>2, <1>8, <1>10, <1>11, <2>1, <2>2, <2>3 DEF Rearranges
  <1>13. Names(T2) = Names(T) \ {c}
    <2> DEFINE M == 1..(N - 1)
    <2>1. \A k \in M : p[k] \in 1..N /\ p[k] # i /\ cols[k] = T.columns[p[k]]
      BY <1>5, <1>11
    <2>2. \A j \in 1..N : j = i \/ \E k \in M : p[k] = j
      BY <1>11
    <2>3. \A j \in 1..N : T.columns[j].name = c => j = i
      BY <1>1, <1>2, <1>4 DEF Sound, NamesDiffer
    <2>4. /\ Names(T2) = {cols[k].name : k \in M}
          /\ Names(T) = {T.columns[j].name : j \in 1..N}
      BY <1>2, <1>8, <1>10 DEF Names
    <2> HIDE DEF M
    <2>5. \A n : n \in Names(T2) => n \in Names(T) \ {c}
      BY <2>1, <2>3, <2>4
    <2>6. \A n : n \in Names(T) \ {c} => n \in Names(T2)
      BY <1>4, <2>1, <2>2, <2>4
    <2>7. QED
      BY <2>5, <2>6
  <1>14. LabelOk(T2)
    <2>1. LabelOk(T)
      BY <1>1 DEF Sound
    <2>2. \A n \in DOMAIN labels : labels[n] \in Names(T) \ {c}
      BY <1>9, <2>1 DEF LabelOk, ToSet
    <2>3. \A m, n \in DOMAIN labels : labels[m] = labels[n] => m = n
      BY <1>9, <2>1 DEF LabelOk, IsInjective
    <2>4. QED
      BY <1>10, <1>13, <2>2, <2>3 DEF LabelOk, ToSet, IsInjective
  <1>15. /\ Sound(T2) /\ KeepsCells(T, T2)
         /\ \A n \in Names(T2) : Carries(T, n, T2, n) /\ column(T2, n) = column(T, n)
    BY <1>1, <1>10, <1>12, <1>14, RearrangedTable
  <1>16. CarriesAllBut(T, T2, {c}) /\ Unused(t, {c})
    BY <1>13, <1>15 DEF CarriesAllBut, Unused, drop_column, ToSet
  <1>17. QED
    BY <1>3, <1>10, <1>15, <1>16, ColumnsCarried, OneTable

\* A table with other columns, labels and keys.
WithLabels(T, cols, labels, fks) == [T EXCEPT !.columns = cols, !.ref_cols = labels, !.fks = fks]

LEMMA RelabelledTable ==
    ASSUME NEW T, IsTable(T), NEW cols \in Seq(Column), NEW labels \in Seq(ColName),
           NEW fks \in Seq(ForeignKey), NEW T2, T2 = WithLabels(T, cols, labels, fks)
    PROVE  /\ IsTable(T2)
           /\ T2.columns = cols /\ T2.fks = fks /\ T2.ref_cols = labels
           /\ T2.rows = T.rows /\ T2.slots = T.slots /\ T2.row_count = T.row_count
  <1> DEFINE table(c, r, k) == [columns |-> c, fks |-> k, ref_cols |-> r, rows |-> T.rows,
                                slots |-> T.slots, row_count |-> T.row_count]
             U == [T EXCEPT !.columns = cols]
             V == [U EXCEPT !.ref_cols = labels]
  <1>1. T = table(T.columns, T.ref_cols, T.fks)
    BY DEF IsTable
  <1>2. U = table(cols, T.ref_cols, T.fks)
    BY <1>1
  <1> HIDE DEF U
  <1>3. V = table(cols, labels, T.fks)
    BY <1>2
  <1> HIDE DEF V
  <1>4. [V EXCEPT !.fks = fks] = table(cols, labels, fks)
    BY <1>3
  <1>5. WithLabels(T, cols, labels, fks) = [V EXCEPT !.fks = fks]
    BY DEF WithLabels, U, V
  <1>6. IsTable(table(cols, labels, fks))
    BY DEF IsTable
  <1>7. QED
    BY <1>4, <1>5, <1>6

\* Columns and labels keep their places and change their names by ren, which
\* tells the names of the table apart.
RenamedBy(T, T2, ren) ==
    /\ T2.rows = T.rows /\ T2.row_count = T.row_count
    /\ DOMAIN T2.columns = DOMAIN T.columns
    /\ \A j \in DOMAIN T.columns : /\ T2.columns[j].name = ren[T.columns[j].name]
                                   /\ T2.columns[j].ty = T.columns[j].ty
                                   /\ T2.columns[j].nullable = T.columns[j].nullable
                                   /\ T2.columns[j].unique = T.columns[j].unique
    /\ DOMAIN T2.ref_cols = DOMAIN T.ref_cols
    /\ \A k \in DOMAIN T.ref_cols : T2.ref_cols[k] = ren[T.ref_cols[k]]
    /\ DOMAIN T2.fks = DOMAIN T.fks
    /\ \A k \in DOMAIN T.fks : T2.fks[k].name = T.fks[k].name
    /\ \A m, n \in Names(T) : ren[m] = ren[n] \/ ren[m] = n => m = n

LEMMA RenamedTable ==
    ASSUME NEW T, Sound(T), NEW T2, IsTable(T2), NEW ren, RenamedBy(T, T2, ren)
    PROVE  /\ Sound(T2) /\ KeepsCells(T, T2)
           /\ \A c \in Names(T) : /\ Carries(T, c, T2, ren[c])
                                  /\ column(T, c).unique => column(T2, ren[c]).unique
  <1>1. IsTable(T) /\ NamesDiffer(T.columns) /\ NamesDiffer(T.fks) /\ LabelOk(T) /\ DataOk(T)
    BY DEF Sound
  <1>2. \A j \in DOMAIN T.columns : T.columns[j].name \in Names(T)
    BY DEF Names
  <1>3. NamesDiffer(T2.columns)
    BY <1>1, <1>2 DEF RenamedBy, NamesDiffer
  <1>4. NamesDiffer(T2.fks)
    BY <1>1 DEF RenamedBy, NamesDiffer
  <1>5. \A c \in Names(T) : ren[c] \in Names(T2)
    BY DEF RenamedBy, Names
  <1>6. LabelOk(T2)
    <2>1. \A k \in DOMAIN T.ref_cols : T.ref_cols[k] \in Names(T)
      BY <1>1 DEF LabelOk, ToSet
    <2>2. \A k \in DOMAIN T2.ref_cols : T2.ref_cols[k] \in Names(T2)
      BY <1>5, <2>1 DEF RenamedBy
    <2>3. \A j, k \in DOMAIN T2.ref_cols : T2.ref_cols[j] = T2.ref_cols[k] => j = k
      BY <1>1, <2>1 DEF RenamedBy, LabelOk, IsInjective
    <2>4. QED
      BY <2>2, <2>3 DEF LabelOk, ToSet, IsInjective
  <1>7. DataOk(T2)
    <2>1. Len(T2.columns) = Len(T.columns)
      BY <1>1 DEF RenamedBy, IsTable
    <2>2. QED
      BY <1>1, <2>1 DEF RenamedBy, DataOk, CellFits
  <1>8. ASSUME NEW c \in Names(T)
        PROVE  /\ Carries(T, c, T2, ren[c])
               /\ column(T, c).unique => column(T2, ren[c]).unique
    <2>1. PICK j \in DOMAIN T.columns : T.columns[j].name = c
      BY DEF Names
    <2>2. SameColumn(T, j, T2, j)
      BY DEF SameColumn, RenamedBy
    <2>3. T2.columns[j].name = ren[c] /\ T2.columns[j].unique = T.columns[j].unique
      BY <2>1 DEF RenamedBy
    <2>4. Carries(T, c, T2, ren[c]) /\ column(T2, ren[c]) = T2.columns[j]
      BY <1>1, <1>3, <2>1, <2>2, <2>3, CarriedColumn
    <2>5. column_index(T, T.columns[j].name) = j
      BY <1>1, ColumnIndex
    <2>6. QED
      BY <2>1, <2>3, <2>4, <2>5 DEF column
  <1>9. KeepsCells(T, T2)
    BY <1>1, <1>2 DEF KeepsCells, RenamedBy, NamesDiffer
  <1>10. QED
    BY <1>1, <1>3, <1>4, <1>6, <1>7, <1>8, <1>9 DEF Sound

LEMMA RenameColumnKeeps ==
    ASSUME Good(db), NEW t \in DOMAIN db, NEW old \in ColName, NEW new \in ColName,
           rename_column(t, old, new)
    PROVE  Good(db') /\ StepKeepsCells
  <1> DEFINE i == column_index(db[t], old)
             ren(o) == [n \in ColName |-> IF o = t /\ n = old THEN new ELSE n]
             cols(o) == IF o = t THEN [db[o].columns EXCEPT ![i].name = new] ELSE db[o].columns
             labels(o) == IF o = t THEN [k \in DOMAIN db[o].ref_cols |->
                                            IF db[o].ref_cols[k] = old THEN new
                                            ELSE db[o].ref_cols[k]]
                          ELSE db[o].ref_cols
             fks(o) == [k \in DOMAIN db[o].fks |-> RenamedFk(o, db[o].fks[k], t, old, new)]
  <1>1. old \in Names(db[t]) /\ new \notin Names(db[t])
    BY DEF rename_column
  <1>2. \A o \in DOMAIN db : Sound(db[o])
    BY DEF Good
  <1>3. i \in DOMAIN db[t].columns /\ db[t].columns[i].name = old
    BY <1>1, <1>2, LookedUp DEF Sound
  <1>4. db' = [o \in DOMAIN db |-> WithLabels(db[o], cols(o), labels(o), fks(o))]
    BY DEF rename_column, WithLabels
  <1>5. DOMAIN db' = DOMAIN db /\ Shape(db')
    BY <1>4 DEF Good, Shape
  <1> HIDE DEF i
  <1>6. ASSUME NEW o \in DOMAIN db
        PROVE  /\ IsTable(db'[o]) /\ RenamedBy(db[o], db'[o], ren(o))
               /\ DOMAIN db'[o].fks = DOMAIN db[o].fks
               /\ \A k \in DOMAIN db[o].fks :
                     /\ db'[o].fks[k].from_col = ren(o)[db[o].fks[k].from_col]
                     /\ db'[o].fks[k].to_table = db[o].fks[k].to_table
                     /\ db'[o].fks[k].to_col = ren(db[o].fks[k].to_table)[db[o].fks[k].to_col]
    <2> DEFINE T == db[o]
               T2 == db'[o]
    <2>1. /\ IsTable(T) /\ T.columns \in Seq(Column) /\ T.ref_cols \in Seq(ColName)
          /\ T.fks \in Seq(ForeignKey)
      BY <1>2 DEF Sound, IsTable
    <2>2. /\ cols(o) \in Seq(Column) /\ DOMAIN cols(o) = DOMAIN T.columns
          /\ \A j \in DOMAIN T.columns : /\ cols(o)[j].name = ren(o)[T.columns[j].name]
                                         /\ cols(o)[j].ty = T.columns[j].ty
                                         /\ cols(o)[j].nullable = T.columns[j].nullable
                                         /\ cols(o)[j].unique = T.columns[j].unique
      <3>1. \A j \in DOMAIN T.columns : T.columns[j] \in Column /\ T.columns[j].name \in ColName
        <4>1. \A x \in Column : x.name \in ColName
          BY DEF Column
        <4>2. \A j \in DOMAIN T.columns : T.columns[j] \in Column
          BY <2>1
        <4>3. QED
          BY <4>1, <4>2
      <3>2. CASE o # t
        BY <2>1, <3>1, <3>2
      <3>3. CASE o = t
        <4> DEFINE x == [T.columns[i] EXCEPT !.name = new]
        <4>1. /\ x \in Column /\ x.name = new /\ x.ty = T.columns[i].ty
              /\ x.nullable = T.columns[i].nullable /\ x.unique = T.columns[i].unique
          BY <1>3, <3>1, <3>3 DEF Column
        <4>2. cols(o) = [T.columns EXCEPT ![i] = x]
          BY <3>3
        <4> HIDE DEF x
        <4>3. /\ cols(o) \in Seq(Column) /\ DOMAIN cols(o) = DOMAIN T.columns
              /\ \A j \in DOMAIN T.columns : cols(o)[j] = IF j = i THEN x ELSE T.columns[j]
          BY <1>3, <2>1, <3>3, <4>1, <4>2, OneElement
        <4>4. \A j \in DOMAIN T.columns : T.columns[j].name = old => j = i
          BY <1>2, <1>3, <3>3 DEF Sound, NamesDiffer
        <4> HIDE DEF cols
        <4>5. QED
          BY <1>3, <3>1, <3>3, <4>1, <4>3, <4>4
      <3>4. QED
        BY <3>2, <3>3
    <2>3. /\ labels(o) \in Seq(ColName) /\ DOMAIN labels(o) = DOMAIN T.ref_cols
          /\ \A k \in DOMAIN T.ref_cols : labels(o)[k] = ren(o)[T.ref_cols[k]]
      BY <2>1
    <2>4. /\ fks(o) \in Seq(ForeignKey) /\ DOMAIN fks(o) = DOMAIN T.fks
          /\ \A k \in DOMAIN T.fks :
                /\ fks(o)[k].name = T.fks[k].name
                /\ fks(o)[k].from_col = ren(o)[T.fks[k].from_col]
                /\ fks(o)[k].to_table = T.fks[k].to_table
                /\ fks(o)[k].to_col = ren(T.fks[k].to_table)[T.fks[k].to_col]
      <3>1. ASSUME NEW k \in DOMAIN T.fks
            PROVE  /\ RenamedFk(o, T.fks[k], t, old, new) \in ForeignKey
                   /\ fks(o)[k] = RenamedFk(o, T.fks[k], t, old, new)
                   /\ fks(o)[k].name = T.fks[k].name
                   /\ fks(o)[k].from_col = ren(o)[T.fks[k].from_col]
                   /\ fks(o)[k].to_table = T.fks[k].to_table
                   /\ fks(o)[k].to_col = ren(T.fks[k].to_table)[T.fks[k].to_col]
        <4>1. T.fks[k] \in ForeignKey
          BY <2>1
        <4>2. QED
          BY <4>1 DEF RenamedFk, ForeignKey
      <3>2. fks(o) \in Seq(ForeignKey) /\ DOMAIN fks(o) = DOMAIN T.fks
        <4>1. /\ DOMAIN T.fks = 1..Len(T.fks) /\ Len(T.fks) \in Nat
              /\ DOMAIN fks(o) = DOMAIN T.fks
          BY <2>1
        <4>2. fks(o) \in [1..Len(T.fks) -> ForeignKey]
          BY <3>1, <4>1
        <4> HIDE DEF fks
        <4>3. QED
          BY <4>1, <4>2
      <3>3. QED
        BY <3>1, <3>2
    <2>5. T2 = WithLabels(T, cols(o), labels(o), fks(o))
      BY <1>4
    <2> HIDE DEF cols, labels, fks, T, T2
    <2>6. /\ IsTable(T2)
          /\ T2.columns = cols(o) /\ T2.fks = fks(o) /\ T2.ref_cols = labels(o)
          /\ T2.rows = T.rows /\ T2.row_count = T.row_count
      BY <2>1, <2>2, <2>3, <2>4, <2>5, RelabelledTable
    <2>7. \A m, n \in Names(T) : ren(o)[m] = ren(o)[n] \/ ren(o)[m] = n => m = n
      <3>1. Names(T) \subseteq ColName
        <4>1. \A x \in Column : x.name \in ColName
          BY DEF Column
        <4>2. \A j \in DOMAIN T.columns : T.columns[j] \in Column
          BY <2>1
        <4>3. QED
          BY <4>1, <4>2 DEF Names
      <3>2. o = t => new \notin Names(T)
        BY <1>1 DEF T
      <3>3. QED
        BY <3>1, <3>2
    <2> HIDE DEF ren
    <2>8. RenamedBy(T, T2, ren(o))
      BY <2>2, <2>3, <2>4, <2>6, <2>7 DEF RenamedBy
    <2>9. QED
      BY <2>4, <2>6, <2>8 DEF T, T2
  <1> HIDE DEF ren
  <1>7. ASSUME NEW o \in DOMAIN db
        PROVE  /\ Sound(db'[o]) /\ KeepsCells(db[o], db'[o])
               /\ \A c \in Names(db[o]) :
                    /\ Carries(db[o], c, db'[o], ren(o)[c])
                    /\ column(db[o], c).unique => column(db'[o], ren(o)[c]).unique
    BY <1>2, <1>6, RenamedTable
  <1>8. ASSUME NEW o \in DOMAIN db', NEW k \in DOMAIN db'[o].fks
        PROVE  KeyOk(db', o, db'[o].fks[k])
    <2> DEFINE f == db[o].fks[k]
               g == db'[o].fks[k]
    <2>1. o \in DOMAIN db /\ KeyOk(db, o, f)
      BY <1>5, <1>6 DEF Good
    <2>2. /\ g.to_table = f.to_table /\ g.from_col = ren(o)[f.from_col]
          /\ g.to_col = ren(f.to_table)[f.to_col]
      BY <1>5, <1>6
    <2> HIDE DEF f, g
    <2>3. /\ f.to_table \in DOMAIN db /\ g.to_table \in DOMAIN db'
          /\ f.from_col \in Names(db[o]) /\ f.to_col \in Names(db[f.to_table])
          /\ column(db[f.to_table], f.to_col).unique
      BY <1>5, <2>1, <2>2 DEF KeyOk
    <2>4. /\ Carries(db[o], f.from_col, db'[o], g.from_col)
          /\ Carries(db[f.to_table], f.to_col, db'[f.to_table], g.to_col)
          /\ column(db'[f.to_table], g.to_col).unique
      BY <1>7, <2>1, <2>2, <2>3
    <2>5. KeyOk(db', o, g)
      BY <2>1, <2>2, <2>3, <2>4, CarriedKey
    <2>6. QED
      BY <2>5 DEF g
  <1>9. QED
    BY <1>5, <1>7, <1>8 DEF Good, StepKeepsCells

-----------------------------------------------------------------------------
(* Steps that change rows *)

\* A table with other rows.
Stored(T, rows, slots, n) == [T EXCEPT !.rows = rows, !.slots = slots, !.row_count = n]

LEMMA StoredTable ==
    ASSUME NEW T, IsTable(T), NEW rows, rows \in [DOMAIN rows -> Seq(Cell)],
           NEW slots \in 0..MaxSlots, NEW n \in 0..MaxSlots, DOMAIN rows \subseteq 1..slots,
           NEW T2, T2 = Stored(T, rows, slots, n)
    PROVE  /\ IsTable(T2)
           /\ T2.columns = T.columns /\ T2.fks = T.fks /\ T2.ref_cols = T.ref_cols
           /\ T2.rows = rows /\ T2.slots = slots /\ T2.row_count = n
  <1> DEFINE table(r, s, k) == [columns |-> T.columns, fks |-> T.fks, ref_cols |-> T.ref_cols,
                                rows |-> r, slots |-> s, row_count |-> k]
             U == [T EXCEPT !.rows = rows]
             V == [U EXCEPT !.slots = slots]
  <1>1. T = table(T.rows, T.slots, T.row_count)
    BY DEF IsTable
  <1>2. U = table(rows, T.slots, T.row_count)
    BY <1>1
  <1> HIDE DEF U
  <1>3. V = table(rows, slots, T.row_count)
    BY <1>2
  <1> HIDE DEF V
  <1>4. [V EXCEPT !.row_count = n] = table(rows, slots, n)
    BY <1>3
  <1>5. Stored(T, rows, slots, n) = [V EXCEPT !.row_count = n]
    BY DEF Stored, U, V
  <1>6. IsTable(table(rows, slots, n))
    BY DEF IsTable
  <1>7. QED
    BY <1>4, <1>5, <1>6

\* The values of a key's column are among those of its target.
ValuesOk(d, o, f) ==
    all_values_in(d[o], f.from_col) \subseteq all_values_in(d[f.to_table], f.to_col)

\* Rows change; schema and keys do not.
LEMMA RowsReplaced ==
    ASSUME Good(db), NEW t \in DOMAIN db, NEW T2, IsTable(T2), DataOk(T2),
           T2.columns = db[t].columns, T2.fks = db[t].fks, T2.ref_cols = db[t].ref_cols,
           NEW e, e = [db EXCEPT ![t] = T2],
           \A o \in DOMAIN db : \A k \in DOMAIN db[o].fks : ValuesOk(e, o, db[o].fks[k])
    PROVE  Good(e)
  <1>1. DOMAIN e = DOMAIN db /\ e[t] = T2 /\ \A o \in DOMAIN db \ {t} : e[o] = db[o]
    BY DEF Good, Shape
  <1>2. Sound(T2)
    BY DEF Good, Sound, LabelOk, Names, NamesDiffer
  <1>3. \A c : Names(T2) = Names(db[t]) /\ column(T2, c) = column(db[t], c)
    BY DEF Names, column, column_index
  <1>4. \A o \in DOMAIN db : \A c : Names(e[o]) = Names(db[o]) /\ column(e[o], c) = column(db[o], c)
    BY <1>1, <1>3
  <1>5. ASSUME NEW o \in DOMAIN db, NEW k \in DOMAIN db[o].fks
        PROVE  KeyOk(e, o, db[o].fks[k])
    <2>1. KeyOk(db, o, db[o].fks[k])
      BY DEF Good
    <2>2. QED
      BY <1>1, <1>4, <2>1 DEF KeyOk, ValuesOk
  <1>6. QED
    BY <1>2, <1>5, Replaced

\* The rows of a table are finitely many.
LEMMA RowsFinite ==
    ASSUME NEW T, IsTable(T)
    PROVE  IsFiniteSet(DOMAIN T.rows) /\ Cardinality(DOMAIN T.rows) \in Nat
  <1>1. T.slots \in Int /\ DOMAIN T.rows \in SUBSET (1..T.slots)
    BY RelationalAssumption DEF IsTable
  <1>2. IsFiniteSet(DOMAIN T.rows)
    BY <1>1, FS_Interval, FS_Subset
  <1>3. QED
    BY <1>2, FS_CardinalityType

\* A key's cell that is not NULL has a row of the target that holds it.
LEMMA KeyHasTarget ==
    ASSUME NEW d, NEW o, NEW f, KeyOk(d, o, f), NEW r \in DOMAIN d[o].rows,
           CellOf(d[o], r, f.from_col) # Null
    PROVE  \E q \in DOMAIN d[f.to_table].rows :
              CellOf(d[f.to_table], q, f.to_col) = CellOf(d[o], r, f.from_col)
  <1>1. CellOf(d[o], r, f.from_col) \in all_values_in(d[o], f.from_col)
    BY DEF all_values_in
  <1>2. CellOf(d[o], r, f.from_col) \in all_values_in(d[f.to_table], f.to_col)
    BY <1>1 DEF KeyOk
  <1>3. QED
    BY <1>2 DEF all_values_in

\* Conversely, a key is in order when each such cell has one.
LEMMA TargetsSuffice ==
    ASSUME NEW d, NEW o, NEW f,
           \A r \in DOMAIN d[o].rows : CellOf(d[o], r, f.from_col) # Null =>
               \E q \in DOMAIN d[f.to_table].rows :
                  CellOf(d[f.to_table], q, f.to_col) = CellOf(d[o], r, f.from_col)
    PROVE  ValuesOk(d, o, f)
  BY DEF ValuesOk, all_values_in

LEMMA InsertKeeps ==
    ASSUME Good(db), NEW t \in DOMAIN db, NEW cells \in Rows(t), insert(t, cells)
    PROVE  Good(db') /\ StepKeepsCells
  <1> DEFINE T == db[t]
             id == T.slots + 1
             rows == [r \in DOMAIN T.rows \cup {id} |-> IF r = id THEN cells ELSE T.rows[r]]
             T2 == Stored(T, rows, id, T.row_count + 1)
  <1>1. Sound(T) /\ IsTable(T)
    BY DEF Good, Sound
  <1>2. db' = [db EXCEPT ![t] = T2]
    BY DEF insert, Stored
  <1>3. id \in 1..MaxSlots
    <2>1. Shape(db) /\ \A u \in DOMAIN db : db[u].slots \in Nat
      BY RelationalAssumption DEF Good, Sound, IsTable
    <2>2. SlotCount \in Nat /\ T.slots <= SlotCount /\ T.slots \in Nat
      BY <2>1, SlotsCounted
    <2>3. SlotCount < MaxSlots
      BY DEF insert
    <2>4. QED
      BY <2>2, <2>3, RelationalAssumption
  <1>4. /\ cells \in Seq(Cell) /\ Len(cells) = Len(T.columns)
        /\ DOMAIN cells = DOMAIN T.columns
    <2>1. T.columns \in Seq(Column) /\ cells \in [DOMAIN T.columns -> Cell]
      BY <1>1 DEF Rows, IsTable
    <2>2. DOMAIN T.columns = 1..Len(T.columns) /\ Len(T.columns) \in Nat
      BY <2>1
    <2>3. QED
      BY <2>1, <2>2
  <1>5. /\ DOMAIN rows = DOMAIN T.rows \cup {id} /\ id \notin DOMAIN T.rows
        /\ rows[id] = cells /\ \A r \in DOMAIN T.rows : rows[r] = T.rows[r] /\ r # id
        /\ DOMAIN rows \subseteq 1..id
        /\ rows \in [DOMAIN rows -> Seq(Cell)]
    <2>1. /\ T.slots \in Nat /\ DOMAIN T.rows \subseteq 1..T.slots
          /\ T.rows \in [DOMAIN T.rows -> Seq(Cell)]
      BY <1>1, RelationalAssumption DEF IsTable
    <2>2. id \notin 1..T.slots /\ 1..T.slots \subseteq 1..id /\ id \in 1..id
      BY <2>1
    <2> HIDE DEF id
    <2>3. QED
      BY <1>4, <2>1, <2>2
  <1>6. T.row_count + 1 = Cardinality(DOMAIN rows) /\ T.row_count + 1 \in 0..MaxSlots
    <2>1. T.row_count = Cardinality(DOMAIN T.rows) /\ T.row_count \in Nat
      BY <1>1, RowsFinite DEF Sound, DataOk
    <2>2. Cardinality(DOMAIN T.rows \cup {id}) = Cardinality(DOMAIN T.rows) + 1
      BY <1>1, <1>5, RowsFinite, FS_AddElement
    <2>3. Cardinality(DOMAIN rows) <= id
      <3>1. IsFiniteSet(1..id) /\ Cardinality(1..id) = id
        <4>1. id \in Int /\ 1 \in Int /\ ~(1 > id) /\ id - 1 + 1 = id
          BY <1>3
        <4> HIDE DEF id
        <4>2. QED
          BY <4>1, FS_Interval
      <3>2. DOMAIN rows \in SUBSET (1..id)
        BY <1>5
      <3>3. QED
        BY <3>1, <3>2, FS_Subset
    <2> HIDE DEF id, rows
    <2>4. QED
      BY <1>3, <1>5, <2>1, <2>2, <2>3, RelationalAssumption
  <1> HIDE DEF rows, id
  <1>7. id \in 0..MaxSlots
    BY <1>3
  <1>8. /\ IsTable(T2) /\ T2.columns = T.columns /\ T2.fks = T.fks /\ T2.ref_cols = T.ref_cols
        /\ T2.rows = rows /\ T2.row_count = T.row_count + 1
    <2> DEFINE n == T.row_count + 1
    <2>1. n \in 0..MaxSlots /\ T2 = Stored(T, rows, id, n)
      BY <1>6
    <2> HIDE DEF n, T2
    <2>2. /\ IsTable(T2) /\ T2.columns = T.columns /\ T2.fks = T.fks /\ T2.ref_cols = T.ref_cols
          /\ T2.rows = rows /\ T2.row_count = n
      BY <1>1, <1>5, <1>7, <2>1, StoredTable
    <2>3. QED
      BY <2>2 DEF n
  <1> HIDE DEF T2
  <1>9. DataOk(T2)
    <2>1. ASSUME NEW r \in DOMAIN rows
          PROVE  /\ Len(rows[r]) = Len(T.columns)
                 /\ \A i \in DOMAIN T.columns : CellFits(T.columns[i], rows[r][i])
      <3>1. CASE r = id
        BY <1>4, <1>5, <3>1 DEF insert, validate, CellsFit
      <3>2. CASE r # id
        BY <1>1, <1>5, <3>2 DEF Sound, DataOk
      <3>3. QED
        BY <3>1, <3>2
    <2>2. ASSUME NEW i \in DOMAIN T.columns, T.columns[i].unique, NEW r \in DOMAIN rows,
                 NEW q \in DOMAIN rows, rows[r][i] = rows[q][i], rows[r][i] # Null
          PROVE  r = q
      <3>1. \A p \in DOMAIN T.rows : cells[i] # Null => T.rows[p][i] # cells[i]
        BY <1>4, <2>2 DEF insert, validate, KeepsUnique
      <3>2. CASE r \in DOMAIN T.rows /\ q \in DOMAIN T.rows
        <4>1. T.rows[r][i] = T.rows[q][i] /\ T.rows[r][i] # Null
          BY <1>5, <2>2, <3>2
        <4>2. QED
          BY <1>1, <2>2, <3>2, <4>1 DEF Sound, DataOk
      <3>3. CASE r = id \/ q = id
        BY <1>5, <2>2, <3>1, <3>3
      <3>4. QED
        BY <1>5, <3>2, <3>3
    <2>3. QED
      BY <1>6, <1>8, <2>1, <2>2 DEF DataOk
  <1>10. DOMAIN db' = DOMAIN db /\ db'[t] = T2 /\ \A o \in DOMAIN db \ {t} : db'[o] = db[o]
    BY <1>2 DEF Good, Shape
  <1>11. \A o \in DOMAIN db : \A c : column_index(db'[o], c) = column_index(db[o], c)
    BY <1>8, <1>10 DEF column_index
  <1>12. ASSUME NEW o \in DOMAIN db, NEW r \in DOMAIN db[o].rows, NEW c
         PROVE  r \in DOMAIN db'[o].rows /\ CellOf(db'[o], r, c) = CellOf(db[o], r, c)
    BY <1>5, <1>8, <1>10, <1>11 DEF CellOf
  <1>13. ASSUME NEW o \in DOMAIN db, NEW k \in DOMAIN db[o].fks
         PROVE  ValuesOk(db', o, db[o].fks[k])
    <2> DEFINE f == db[o].fks[k]
    <2>1. KeyOk(db, o, f) /\ f.to_table \in DOMAIN db
      BY DEF Good, KeyOk
    <2>2. f \in ToSet(db[o].fks)
      BY DEF ToSet
    <2> HIDE DEF f
    <2>3. ASSUME NEW r \in DOMAIN db'[o].rows, CellOf(db'[o], r, f.from_col) # Null
          PROVE  \E q \in DOMAIN db'[f.to_table].rows :
                    CellOf(db'[f.to_table], q, f.to_col) = CellOf(db'[o], r, f.from_col)
      <3>1. CASE r \in DOMAIN db[o].rows
        <4>1. PICK q \in DOMAIN db[f.to_table].rows :
                 CellOf(db[f.to_table], q, f.to_col) = CellOf(db[o], r, f.from_col)
          BY <1>12, <2>1, <2>3, <3>1, KeyHasTarget
        <4>2. QED
          BY <1>12, <2>1, <3>1, <4>1
      <3>2. CASE r \notin DOMAIN db[o].rows
        <4>1. o = t /\ r = id
          BY <1>5, <1>8, <1>10, <3>2
        <4>2. CellOf(db'[o], r, f.from_col) = cells[column_index(db[t], f.from_col)]
          BY <1>5, <1>8, <1>10, <1>11, <4>1 DEF CellOf
        <4>3. PICK q \in DOMAIN db[f.to_table].rows :
                 cells[column_index(db[t], f.from_col)] =
                    db[f.to_table].rows[q][column_index(db[f.to_table], f.to_col)]
          BY <2>2, <2>3, <4>1, <4>2 DEF insert, validate, ReferencesExist
        <4>4. QED
          BY <1>12, <2>1, <4>2, <4>3 DEF CellOf
      <3>3. QED
        BY <3>1, <3>2
    <2>4. ValuesOk(db', o, f)
      BY <2>3, TargetsSuffice
    <2>5. QED
      BY <2>4 DEF f
  <1>14. KeepsCells(T, T2)
    <2>1. id > T.slots
      BY <1>1, RelationalAssumption DEF IsTable, id
    <2>2. QED
      BY <1>5, <1>8, <2>1 DEF KeepsCells
  <1>15. QED
    BY <1>2, <1>8, <1>9, <1>13, <1>14, RowsReplaced, OneTable

\* Restrict: when row id of t becomes `cells` without orphans, the key of any
\* other row still has a target, row id itself only if it keeps the value.
LEMMA NoOrphan ==
    ASSUME NEW t \in DOMAIN db, NEW id \in DOMAIN db[t].rows, NEW cells, ~Orphans(t, id, cells),
           NEW o \in DOMAIN db, NEW f \in ToSet(db[o].fks), KeyOk(db, o, f),
           NEW r \in DOMAIN db[o].rows, ~(o = t /\ r = id),
           CellOf(db[o], r, f.from_col) # Null
    PROVE  \E q \in DOMAIN db[f.to_table].rows :
              /\ CellOf(db[f.to_table], q, f.to_col) = CellOf(db[o], r, f.from_col)
              /\ f.to_table = t /\ q = id =>
                    LET tc == column_index(db[t], f.to_col)
                    IN  tc \in DOMAIN cells /\ cells[tc] = CellOf(db[o], r, f.from_col)
  <1> DEFINE v == CellOf(db[o], r, f.from_col)
             tc == column_index(db[t], f.to_col)
  <1>1. PICK q \in DOMAIN db[f.to_table].rows : CellOf(db[f.to_table], q, f.to_col) = v
    BY KeyHasTarget
  <1>2. ASSUME f.to_table = t, q = id
        PROVE  tc \in DOMAIN cells /\ cells[tc] = v
    <2>1. CellOf(db[t], id, f.to_col) = v /\ v # Null
      BY <1>1, <1>2
    <2>2. <<o, f, r>> \in referencing_rows(t, id)
      <3>1. r \in {p \in DOMAIN db[o].rows :
                      /\ CellOf(db[t], id, f.to_col) # Null
                      /\ CellOf(db[o], p, f.from_col) = CellOf(db[t], id, f.to_col)}
        BY <2>1
      <3>2. f \in {g \in ToSet(db[o].fks) : g.to_table = t}
        BY <1>2
      <3>3. QED
        BY <3>1, <3>2 DEF referencing_rows
    <2>3. <<o, r>> # <<t, id>>
      OBVIOUS
    <2>4. tc \in DOMAIN cells /\ cells[tc] = db[t].rows[id][tc]
      BY <2>2, <2>3 DEF Orphans
    <2>5. QED
      BY <2>1, <2>4 DEF CellOf
  <1>3. QED
    BY <1>1, <1>2

LEMMA UpdateKeeps ==
    ASSUME Good(db), NEW t \in DOMAIN db, NEW id \in DOMAIN db[t].rows, NEW cells \in Rows(t),
           update(t, id, cells)
    PROVE  Good(db') /\ StepKeepsCells
  <1> DEFINE T == db[t]
             rows == [T.rows EXCEPT ![id] = cells]
             T2 == Stored(T, rows, T.slots, T.row_count)
  <1>1. /\ Sound(T) /\ IsTable(T) /\ T.slots \in 0..MaxSlots /\ T.row_count \in 0..MaxSlots
        /\ DOMAIN T.rows \subseteq 1..T.slots /\ T.rows \in [DOMAIN T.rows -> Seq(Cell)]
    BY DEF Good, Sound, IsTable
  <1>2. db' = [db EXCEPT ![t] = T2]
    <2>1. [T EXCEPT !.rows = rows] = T2
      BY <1>1 DEF IsTable, Stored
    <2>2. QED
      BY <2>1 DEF update
  <1>3. /\ cells \in Seq(Cell) /\ Len(cells) = Len(T.columns)
        /\ DOMAIN cells = DOMAIN T.columns
    <2>1. T.columns \in Seq(Column) /\ cells \in [DOMAIN T.columns -> Cell]
      BY <1>1 DEF Rows, IsTable
    <2>2. DOMAIN T.columns = 1..Len(T.columns) /\ Len(T.columns) \in Nat
      BY <2>1
    <2>3. QED
      BY <2>1, <2>2
  <1>4. /\ rows \in [DOMAIN rows -> Seq(Cell)] /\ DOMAIN rows = DOMAIN T.rows
        /\ \A r \in DOMAIN T.rows : rows[r] = IF r = id THEN cells ELSE T.rows[r]
    BY <1>1, <1>3
  <1> HIDE DEF rows
  <1>5. /\ IsTable(T2) /\ T2.columns = T.columns /\ T2.fks = T.fks /\ T2.ref_cols = T.ref_cols
        /\ T2.rows = rows /\ T2.row_count = T.row_count
    <2> DEFINE slots == T.slots
               n == T.row_count
    <2>1. /\ slots \in 0..MaxSlots /\ n \in 0..MaxSlots /\ DOMAIN rows \subseteq 1..slots
          /\ T2 = Stored(T, rows, slots, n) /\ IsTable(T) /\ rows \in [DOMAIN rows -> Seq(Cell)]
      BY <1>1, <1>4
    <2> HIDE DEF slots, n, T2
    <2>2. /\ IsTable(T2) /\ T2.columns = T.columns /\ T2.fks = T.fks /\ T2.ref_cols = T.ref_cols
          /\ T2.rows = rows /\ T2.row_count = n
      BY <2>1, StoredTable
    <2>3. QED
      BY <2>2 DEF n
  <1> HIDE DEF T2
  <1>6. DataOk(T2)
    <2>1. ASSUME NEW r \in DOMAIN rows
          PROVE  /\ Len(rows[r]) = Len(T.columns)
                 /\ \A i \in DOMAIN T.columns : CellFits(T.columns[i], rows[r][i])
      <3>1. CASE r = id
        BY <1>3, <1>4, <3>1 DEF update, validate, CellsFit
      <3>2. CASE r # id
        BY <1>1, <1>4, <3>2 DEF Sound, DataOk
      <3>3. QED
        BY <3>1, <3>2
    <2>2. ASSUME NEW i \in DOMAIN T.columns, T.columns[i].unique, NEW r \in DOMAIN rows,
                 NEW q \in DOMAIN rows, rows[r][i] = rows[q][i], rows[r][i] # Null
          PROVE  r = q
      <3>1. \A p \in DOMAIN T.rows \ {id} : cells[i] # Null => T.rows[p][i] # cells[i]
        BY <1>3, <2>2 DEF update, validate, KeepsUnique
      <3>2. CASE r # id /\ q # id
        <4>1. T.rows[r][i] = T.rows[q][i] /\ T.rows[r][i] # Null
          BY <1>4, <2>2, <3>2
        <4>2. QED
          BY <1>1, <1>4, <2>2, <3>2, <4>1 DEF Sound, DataOk
      <3>3. CASE r = id \/ q = id
        BY <1>4, <2>2, <3>1, <3>3
      <3>4. QED
        BY <3>2, <3>3
    <2>3. T.row_count = Cardinality(DOMAIN T.rows)
      BY <1>1 DEF Sound, DataOk
    <2>4. QED
      BY <1>4, <1>5, <2>1, <2>2, <2>3 DEF DataOk
  <1>7. DOMAIN db' = DOMAIN db /\ db'[t] = T2 /\ \A o \in DOMAIN db \ {t} : db'[o] = db[o]
    BY <1>2 DEF Good, Shape
  <1>8. \A o \in DOMAIN db : \A c : column_index(db'[o], c) = column_index(db[o], c)
    BY <1>5, <1>7 DEF column_index
  <1>9. ASSUME NEW o \in DOMAIN db
        PROVE  /\ DOMAIN db'[o].rows = DOMAIN db[o].rows
               /\ \A r \in DOMAIN db[o].rows : \A c : CellOf(db'[o], r, c) =
                     IF o = t /\ r = id THEN cells[column_index(db[t], c)] ELSE CellOf(db[o], r, c)
    BY <1>4, <1>5, <1>7, <1>8 DEF CellOf
  <1>10. ASSUME NEW o \in DOMAIN db, NEW k \in DOMAIN db[o].fks
         PROVE  ValuesOk(db', o, db[o].fks[k])
    <2> DEFINE f == db[o].fks[k]
    <2>1. KeyOk(db, o, f) /\ f.to_table \in DOMAIN db
      BY DEF Good, KeyOk
    <2>2. f \in ToSet(db[o].fks)
      BY DEF ToSet
    <2> HIDE DEF f
    <2>3. ASSUME NEW r \in DOMAIN db'[o].rows, CellOf(db'[o], r, f.from_col) # Null
          PROVE  \E q \in DOMAIN db'[f.to_table].rows :
                    CellOf(db'[f.to_table], q, f.to_col) = CellOf(db'[o], r, f.from_col)
      <3>1. CASE ~(o = t /\ r = id)
        <4>1. /\ r \in DOMAIN db[o].rows
              /\ CellOf(db'[o], r, f.from_col) = CellOf(db[o], r, f.from_col)
              /\ CellOf(db[o], r, f.from_col) # Null /\ ~Orphans(t, id, cells)
          BY <1>9, <2>3, <3>1 DEF update
        <4>2. PICK q \in DOMAIN db[f.to_table].rows :
                 /\ CellOf(db[f.to_table], q, f.to_col) = CellOf(db[o], r, f.from_col)
                 /\ f.to_table = t /\ q = id =>
                       cells[column_index(db[t], f.to_col)] = CellOf(db[o], r, f.from_col)
          BY <2>1, <2>2, <3>1, <4>1, NoOrphan
        <4>3. QED
          BY <1>9, <2>1, <4>1, <4>2
      <3>2. CASE o = t /\ r = id
        <4>1. CellOf(db'[o], r, f.from_col) = cells[column_index(db[t], f.from_col)]
          BY <1>9, <3>2
        <4>2. PICK q \in DOMAIN db[f.to_table].rows :
                 cells[column_index(db[t], f.from_col)] =
                    IF f.to_table = t /\ q \in {id}
                    THEN cells[column_index(db[f.to_table], f.to_col)]
                    ELSE db[f.to_table].rows[q][column_index(db[f.to_table], f.to_col)]
          BY <2>2, <2>3, <3>2, <4>1 DEF update, validate, ReferencesExist
        <4>3. CellOf(db'[f.to_table], q, f.to_col) = CellOf(db'[o], r, f.from_col)
          BY <1>9, <2>1, <4>1, <4>2 DEF CellOf
        <4>4. QED
          BY <1>9, <2>1, <4>3
      <3>3. QED
        BY <3>1, <3>2
    <2>4. ValuesOk(db', o, f)
      BY <2>3, TargetsSuffice
    <2>5. QED
      BY <2>4 DEF f
  <1>11. KeepsCells(T, T2)
    BY <1>4, <1>5 DEF KeepsCells
  <1>12. QED
    BY <1>2, <1>5, <1>6, <1>10, <1>11, RowsReplaced, OneTable

LEMMA DeleteKeeps ==
    ASSUME Good(db), NEW t \in DOMAIN db, NEW id \in DOMAIN db[t].rows, delete(t, id)
    PROVE  Good(db') /\ StepKeepsCells
  <1> DEFINE T == db[t]
             rows == [r \in DOMAIN T.rows \ {id} |-> T.rows[r]]
             n == IF T.row_count = 0 THEN 0 ELSE T.row_count - 1
             T2 == Stored(T, rows, T.slots, n)
  <1>1. /\ Sound(T) /\ IsTable(T) /\ T.slots \in 0..MaxSlots /\ T.row_count \in 0..MaxSlots
        /\ DOMAIN T.rows \subseteq 1..T.slots /\ T.rows \in [DOMAIN T.rows -> Seq(Cell)]
    BY DEF Good, Sound, IsTable
  <1>2. db' = [db EXCEPT ![t] = T2]
    <2>1. [T EXCEPT !.rows = rows, !.row_count = n] = T2
      BY <1>1 DEF IsTable, Stored
    <2>2. QED
      BY <2>1 DEF delete
  <1>3. /\ rows \in [DOMAIN rows -> Seq(Cell)] /\ DOMAIN rows = DOMAIN T.rows \ {id}
        /\ DOMAIN rows \subseteq 1..T.slots
        /\ \A r \in DOMAIN rows : rows[r] = T.rows[r]
    BY <1>1
  <1>4. n = Cardinality(DOMAIN rows) /\ n \in 0..MaxSlots
    <2>1. IsFiniteSet(DOMAIN T.rows) /\ T.row_count = Cardinality(DOMAIN T.rows)
      BY <1>1, RowsFinite DEF Sound, DataOk
    <2>2. /\ IsFiniteSet(DOMAIN T.rows \ {id})
          /\ Cardinality(DOMAIN T.rows \ {id}) = Cardinality(DOMAIN T.rows) - 1
      BY <2>1, FS_RemoveElement
    <2>3. Cardinality(DOMAIN T.rows \ {id}) \in Nat
      BY <2>2, FS_CardinalityType
    <2> HIDE DEF rows
    <2>4. QED
      BY <1>1, <1>3, <2>1, <2>2, <2>3, RelationalAssumption
  <1> HIDE DEF rows, n
  <1>5. /\ IsTable(T2) /\ T2.columns = T.columns /\ T2.fks = T.fks /\ T2.ref_cols = T.ref_cols
        /\ T2.rows = rows /\ T2.row_count = n
    BY <1>1, <1>3, <1>4, StoredTable
  <1> HIDE DEF T2
  <1>6. DataOk(T2)
    BY <1>1, <1>3, <1>4, <1>5 DEF Sound, DataOk
  <1>7. DOMAIN db' = DOMAIN db /\ db'[t] = T2 /\ \A o \in DOMAIN db \ {t} : db'[o] = db[o]
    BY <1>2 DEF Good, Shape
  <1>8. \A o \in DOMAIN db : \A c : column_index(db'[o], c) = column_index(db[o], c)
    BY <1>5, <1>7 DEF column_index
  <1>9. ASSUME NEW o \in DOMAIN db
        PROVE  /\ \A r : r \in DOMAIN db'[o].rows <=> r \in DOMAIN db[o].rows /\ ~(o = t /\ r = id)
               /\ \A r \in DOMAIN db'[o].rows : \A c : CellOf(db'[o], r, c) = CellOf(db[o], r, c)
    BY <1>3, <1>5, <1>7, <1>8 DEF CellOf
  <1>10. ASSUME NEW o \in DOMAIN db, NEW k \in DOMAIN db[o].fks
         PROVE  ValuesOk(db', o, db[o].fks[k])
    <2> DEFINE f == db[o].fks[k]
    <2>1. KeyOk(db, o, f) /\ f.to_table \in DOMAIN db
      BY DEF Good, KeyOk
    <2>2. f \in ToSet(db[o].fks)
      BY DEF ToSet
    <2> HIDE DEF f
    <2>3. ASSUME NEW r \in DOMAIN db'[o].rows, CellOf(db'[o], r, f.from_col) # Null
          PROVE  \E q \in DOMAIN db'[f.to_table].rows :
                    CellOf(db'[f.to_table], q, f.to_col) = CellOf(db'[o], r, f.from_col)
      <3>1. /\ r \in DOMAIN db[o].rows /\ ~(o = t /\ r = id)
            /\ CellOf(db'[o], r, f.from_col) = CellOf(db[o], r, f.from_col)
            /\ CellOf(db[o], r, f.from_col) # Null
        BY <1>9, <2>3
      <3> DEFINE none == <<>>
      <3>2. ~Orphans(t, id, none)
        BY DEF delete
      <3>3. \A i : i \notin DOMAIN none
        OBVIOUS
      <3> HIDE DEF none
      <3>4. PICK q \in DOMAIN db[f.to_table].rows :
               /\ CellOf(db[f.to_table], q, f.to_col) = CellOf(db[o], r, f.from_col)
               /\ f.to_table = t /\ q = id => column_index(db[t], f.to_col) \in DOMAIN none
        BY <2>1, <2>2, <3>1, <3>2, NoOrphan
      <3>5. QED
        BY <1>9, <2>1, <3>1, <3>3, <3>4
    <2>4. ValuesOk(db', o, f)
      BY <2>3, TargetsSuffice
    <2>5. QED
      BY <2>4 DEF f
  <1>11. KeepsCells(T, T2)
    BY <1>3, <1>5 DEF KeepsCells
  <1>12. QED
    BY <1>2, <1>5, <1>6, <1>10, <1>11, RowsReplaced, OneTable

-----------------------------------------------------------------------------
(* The theorems *)

\* The empty catalog has nothing wrong with it.
LEMMA InitGood == Init => Good(db)
  <1> SUFFICES ASSUME Init
               PROVE  Good(db)
    OBVIOUS
  <1>1. DOMAIN db = {} /\ db = [t \in {} |-> db[t]]
    BY DEF Init
  <1>2. IsFiniteSet({})
    BY FS_EmptySet
  <1>3. QED
    BY <1>1, <1>2 DEF Good, Shape

\* Every operation keeps the catalog in order and the cells in their columns.
LEMMA NextKeeps == Good(db) /\ Next => Good(db') /\ StepKeepsCells
  <1> SUFFICES ASSUME Good(db), Next
               PROVE  Good(db') /\ StepKeepsCells
    OBVIOUS
  <1>1. ASSUME NEW t \in TableName, create_table(t)
        PROVE  Good(db') /\ StepKeepsCells
    BY <1>1, CreateTableKeeps
  <1>2. ASSUME NEW t \in DOMAIN db, drop_table(t)
        PROVE  Good(db') /\ StepKeepsCells
    BY <1>2, DropTableKeeps
  <1>3. ASSUME NEW t \in DOMAIN db, NEW c \in Column, add_column(t, c)
        PROVE  Good(db') /\ StepKeepsCells
    BY <1>3, AddColumnKeeps
  <1>4. ASSUME NEW t \in DOMAIN db, NEW c \in ColName, drop_column(t, c)
        PROVE  Good(db') /\ StepKeepsCells
    BY <1>4, DropColumnKeeps
  <1>5. ASSUME NEW t \in DOMAIN db, NEW c \in ColName, NEW to \in 1..MaxCols,
               move_column(t, c, to)
        PROVE  Good(db') /\ StepKeepsCells
    <2>1. to \in Nat
      BY RelationalAssumption
    <2>2. QED
      BY <1>5, <2>1, MoveColumnKeeps
  <1>6. ASSUME NEW t \in DOMAIN db, NEW old \in ColName, NEW new \in ColName,
               rename_column(t, old, new)
        PROVE  Good(db') /\ StepKeepsCells
    BY <1>6, RenameColumnKeeps
  <1>7. ASSUME NEW t \in DOMAIN db, NEW c \in ColName, NEW u \in BOOLEAN, set_unique(t, c, u)
        PROVE  Good(db') /\ StepKeepsCells
    BY <1>7, SetUniqueKeeps
  <1>8. ASSUME NEW t \in DOMAIN db, NEW f \in ColName, NEW c \in ColName, NEW o \in TableName,
               add_fk(t, f, o, c)
        PROVE  Good(db') /\ StepKeepsCells
    BY <1>8, AddFkKeeps
  <1>9. ASSUME NEW t \in DOMAIN db, NEW name \in ColName \X (1..(MaxFks + 1)), drop_fk(t, name)
        PROVE  Good(db') /\ StepKeepsCells
    BY <1>9, DropFkKeeps
  <1>10. ASSUME NEW t \in DOMAIN db, NEW cols \in Labels, set_reference_columns(t, cols)
         PROVE  Good(db') /\ StepKeepsCells
    <2>1. cols \in Seq(ColName)
      BY RelationalAssumption DEF Labels
    <2>2. QED
      BY <1>10, <2>1, SetReferenceColumnsKeeps
  <1>11. ASSUME NEW t \in DOMAIN db, NEW c \in ColName, NEW w \in Width,
                set_display_width(t, c, w)
         PROVE  Good(db') /\ StepKeepsCells
    BY <1>11, SetDisplayWidthKeeps
  <1>12. ASSUME NEW t \in DOMAIN db, NEW cells \in Rows(t), insert(t, cells)
         PROVE  Good(db') /\ StepKeepsCells
    BY <1>12, InsertKeeps
  <1>13. ASSUME NEW t \in DOMAIN db, NEW id \in DOMAIN db[t].rows, NEW cells \in Rows(t),
                update(t, id, cells)
         PROVE  Good(db') /\ StepKeepsCells
    BY <1>13, UpdateKeeps
  <1>14. ASSUME NEW t \in DOMAIN db, NEW id \in DOMAIN db[t].rows, delete(t, id)
         PROVE  Good(db') /\ StepKeepsCells
    BY <1>14, DeleteKeeps
  <1>15. CASE SchemaStep
    BY <1>1, <1>2, <1>3, <1>4, <1>5, <1>6, <1>7, <1>8, <1>9, <1>10, <1>11, <1>15
       DEF SchemaStep
  <1>16. CASE DataStep
    BY <1>12, <1>13, <1>14, <1>16 DEF DataStep
  <1>17. QED
    BY <1>15, <1>16 DEF Next

LEMMA AlwaysGood == Spec => []Good(db)
  <1> DEFINE G == Good(db)
  <1>1. Init => G
    BY InitGood
  <1>2. G /\ [Next]_db => G'
    BY NextKeeps
  <1> HIDE DEF G
  <1>3. Spec => []G
    BY <1>1, <1>2, PTL DEF Spec
  <1>4. QED
    BY <1>3 DEF G

\* The invariant of the relational store: types, sound schemas, rows that fit
\* them, UNIQUE columns and referential integrity, for any number of tables,
\* columns, foreign keys and rows.
THEOREM RelationalInvariant == Spec => []RelationalInv
  BY AlwaysGood, InvIsGood, PTL

\* Store::tx keeps the catalog well typed: slots and row counts stay in range
\* and ids are positions of slots.
THEOREM TypeCorrect == Spec => []TypeOK
  <1>1. RelationalInv => TypeOK
    BY DEF RelationalInv
  <1>2. QED
    BY <1>1, RelationalInvariant, PTL

\* The unwrap() calls of update, delete, follow_fk and referencing_rows never
\* panic: every key names columns that exist, its target UNIQUE.
THEOREM SchemasSound == Spec => []SchemaSound
  <1>1. RelationalInv => SchemaSound
    BY DEF RelationalInv
  <1>2. QED
    BY <1>1, RelationalInvariant, PTL

\* Every live row has one fitting cell per column and row_count counts them,
\* whatever schema edits rewrote the rows.
THEOREM RowsAlwaysFit == Spec => []RowsFit
  <1>1. RelationalInv => RowsFit
    BY DEF RelationalInv
  <1>2. QED
    BY <1>1, RelationalInvariant, PTL

\* No column that is UNIQUE now holds a value twice.
THEOREM UniqueAlways == Spec => []UniqueHolds
  <1>1. RelationalInv => UniqueHolds
    BY DEF RelationalInv
  <1>2. QED
    BY <1>1, RelationalInvariant, PTL

\* Referential integrity: validate, add_fk, update, delete, drop_table and
\* drop_column together leave no foreign key without its target.
THEOREM ReferentialIntegrity == Spec => []RefIntegrity
  <1>1. RelationalInv => RefIntegrity
    BY DEF RelationalInv
  <1>2. QED
    BY <1>1, RelationalInvariant, PTL

\* follow_fk from a key that is not NULL leads to exactly one row, and
\* referencing_rows of that row leads back.
THEOREM NavigationAlways == Spec => []Navigable
  <1>1. Good(db) => Navigable
    <2> SUFFICES ASSUME Good(db), NEW t \in DOMAIN db, NEW id \in DOMAIN db[t].rows,
                        NEW f \in ToSet(db[t].fks), CellOf(db[t], id, f.from_col) # Null
                 PROVE  \E r \in DOMAIN db[f.to_table].rows :
                           /\ follow_fk(t, id, f) = {r}
                           /\ <<t, f, id>> \in referencing_rows(f.to_table, r)
      BY DEF Navigable
    <2> DEFINE o == f.to_table
               v == CellOf(db[t], id, f.from_col)
    <2>1. KeyOk(db, t, f)
      BY DEF Good, ToSet
    <2>2. PICK r \in DOMAIN db[o].rows : CellOf(db[o], r, f.to_col) = v
      BY <2>1, KeyHasTarget
    <2>3. o \in DOMAIN db /\ Sound(db[o])
      BY <2>1 DEF Good, KeyOk
    <2>4. ASSUME NEW q \in DOMAIN db[o].rows, CellOf(db[o], q, f.to_col) = v
          PROVE  q = r
      <3> DEFINE tc == column_index(db[o], f.to_col)
      <3>1. tc \in DOMAIN db[o].columns /\ db[o].columns[tc].unique
        BY <2>1, <2>3, LookedUp DEF KeyOk, Sound
      <3>2. db[o].rows[q][tc] = db[o].rows[r][tc] /\ db[o].rows[q][tc] # Null
        BY <2>2, <2>4 DEF CellOf
      <3> HIDE DEF tc
      <3>3. QED
        BY <2>3, <3>1, <3>2 DEF Sound, DataOk
    <2>5. follow_fk(t, id, f) = {r}
      BY <2>2, <2>4 DEF follow_fk
    <2>6. <<t, f, id>> \in referencing_rows(o, r)
      <3>1. id \in {p \in DOMAIN db[t].rows :
                      /\ CellOf(db[o], r, f.to_col) # Null
                      /\ CellOf(db[t], p, f.from_col) = CellOf(db[o], r, f.to_col)}
        BY <2>2
      <3>2. f \in {g \in ToSet(db[t].fks) : g.to_table = o}
        OBVIOUS
      <3>3. QED
        BY <3>1, <3>2 DEF referencing_rows
    <2>7. QED
      BY <2>5, <2>6
  <1>2. QED
    BY <1>1, AlwaysGood, PTL

\* Schema edits rewrite rows by position: what a row holds under a column name
\* that stays never changes, no row appears or vanishes, and no id is reused.
THEOREM EditsAlwaysKeepCells == Spec => EditsKeepCells
  <1> DEFINE Step == \A t \in DOMAIN db \cap DOMAIN db' :
        /\ \A id \in DOMAIN db'[t].rows \ DOMAIN db[t].rows : id > db[t].slots
        /\ db'[t].columns # db[t].columns =>
             /\ DOMAIN db'[t].rows = DOMAIN db[t].rows
             /\ \A id \in DOMAIN db[t].rows :
                  \A x \in NamedCells(db, t, id), y \in NamedCells(db', t, id) :
                      x[1] = y[1] => x[2] = y[2]
  <1>1. StepKeepsCells => Step
    <2> SUFFICES ASSUME StepKeepsCells, NEW t \in DOMAIN db \cap DOMAIN db'
                 PROVE  /\ \A id \in DOMAIN db'[t].rows \ DOMAIN db[t].rows : id > db[t].slots
                        /\ db'[t].columns # db[t].columns =>
                             /\ DOMAIN db'[t].rows = DOMAIN db[t].rows
                             /\ \A id \in DOMAIN db[t].rows :
                                  \A x \in NamedCells(db, t, id), y \in NamedCells(db', t, id) :
                                      x[1] = y[1] => x[2] = y[2]
      OBVIOUS
    <2>1. KeepsCells(db[t], db'[t])
      BY DEF StepKeepsCells
    <2>2. ASSUME db'[t].columns # db[t].columns, NEW id \in DOMAIN db[t].rows,
                 NEW x \in NamedCells(db, t, id), NEW y \in NamedCells(db', t, id), x[1] = y[1]
          PROVE  x[2] = y[2]
      <3>1. PICK i \in DOMAIN db[t].columns : x = <<db[t].columns[i].name, db[t].rows[id][i]>>
        BY DEF NamedCells
      <3>2. PICK j \in DOMAIN db'[t].columns : y = <<db'[t].columns[j].name, db'[t].rows[id][j]>>
        BY DEF NamedCells
      <3>3. QED
        BY <2>1, <2>2, <3>1, <3>2 DEF KeepsCells
    <2>3. QED
      BY <2>1, <2>2 DEF KeepsCells
  <1>2. Good(db) /\ [Next]_db => [Step]_db
    BY <1>1, NextKeeps
  <1>3. EditsKeepCells <=> [][Step]_db
    BY DEF EditsKeepCells
  <1> HIDE DEF Step
  <1>4. QED
    BY <1>2, <1>3, AlwaysGood, PTL DEF Spec

=============================================================================
