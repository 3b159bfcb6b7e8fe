----------------------- MODULE PartitionsRangesProofs -----------------------
(***************************************************************************)
(* The ranges of the active partitions of an index without a unique key    *)
(* cover every key once and hold the rows of their partition, for any      *)
(* number of inserts, keys, workers, splits, failures and collections, so  *)
(* that every row that is inserted or moved finds its partition.  With a   *)
(* unique key this is not so: see the gaps in the README.                  *)
(***************************************************************************)
EXTENDS PartitionsContentsProofs

(* Positions of rows *)

\* A greater factor gives a greater product.
LEMMA ProductGrows ==
  ASSUME NEW a \in Nat, NEW b \in Nat, a < b, NEW w \in Nat \ {0}
  PROVE  a * w < b * w /\ a * w \in Nat /\ b * w \in Nat
<1>1. PICK d \in Nat \ {0} : b = a + d
  <2>1. b - a \in Nat \ {0} /\ b = a + (b - a)
    OBVIOUS
  <2> QED BY <2>1
<1>2. (a + d) * w = a * w + d * w
  OBVIOUS
<1>3. d * w > 0
  OBVIOUS
<1>4. a * w \in Nat /\ b * w \in Nat /\ d * w \in Nat
  OBVIOUS
<1>5. b * w = a * w + d * w
  BY <1>1, <1>2
<1> QED BY <1>3, <1>4, <1>5

\* The position of a row is that of its key, between the bounds of the first partition.
LEMMA PositionFacts ==
  ASSUME ~UniqueKey
  PROVE  /\ NoHigh \in Nat
         /\ \A r \in Row : Pos(r) \in Nat /\ NoLow <= Pos(r) /\ Pos(r) < NoHigh
         /\ \A r, t \in Row : r[1] < t[1] => Pos(r) < Pos(t)
         /\ \A r, t \in Row : r[1] = t[1] => Pos(r) = Pos(t)
<1>1. Width \in Nat \ {0}
  <2>1. IsFiniteSet(Insert) /\ Insert \subseteq Nat
    BY PartitionsAssumption
  <2>2. IsFiniteSet(Insert \cup {0}) /\ Insert \cup {0} \in SUBSET Int /\ Insert \cup {0} # {}
    <3>1. IsFiniteSet(Insert \cup {0})
      BY <2>1, FS_AddElement
    <3> QED BY <2>1, <3>1
  <2>3. Max(Insert \cup {0}) \in Insert \cup {0}
    BY <2>2, FiniteHasMax
  <2>4. PICK m : m = Max(Insert \cup {0})
    OBVIOUS
  <2>5. m \in Nat
    <3>1. m \in Insert \cup {0}
      BY <2>3, <2>4
    <3> QED BY <2>1, <3>1
  <2>6. Width = m + 1
    BY <2>4 DEF Width
  <2> QED BY <2>5, <2>6
<1>2. Key \in SUBSET Key /\ IsFiniteSet(Key) /\ Key \subseteq Nat
  BY KeyFinite
<1>3. Max(Key \cup {0}) \in Nat /\ \A k \in Key : k <= Max(Key \cup {0})
  <2>1. IsFiniteSet(Key \cup {0}) /\ Key \cup {0} \in SUBSET Int /\ Key \cup {0} # {}
    <3>1. IsFiniteSet(Key \cup {0})
      BY <1>2, FS_AddElement
    <3> QED BY <1>2, <3>1
  <2>2. Max(Key \cup {0}) \in Key \cup {0} /\ \A k \in Key \cup {0} : k <= Max(Key \cup {0})
    BY <2>1, FiniteHasMax
  <2>3. PICK m : m = Max(Key \cup {0})
    OBVIOUS
  <2>4. m \in Key \cup {0} /\ \A k \in Key : k <= m
    BY <2>2, <2>3
  <2>5. m \in Nat
    BY <1>2, <2>4
  <2> QED BY <2>3, <2>4, <2>5
<1>4. \A r \in Row : r[1] \in Key /\ r[1] \in Nat
  BY <1>2, RowParts
<1>5. \A r \in Row : Pos(r) = r[1] * Width
  <2>1. \A r \in Row : r[1] * Width \in Nat
    BY <1>1, <1>4
  <2> QED BY <2>1 DEF Pos
<1>6. NoHigh = (Max(Key \cup {0}) + 1) * Width
  BY DEF NoHigh
<1> HIDE DEF Width
<1>7. ASSUME NEW r \in Row PROVE Pos(r) \in Nat /\ Pos(r) < NoHigh /\ NoHigh \in Nat
  <2>1. r[1] < Max(Key \cup {0}) + 1 /\ Max(Key \cup {0}) + 1 \in Nat /\ r[1] \in Nat
    BY <1>3, <1>4
  <2>2. r[1] * Width < (Max(Key \cup {0}) + 1) * Width
    BY <1>1, <2>1, ProductGrows
  <2>3. r[1] * Width \in Nat /\ (Max(Key \cup {0}) + 1) * Width \in Nat
    BY <1>1, <2>1, ProductGrows
  <2> QED BY <1>5, <1>6, <2>2, <2>3
<1>8. NoHigh \in Nat
  BY <1>1, <1>3, <1>6
<1>9. ASSUME NEW r \in Row, NEW t \in Row, r[1] < t[1] PROVE Pos(r) < Pos(t)
  BY <1>1, <1>4, <1>5, <1>9, ProductGrows
<1>10. \A r, t \in Row : r[1] = t[1] => Pos(r) = Pos(t)
  BY <1>5
<1>11. \A r \in Row : NoLow <= Pos(r)
  BY <1>7 DEF NoLow
<1> QED BY <1>7, <1>8, <1>9, <1>10, <1>11

\* The positions of rows are a finite set.
LEMMA RowsFinite == ASSUME NEW rows \in SUBSET Row PROVE IsFiniteSet(rows)
<1>1. IsFiniteSet(Key) /\ IsFiniteSet(Insert)
  BY KeyFinite, PartitionsAssumption
<1>2. IsFiniteSet(Row)
  BY <1>1, FS_Product DEF Row
<1> QED BY <1>2, FS_Subset

\* The lowest position of rows is that of one of them.
LEMMA LowPosIsLow ==
  ASSUME ~UniqueKey, NEW rows \in SUBSET Row, rows # {}
  PROVE  /\ \E r \in rows : LowPos(rows) = Pos(r)
         /\ \A r \in rows : LowPos(rows) <= Pos(r)
<1> DEFINE P == {Pos(r) : r \in rows}
           f == [r \in rows |-> Pos(r)]
<1>1. IsFiniteSet(P)
  <2>1. f \in Surjection(rows, P)
    BY DEF Surjection
  <2> QED BY <2>1, RowsFinite, FS_Surjection
<1>2. P \in SUBSET Int /\ P # {}
  BY PositionFacts
<1>3. Min(P) \in P /\ \A y \in P : Min(P) <= y
  BY <1>1, <1>2, FiniteHasMin
<1> QED BY <1>3 DEF LowPos

-----------------------------------------------------------------------------
(* Splits.  The files of a compaction are numbered like the children, and    *)
(* the keys of one are less than those of the next.                          *)

Sorted(out) ==
  \E a, b \in PId :
    /\ a <= b /\ DOMAIN out = a .. b
    /\ a < b => \A q \in a .. b : out[q] # {}
    /\ \A p, q \in a .. b : p < q => \A r \in out[p], t \in out[q] : r[1] < t[1]

\* The files of a compaction are sorted, and none is empty when there are several.
LEMMA SlicesAreSorted ==
  ASSUME Shape, NEW s \in Slot, job[s].pc = "merging",
         NEW a \in Nat, NEW b \in Nat, job[s].kids = a .. b,
         NEW cuts, Writes(s, cuts)
  PROVE  Sorted(SplitAt(job[s], cuts))
<1> DEFINE rows == MergedRows(job[s])
           keys == KeysToMerge(job[s])
           out == SplitAt(job[s], cuts)
           n == Cardinality(cuts)
<1>0. rows \in SUBSET Row /\ \A r \in rows : r[1] \in keys /\ r[1] \in Int
  <2>1. rows \in SUBSET Row
    BY MergedAreRows
  <2>2. \A r \in rows : r[1] \in Key
    BY <2>1, RowParts
  <2>3. Key \in SUBSET Int
    <3>1. Key \in SUBSET Key
      OBVIOUS
    <3> QED BY <3>1, KeyFinite
  <2>4. \A r \in rows : r[1] \in keys
    BY DEF KeysToMerge
  <2> QED BY <2>1, <2>2, <2>3, <2>4
<1>1. keys \in SUBSET Int /\ IsFiniteSet(keys) /\ \A k \in keys : \E r \in rows : r[1] = k
  <2>1. keys \in SUBSET Key
    BY <1>0, RowParts DEF KeysToMerge
  <2>2. IsFiniteSet(keys) /\ keys \in SUBSET (Nat \ {0})
    BY <2>1, KeyFinite
  <2> QED BY <2>2 DEF KeysToMerge
<1>2. cuts \in SUBSET (keys \ {Min(keys)}) /\ n + 1 <= Cardinality(a .. b)
  BY DEF Writes
<1>3. cuts \in SUBSET Int /\ IsFiniteSet(cuts)
  <2>1. cuts \in SUBSET keys
    BY <1>2
  <2> HIDE DEF keys
  <2> QED BY <1>1, <2>1, FS_Subset
<1>4. n \in Nat
  BY <1>3, FS_CardinalityType
<1>5. a <= b /\ a + n <= b
  <2>1. Cardinality(a .. b) = IF a > b THEN 0 ELSE b - a + 1
    BY FS_Interval
  <2> QED BY <1>2, <1>4, <2>1
<1>6. Min(a .. b) = a
  <2>1. a \in a .. b /\ \A y \in a .. b : a <= y
    BY <1>5
  <2>2. IsFiniteSet(a .. b) /\ a .. b \in SUBSET Int /\ a .. b # {}
    <3>1. IsFiniteSet(a .. b)
      BY FS_Interval
    <3>2. a .. b \in SUBSET Int
      OBVIOUS
    <3> QED BY <2>1, <3>1, <3>2
  <2>3. Min(a .. b) \in a .. b /\ \A y \in a .. b : Min(a .. b) <= y
    BY <2>2, FiniteHasMin
  <2>4. Min(a .. b) <= a /\ a <= Min(a .. b) /\ Min(a .. b) \in Int
    BY <2>1, <2>2, <2>3
  <2> QED BY <2>4
<1>7. DOMAIN out = a .. a + n
  <2>1. DOMAIN out = {q \in a .. b : q < a + n + 1}
    BY <1>6 DEF SplitAt, UsedKids
  <2> HIDE DEF n
  <2>2. {q \in a .. b : q < a + n + 1} = a .. a + n
    BY <1>4, <1>5
  <2> QED BY <2>1, <2>2 DEF n
<1>8. ASSUME NEW q \in a .. a + n
      PROVE  out[q] = {r \in rows : Cardinality(Upto(cuts, r[1])) = (q - a + 1) - 1}
  <2>1. q \in UsedKids(job[s], cuts)
    BY <1>7, <1>8 DEF SplitAt
  <2> QED BY <1>6, <2>1 DEF SplitAt, Slice, Upto
<1>9. a .. a + n \in SUBSET PId
  <2>1. a .. b \in SUBSET PId
    BY JobCases
  <2> HIDE DEF n
  <2> QED BY <1>4, <1>5, <2>1
<1> HIDE DEF rows, keys, out, n
<1>10. a \in PId /\ a + n \in PId /\ a <= a + n
  BY <1>4, <1>9
<1>11. ASSUME a < a + n, NEW q \in a .. a + n
       PROVE  out[q] # {}
  <2>0. cuts # {} /\ n > 0
    <3>1. Cardinality({}) = 0
      BY FS_EmptySet
    <3> QED BY <1>4, <1>11, <3>1 DEF n
  <2>1. CASE q = a
    <3>1. keys # {}
      BY <1>2, <2>0
    <3>2. Min(keys) \in keys /\ \A y \in keys : Min(keys) <= y
      BY <1>1, <3>1, FiniteHasMin
    <3>3. PICK r \in rows : r[1] = Min(keys)
      BY <1>1, <3>2
    <3>4. Upto(cuts, r[1]) = {}
      <4>1. ASSUME NEW y \in cuts, y <= r[1] PROVE FALSE
        <5>1. y \in keys /\ y # Min(keys)
          BY <1>2
        <5>2. y \in Int /\ r[1] \in Int /\ r[1] <= y
          BY <1>0, <1>3, <3>2, <3>3, <5>1
        <5> QED BY <3>3, <4>1, <5>1, <5>2
      <4> QED BY <4>1 DEF Upto
    <3>5. Cardinality(Upto(cuts, r[1])) = (q - a + 1) - 1
      <4>1. Cardinality({}) = 0
        BY FS_EmptySet
      <4> QED BY <2>1, <3>4, <4>1
    <3> QED BY <1>8, <3>5
  <2>2. CASE q # a
    <3> DEFINE j == q - a
    <3>1. j \in Nat \ {0} /\ j <= Cardinality(cuts) /\ j = (q - a + 1) - 1
      BY <1>4, <2>2 DEF n
    <3> HIDE DEF j
    <3>2. PICK k \in cuts : Cardinality(Upto(cuts, k)) = j
      BY <1>3, <3>1, CountReaches
    <3>3. PICK r \in rows : r[1] = k
      BY <1>1, <1>2
    <3> QED BY <1>8, <3>1, <3>2, <3>3
  <2> QED BY <2>1, <2>2
<1>12. ASSUME NEW p \in a .. a + n, NEW q \in a .. a + n, p < q, NEW r \in out[p], NEW t \in out[q]
       PROVE  r[1] < t[1]
  <2>1. /\ r \in rows /\ Cardinality(Upto(cuts, r[1])) = (p - a + 1) - 1
        /\ t \in rows /\ Cardinality(Upto(cuts, t[1])) = (q - a + 1) - 1
    BY <1>8
  <2>2. r[1] \in Int /\ t[1] \in Int
    BY <1>0, <2>1
  <2>3. ASSUME t[1] <= r[1] PROVE FALSE
    <3>1. Upto(cuts, t[1]) \in SUBSET Upto(cuts, r[1])
      <4>1. ASSUME NEW y \in cuts, y <= t[1] PROVE y <= r[1]
        BY <1>3, <2>2, <2>3, <4>1
      <4> QED BY <4>1 DEF Upto
    <3>2. IsFiniteSet(Upto(cuts, r[1]))
      BY <1>3, <2>2, UptoFacts
    <3>3. Cardinality(Upto(cuts, t[1])) <= Cardinality(Upto(cuts, r[1]))
      BY <3>1, <3>2, FS_Subset
    <3> QED BY <1>12, <2>1, <3>3
  <2> QED BY <2>2, <2>3
<1>13. DOMAIN out = a .. a + n /\ (a < a + n => \A q \in a .. a + n : out[q] # {})
  BY <1>7, <1>11
<1>14. Sorted(out)
  BY <1>10, <1>12, <1>13 DEF Sorted
<1> QED BY <1>14 DEF out

-----------------------------------------------------------------------------
(* The ranges of children *)

\* What a range is, and what rows in it are
Between(lo, hi, r) == lo <= Pos(r) /\ Pos(r) < hi

\* Where the ranges of the children between a and b start and end, when the range of
\* their partition is from lo to hi: what ChildLow and ChildHigh say.
ChildRanges(out, a, b, lo, hi, L, H) ==
  \A q \in a .. b :
    /\ L[q] = IF q = a /\ (a = b \/ lo = NoLow) THEN lo ELSE LowPos(out[q])
    /\ H[q] = IF q = b THEN hi ELSE LowPos(out[q + 1])

\* The children of a split: their files hold rows of the range, each once and sorted, and
\* a range that does not start at the lowest position starts at one of these rows.
SplitOf(out, a, b, lo, hi) ==
  /\ a <= b /\ DOMAIN out = a .. b
  /\ \A q \in a .. b : out[q] \in SUBSET Row /\ \A r \in out[q] : Between(lo, hi, r)
  /\ a < b => \A q \in a .. b : out[q] # {}
  /\ \A p, q \in a .. b : p < q => \A r \in out[p], t \in out[q] : r[1] < t[1]
  /\ lo # NoLow => \E q \in a .. b : \E r \in out[q] : Pos(r) = lo

\* Where ranges start: the first one where the whole starts, the others at their lowest
\* row; each ends where the next one starts.
StartAtRows(out, a, b, lo, hi, L, H) ==
  /\ L[a] = lo
  /\ \A q \in a .. b : q # a => /\ L[q] \in Nat /\ \A r \in out[q] : L[q] <= Pos(r)
                                /\ \E r \in out[q] : L[q] = Pos(r)
  /\ \A q \in a .. b : q # b => H[q] = L[q + 1]
  /\ H[b] = hi
  /\ lo # NoLow => \E r \in out[a] : Pos(r) = lo

\* What ranges should be: parts of the whole that hold the rows of their files, start at
\* one of them or where every range starts, and cover the whole once.
CoverOnce(out, a, b, lo, hi, L, H) ==
  /\ \A q \in a .. b : L[q] \in Nat /\ H[q] \in Nat
  /\ \A q \in a .. b : \A r \in out[q] : Between(L[q], H[q], r)
  /\ \A q \in a .. b : \A r \in Row : Between(L[q], H[q], r) => Between(lo, hi, r)
  /\ \A q \in a .. b : L[q] # NoLow => \E r \in out[q] : Pos(r) = L[q]
  /\ \A r \in Row : Between(lo, hi, r) =>
       \E q \in a .. b : /\ Between(L[q], H[q], r)
                         /\ \A p \in a .. b : Between(L[p], H[p], r) => p = q

\* The first child starts where the range starts, and the others at their lowest row.
LEMMA ChildLows ==
  ASSUME ~UniqueKey, NEW a \in Nat, NEW b \in Nat, NEW lo \in Nat, NEW hi \in Nat,
         NEW out, NEW L, NEW H,
         SplitOf(out, a, b, lo, hi), ChildRanges(out, a, b, lo, hi, L, H)
  PROVE  StartAtRows(out, a, b, lo, hi, L, H)
<1>0. a \in a .. b /\ b \in a .. b
  BY DEF SplitOf
<1>1. \A q \in a .. b : out[q] \in SUBSET Row /\ \A r \in out[q] : Pos(r) \in Nat
  BY PositionFacts DEF SplitOf
<1>2. ASSUME NEW q \in a .. b, q # a
      PROVE  /\ L[q] \in Nat /\ \A r \in out[q] : L[q] <= Pos(r)
             /\ \E r \in out[q] : L[q] = Pos(r)
  <2>1. a < b
    BY <1>2
  <2>2. out[q] # {} /\ out[q] \in SUBSET Row
    BY <2>1 DEF SplitOf
  <2>3. L[q] = LowPos(out[q])
    BY <1>2 DEF ChildRanges
  <2>4. /\ \E r \in out[q] : LowPos(out[q]) = Pos(r)
        /\ \A r \in out[q] : LowPos(out[q]) <= Pos(r)
    BY <2>2, LowPosIsLow
  <2> QED BY <1>1, <2>3, <2>4
<1>3. ASSUME NEW q \in a .. b, q # b
      PROVE  H[q] = L[q + 1]
  <2>1. q + 1 \in a .. b /\ q + 1 # a
    BY <1>3
  <2> QED BY <1>3, <2>1 DEF ChildRanges
<1>4. H[b] = hi
  BY <1>0 DEF ChildRanges
<1>5. ASSUME lo # NoLow PROVE \E r \in out[a] : Pos(r) = lo
  <2>1. PICK q \in a .. b : \E r \in out[q] : Pos(r) = lo
    BY <1>5 DEF SplitOf
  <2>2. PICK z \in out[q] : Pos(z) = lo
    BY <2>1
  <2>3. ASSUME q # a PROVE FALSE
    <3>1. a < q /\ a < b
      BY <2>3
    <3>2. out[a] # {}
      BY <1>0, <3>1 DEF SplitOf
    <3>3. PICK x \in out[a] : TRUE
      BY <3>2
    <3>4. x[1] < z[1] /\ lo <= Pos(x)
      BY <1>0, <3>1 DEF SplitOf, Between
    <3>5. x \in Row /\ z \in Row /\ Pos(x) \in Nat
      BY <1>0, <1>1
    <3>6. Pos(x) < Pos(z)
      BY <3>4, <3>5, PositionFacts
    <3> QED BY <2>2, <3>4, <3>5, <3>6
  <2> QED BY <2>2, <2>3
<1>6. L[a] = lo
  <2>1. CASE a = b \/ lo = NoLow
    BY <1>0, <2>1 DEF ChildRanges
  <2>2. CASE a # b /\ lo # NoLow
    <3>1. L[a] = LowPos(out[a])
      BY <1>0, <2>2 DEF ChildRanges
    <3>2. PICK z \in out[a] : Pos(z) = lo
      BY <1>5, <2>2
    <3>3. out[a] # {} /\ out[a] \in SUBSET Row
      BY <1>0, <1>1, <3>2
    <3>4. PICK x \in out[a] : LowPos(out[a]) = Pos(x)
      BY <3>3, LowPosIsLow
    <3>5. LowPos(out[a]) <= lo
      BY <3>2, <3>3, LowPosIsLow
    <3>6. lo <= Pos(x) /\ Pos(x) \in Nat
      BY <1>0, <1>1 DEF SplitOf, Between
    <3> QED BY <3>1, <3>4, <3>5, <3>6
  <2> QED BY <2>1, <2>2
<1> QED BY <1>2, <1>3, <1>4, <1>5, <1>6 DEF StartAtRows

\* The ranges of the children are what they should be.
LEMMA ChildrenCover ==
  ASSUME ~UniqueKey, NEW a \in Nat, NEW b \in Nat, NEW lo \in Nat, NEW hi \in Nat,
         NEW out, NEW L, NEW H,
         SplitOf(out, a, b, lo, hi), ChildRanges(out, a, b, lo, hi, L, H)
  PROVE  CoverOnce(out, a, b, lo, hi, L, H)
<1>0. a \in a .. b /\ b \in a .. b /\ a <= b
  BY DEF SplitOf
<1>1. \A q \in a .. b : out[q] \in SUBSET Row /\ \A r \in out[q] : Pos(r) \in Nat
  BY PositionFacts DEF SplitOf
<1>2. /\ L[a] = lo
      /\ \A q \in a .. b : q # a => /\ L[q] \in Nat /\ \A r \in out[q] : L[q] <= Pos(r)
                                    /\ \E r \in out[q] : L[q] = Pos(r)
      /\ \A q \in a .. b : q # b => H[q] = L[q + 1]
      /\ H[b] = hi
      /\ lo # NoLow => \E r \in out[a] : Pos(r) = lo
  <2>1. StartAtRows(out, a, b, lo, hi, L, H)
    BY ChildLows
  <2> QED BY <2>1 DEF StartAtRows
<1>3. \A q \in a .. b : \A r \in out[q] : lo <= Pos(r) /\ Pos(r) < hi
  BY DEF SplitOf, Between
<1>4. ASSUME NEW q \in a .. b PROVE q # b => q + 1 \in a .. b /\ q + 1 # a
  OBVIOUS
<1>5. \A q \in a .. b : L[q] \in Nat
  BY <1>2
<1>6. \A q \in a .. b : H[q] \in Nat
  BY <1>2, <1>4, <1>5
<1>7. \A q \in a .. b : \A r \in out[q] : L[q] <= Pos(r)
  BY <1>2, <1>3
<1>8. ASSUME NEW q \in a .. b, NEW r \in out[q] PROVE Pos(r) < H[q]
  <2>1. CASE q = b
    BY <1>2, <1>3, <2>1
  <2>2. CASE q # b
    <3>1. q + 1 \in a .. b /\ q + 1 # a /\ q < q + 1
      BY <1>4, <2>2
    <3>2. PICK t \in out[q + 1] : L[q + 1] = Pos(t)
      BY <1>2, <3>1
    <3>3. r[1] < t[1]
      BY <3>1 DEF SplitOf
    <3>4. r \in Row /\ t \in Row
      BY <1>1, <3>1
    <3>5. Pos(r) < Pos(t)
      BY <3>3, <3>4, PositionFacts
    <3> QED BY <1>2, <2>2, <3>2, <3>5
  <2> QED BY <2>1, <2>2
<1>9. ASSUME NEW q \in a .. b PROVE lo <= L[q] /\ H[q] <= hi
  <2>1. lo <= L[q]
    BY <1>2, <1>3
  <2>2. CASE q = b
    BY <1>2, <2>1, <2>2
  <2>3. CASE q # b
    <3>1. q + 1 \in a .. b /\ q + 1 # a
      BY <1>4, <2>3
    <3>2. PICK t \in out[q + 1] : L[q + 1] = Pos(t)
      BY <1>2, <3>1
    <3>3. Pos(t) < hi /\ Pos(t) \in Nat
      BY <1>1, <1>3, <3>1
    <3> QED BY <1>2, <2>1, <2>3, <3>2, <3>3
  <2> QED BY <2>2, <2>3
<1>10. ASSUME NEW p \in a .. b, NEW q \in a .. b, p < q PROVE H[p] <= L[q]
  <2>1. p # b /\ p + 1 \in a .. b /\ p + 1 <= q /\ q # a
    BY <1>10
  <2>2. H[p] = L[p + 1]
    BY <1>2, <2>1
  <2>3. CASE p + 1 = q
    BY <1>5, <2>2, <2>3
  <2>4. CASE p + 1 # q
    <3>1. p + 1 < q /\ p + 1 # a
      BY <2>1, <2>4
    <3>2. PICK x \in out[p + 1] : L[p + 1] = Pos(x)
      BY <1>2, <2>1, <3>1
    <3>3. PICK z \in out[q] : L[q] = Pos(z)
      BY <1>2, <2>1
    <3>4. x[1] < z[1]
      BY <2>1, <3>1 DEF SplitOf
    <3>5. x \in Row /\ z \in Row
      BY <1>1, <2>1
    <3>6. Pos(x) < Pos(z) /\ Pos(x) \in Nat /\ Pos(z) \in Nat
      BY <3>4, <3>5, PositionFacts
    <3> QED BY <2>2, <3>2, <3>3, <3>6
  <2> QED BY <2>3, <2>4
<1>11. ASSUME NEW r \in Row, Between(lo, hi, r)
       PROVE  \E q \in a .. b : /\ Between(L[q], H[q], r)
                                /\ \A p \in a .. b : Between(L[p], H[p], r) => p = q
  <2>0. Pos(r) \in Nat /\ lo <= Pos(r) /\ Pos(r) < hi
    BY <1>11, PositionFacts DEF Between
  <2> DEFINE x == Pos(r)
             B == {q \in a .. b : L[q] <= x}
  <2>1. a \in B
    BY <1>0, <1>2, <2>0
  <2>2. \A q \in B : q \in a .. b /\ L[q] <= x
    OBVIOUS
  <2>3. \A q \in a .. b : L[q] <= x => q \in B
    OBVIOUS
  <2>4. IsFiniteSet(B)
    <3>1. IsFiniteSet(a .. b)
      BY FS_Interval
    <3>2. B \in SUBSET (a .. b)
      OBVIOUS
    <3> HIDE DEF B
    <3> QED BY <3>1, <3>2, FS_Subset
  <2> HIDE DEF B
  <2>5. B \in SUBSET Int /\ B # {}
    BY <2>1, <2>2
  <2>6. PICK m \in B : \A y \in B : y <= m
    BY <2>4, <2>5, FiniteHasMax
  <2>7. m \in a .. b /\ L[m] <= x
    BY <2>2
  <2>8. x < H[m]
    <3>1. CASE m = b
      <4>1. H[m] = hi
        BY <1>2, <3>1
      <4> QED BY <2>0, <4>1
    <3>2. CASE m # b
      <4>1. m + 1 \in a .. b /\ m < m + 1
        BY <1>4, <2>7, <3>2
      <4>2. ~(L[m + 1] <= x)
        BY <2>3, <2>6, <2>7, <4>1
      <4>3. L[m + 1] \in Nat /\ H[m] = L[m + 1]
        BY <1>2, <1>5, <2>7, <3>2, <4>1
      <4> QED BY <2>0, <4>2, <4>3
    <3> QED BY <3>1, <3>2
  <2>9. ASSUME NEW p \in a .. b, L[p] <= x, x < H[p] PROVE p = m
    <3>1. p \in B
      BY <2>3, <2>9
    <3>2. p <= m
      BY <2>6, <3>1
    <3>3. ASSUME p < m PROVE FALSE
      <4>1. H[p] <= L[m]
        BY <1>10, <2>7, <3>3
      <4>2. H[p] \in Nat /\ L[m] \in Nat
        BY <1>5, <1>6, <2>7
      <4> QED BY <2>0, <2>7, <2>9, <4>1, <4>2
    <3> QED BY <2>7, <3>2, <3>3
  <2> QED BY <2>7, <2>8, <2>9 DEF Between
<1>12. ASSUME NEW q \in a .. b, NEW r \in Row, Between(L[q], H[q], r)
       PROVE  Between(lo, hi, r)
  <2>1. Pos(r) \in Nat /\ L[q] \in Nat /\ H[q] \in Nat /\ L[q] <= Pos(r) /\ Pos(r) < H[q]
    BY <1>5, <1>6, <1>12, PositionFacts DEF Between
  <2>2. lo <= L[q] /\ H[q] <= hi
    BY <1>9
  <2> QED BY <2>1, <2>2 DEF Between
<1>13. \A q \in a .. b : \A r \in out[q] : Between(L[q], H[q], r)
  BY <1>7, <1>8 DEF Between
<1>14. \A q \in a .. b : L[q] # NoLow => \E r \in out[q] : Pos(r) = L[q]
  BY <1>2
<1> QED BY <1>5, <1>6, <1>11, <1>12, <1>13, <1>14 DEF CoverOnce

-----------------------------------------------------------------------------
(* What a step does to the ranges                                           *)

\* A partition with rows and a range that do not change any more
Known(p) ==
  p \in PId /\ partition[p].state # "free" /\ \A s \in Slot : p \notin Kids(s)

KeepsRange(p) ==
  /\ partition'[p].rows = partition[p].rows
  /\ partition'[p].lo = partition[p].lo /\ partition'[p].hi = partition[p].hi
Appears(p) ==
  /\ partition[p].state = "free" /\ partition'[p].rows = {}
  /\ partition'[p].lo = NoLow /\ partition'[p].hi = NoHigh
RangesStay ==
  \A p \in PId : (Active(p)' <=> Active(p)) /\ (KeepsRange(p) \/ Appears(p))

\* Partitions that change nothing but their parents, or become deleted, keep their ranges.
LEMMA RecordKeepsRange ==
  ASSUME Shape, NEW p \in PId,
         \/ partition'[p] = partition[p]
         \/ partition'[p] = [partition[p] EXCEPT !.state = "deleted"] /\ ~Active(p)
         \/ \E q : partition'[p] = [partition[p] EXCEPT !.parent = q]
  PROVE  (Active(p)' <=> Active(p)) /\ KeepsRange(p)
<1>1. PartitionRecord(partition[p])
  BY DEF Shape
<1>2. CASE partition'[p] = partition[p]
  BY <1>2 DEF Active, KeepsRange
<1>3. CASE partition'[p] = [partition[p] EXCEPT !.state = "deleted"] /\ ~Active(p)
  BY <1>1, <1>3 DEF Active, KeepsRange, PartitionRecord
<1>4. CASE \E q : partition'[p] = [partition[p] EXCEPT !.parent = q]
  BY <1>1, <1>4 DEF Active, KeepsRange, PartitionRecord
<1> QED BY <1>2, <1>3, <1>4

\* Only a swap changes which partitions are active, and the range of one that is not new.
LEMMA RangeSteps ==
  ASSUME Shape, Next
  PROVE  RangesStay \/ \E s \in Slot : Swaps(s) /\ JobEnds(s)
<1>1. ASSUME UNCHANGED partition PROVE RangesStay
  BY <1>1, RecordKeepsRange DEF RangesStay
<1>2. ASSUME NEW s \in Slot, CompactPlan(s) PROVE RangesStay
  <2>1. ASSUME NEW cs \in SUBSET CId, NEW kids \in SUBSET PId, Plans(s, cs, kids),
               NEW p \in PId
        PROVE  (Active(p)' <=> Active(p)) /\ (KeepsRange(p) \/ Appears(p))
    <3>1. CASE p \in kids
      <4>1. partition[p].state = "free" /\ partition'[p] = NewChild(job[s].part)
        BY <2>1, <3>1 DEF Plans
      <4> QED BY <4>1 DEF NewChild, NoPartition, Active, Appears
    <3>2. CASE p \notin kids
      <4>1. partition'[p] = partition[p]
        BY <2>1, <3>2 DEF Plans
      <4> QED BY <4>1, RecordKeepsRange
    <3> QED BY <3>1, <3>2
  <2>2. CASE \E cs \in SUBSET CId, kids \in SUBSET PId : Plans(s, cs, kids)
    BY <2>1, <2>2 DEF RangesStay
  <2> QED BY <1>1, <1>2, <2>2, CompactPlanCases
<1>3. ASSUME NEW s \in Slot, CompactWrite(s) PROVE RangesStay
  <2>1. ASSUME NEW cuts, Writes(s, cuts), NEW p \in PId
        PROVE  (Active(p)' <=> Active(p)) /\ KeepsRange(p)
    <3>1. \/ partition'[p] = partition[p]
          \/ /\ partition'[p] = [partition[p] EXCEPT !.state = "deleted"]
             /\ partition[p].state = "inactive"
      BY <2>1 DEF Writes, CanDropChildren
    <3> QED BY <3>1, RecordKeepsRange DEF Active
  <2>2. CASE \E cuts : Writes(s, cuts)
    BY <2>1, <2>2 DEF RangesStay
  <2> QED BY <1>1, <1>3, <2>2, CompactWriteCases
<1>4. ASSUME NEW s \in Slot, CompactSwap(s) PROVE RangesStay \/ (Swaps(s) /\ JobEnds(s))
  BY <1>1, <1>4 DEF CompactSwap, Swaps
<1>5. ASSUME NEW t \in gc, DeletePartition(t) PROVE RangesStay
  <2>1. ASSUME NEW p \in PId
        PROVE  \/ partition'[p] = partition[p]
               \/ partition'[p] = [partition[p] EXCEPT !.state = "deleted"] /\ ~Active(p)
    BY <1>5 DEF DeletePartition, CanDropChildren, Active, Shape
  <2> QED BY <2>1, RecordKeepsRange DEF RangesStay
<1>6. ASSUME NEW t \in gc, DeleteMiddleManPartition(t) PROVE RangesStay
  <2>1. ASSUME NEW p \in PId
        PROVE  \/ partition'[p] = partition[p]
               \/ partition'[p] = [partition[p] EXCEPT !.state = "deleted"] /\ ~Active(p)
               \/ \E q : partition'[p] = [partition[p] EXCEPT !.parent = q]
    <3>1. CASE p = t.id /\ MiddleMan(t.id)
      <4>1. partition'[p] = [partition[p] EXCEPT !.state = "deleted"]
        BY <1>6, <3>1 DEF DeleteMiddleManPartition
      <4> QED BY <3>1, <4>1 DEF MiddleMan, Active
    <3>2. CASE p # t.id /\ p \in ChildrenOf(t.id) /\ MiddleMan(t.id)
      <4>1. partition'[p] = [partition[p] EXCEPT !.parent = partition[t.id].parent]
        BY <1>6, <3>2 DEF DeleteMiddleManPartition
      <4> QED BY <4>1
    <3>3. CASE ~MiddleMan(t.id) \/ (p # t.id /\ p \notin ChildrenOf(t.id))
      <4>1. partition'[p] = partition[p]
        BY <1>6, <3>3 DEF DeleteMiddleManPartition
      <4> QED BY <4>1
    <3> QED BY <3>1, <3>2, <3>3
  <2> QED BY <2>1, RecordKeepsRange DEF RangesStay
<1> QED BY <1>1, <1>2, <1>3, <1>4, <1>5, <1>6, PartitionsUntouched

\* A swap makes the children active, with their rows and ranges, and the partition inactive.
LEMMA SwapSteps ==
  ASSUME Shape, FileInv, NEW s \in Slot, Swaps(s),
         NEW p, p = job[s].part, NEW out, out = job[s].out
  PROVE  /\ p \in PId /\ out \in Split /\ job[s].chunks \in SUBSET CId
         /\ DOMAIN out \in SUBSET PId /\ p \notin DOMAIN out
         /\ Active(p) /\ ~Active(p)' /\ KeepsRange(p)
         /\ \A q \in DOMAIN out :
              /\ ~Active(q) /\ Active(q)' /\ partition'[q].rows = out[q]
              /\ partition'[q].lo = ChildLow(job[s], q)
              /\ partition'[q].hi = ChildHigh(job[s], q)
         /\ \A q \in PId : q # p /\ q \notin DOMAIN out =>
              (Active(q)' <=> Active(q)) /\ KeepsRange(q)
<1>1. job[s].pc = "swapping" /\ CanSwapPartitions(job[s]) /\ partition' = SwappedPartitions(job[s])
  BY DEF Swaps
<1>2. p \in PId /\ out \in Split /\ job[s].chunks \in SUBSET CId
  BY <1>1, JobCases
<1>3. DOMAIN out \in SUBSET PId
  BY <1>2, SplitFacts
<1>4. Active(p) /\ \A q \in DOMAIN out : partition[q].state = "inactive"
  BY <1>1 DEF CanSwapPartitions
<1>5. p \notin DOMAIN out
  BY <1>4 DEF Active
<1>6. \A q \in PId : PartitionRecord(partition[q])
  BY DEF Shape
<1>7. ~Active(p)' /\ KeepsRange(p)
  <2>1. partition'[p] = [partition[p] EXCEPT !.state = "inactive"]
    BY <1>1, <1>2 DEF SwappedPartitions
  <2>2. PartitionRecord(partition[p])
    BY <1>2, <1>6
  <2> QED BY <2>1, <2>2 DEF Active, KeepsRange, PartitionRecord
<1>8. ASSUME NEW q \in DOMAIN out
      PROVE  /\ ~Active(q) /\ Active(q)' /\ partition'[q].rows = out[q]
             /\ partition'[q].lo = ChildLow(job[s], q)
             /\ partition'[q].hi = ChildHigh(job[s], q)
  <2>1. partition'[q] = [partition[q] EXCEPT !.state = "active", !.rows = out[q],
                                             !.lo = ChildLow(job[s], q),
                                             !.hi = ChildHigh(job[s], q)]
    BY <1>1, <1>3, <1>5 DEF SwappedPartitions
  <2>2. PartitionRecord(partition[q]) /\ partition[q].state = "inactive"
    BY <1>3, <1>4, <1>6
  <2> QED BY <2>1, <2>2 DEF Active, PartitionRecord
<1>9. ASSUME NEW q \in PId, q # p, q \notin DOMAIN out
      PROVE  (Active(q)' <=> Active(q)) /\ KeepsRange(q)
  <2>1. partition'[q] = partition[q]
    BY <1>1, <1>9 DEF SwappedPartitions
  <2> QED BY <2>1, RecordKeepsRange
<1> QED BY <1>2, <1>3, <1>4, <1>5, <1>7, <1>8, <1>9

\* An active partition is known, before and after a step.
LEMMA ActiveIsKnown ==
  /\ FileInv => \A p \in PId : Active(p) => Known(p)
  /\ FileInv' => \A p \in PId : Active(p)' => Known(p)'
<1>1. FileInv => \A p \in PId : Active(p) => Known(p)
  BY DEF FileInv, KidsAreFresh, Fresh, Active, Known
<1>2. FileInv' => \A p \in PId : Active(p)' => Known(p)'
  BY DEF FileInv, KidsAreFresh, Fresh, Active, Known
<1> QED BY <1>1, <1>2

\* What is known of a partition stays.
LEMMA KnownStays ==
  ASSUME Shape, Next, FileInv, FileInv', NEW p, Known(p)
  PROVE  Known(p)' /\ KeepsRange(p)
<1>0. p \in PId /\ partition[p].state # "free" /\ \A s \in Slot : p \notin Kids(s)
  BY DEF Known
<1>1. partition'[p].state # "free"
  BY <1>0, PartitionKeepsRows
<1>2. ASSUME NEW s \in Slot, p \in Kids(s)' PROVE FALSE
  BY <1>0, <1>2, KidSteps DEF KidChange
<1>3. ASSUME RangesStay PROVE KeepsRange(p)
  BY <1>0, <1>3 DEF RangesStay, Appears
<1>4. ASSUME NEW s \in Slot, Swaps(s) PROVE KeepsRange(p)
  <2>1. job[s].pc = "swapping"
    BY <1>4 DEF Swaps
  <2>2. p \notin DOMAIN job[s].out
    BY <1>0, <2>1 DEF Kids
  <2> QED BY <1>0, <1>4, <2>2, SwapSteps
<1> QED BY <1>0, <1>1, <1>2, <1>3, <1>4, RangeSteps DEF Known

\* Rows go on to be in the range of a partition that is known.
LEMMA RangeStays ==
  ASSUME NEW p, KeepsRange(p), NEW r
  PROVE  InRange(p, r)' <=> InRange(p, r)
BY DEF KeepsRange, InRange, Pos

-----------------------------------------------------------------------------
(* What a step does to the partition of a chunk, and to lists of partitions  *)

\* A list of partitions that an insert or a repartition routes its rows by
Listed(ps) ==
  \/ \E i \in Insert : ins[i].pc = "routing" /\ ps = ins[i].parts
  \/ \E s \in Slot : job[s].pc = "routing" /\ ps = job[s].parts

TakenOver(s, c) ==
  /\ Swaps(s) /\ TakesOver(job[s]) /\ chunk[c].part = job[s].part
  /\ chunk'[c].part = Min(DOMAIN job[s].out)
Routed(ps, c) ==
  /\ Listed(ps) /\ UNCHANGED partition /\ chunk'[c].part \in ps
  /\ \A r \in chunk'[c].rows : InRange(chunk'[c].part, r)
HomeChange(c) ==
  \/ chunk[c].state # "free" /\ chunk'[c].part = chunk[c].part
  \/ chunk[c].state # "free" /\ \E s \in Slot : TakenOver(s, c)
  \/ \E ps \in SUBSET PId : Routed(ps, c)

\* Chunks just created are in a partition of the list, whose range has their rows.
LEMMA NewChunksAreRouted ==
  ASSUME Shape, NEW ps \in SUBSET PId, NEW rows \in SUBSET Row, Routable(ps, rows),
         NEW news, news = NewChunks(ps, rows), Ids(news) \subseteq CId,
         chunk' = WithChunks(news), Listed(ps), UNCHANGED partition,
         NEW c \in CId, chunk'[c].state # "free"
  PROVE  HomeChange(c)
<1>0. Spread(ps, rows, news)
  BY NewChunksFacts
<1>1. /\ \A n \in news : n.id \in CId /\ n.part \in ps /\ \A r \in n.rows : InRange(n.part, r)
      /\ \A n, m \in news : n # m => n.id # m.id
  BY <1>0 DEF Spread
<1>2. /\ \A n \in news : n.id \in CId =>
           chunk'[n.id] = [state |-> "created", part |-> n.part, rows |-> n.rows]
      /\ \A d \in CId \ Ids(news) : chunk'[d] = chunk[d]
  BY <1>1, WithChunksFacts
<1>3. CASE c \in Ids(news)
  <2>1. PICK n \in news : c = n.id
    BY <1>3 DEF Ids
  <2>2. chunk'[c] = [state |-> "created", part |-> n.part, rows |-> n.rows]
    BY <1>2, <2>1
  <2>3. chunk'[c].part = n.part /\ chunk'[c].rows = n.rows
    BY <2>2
  <2>4. Routed(ps, c)
    BY <1>1, <2>3 DEF Routed
  <2> QED BY <2>4 DEF HomeChange
<1>4. CASE c \notin Ids(news)
  BY <1>2, <1>4 DEF HomeChange
<1> QED BY <1>3, <1>4

\* A chunk keeps its partition, or goes to the only child of a compaction, or is new.
LEMMA HomeSteps ==
  ASSUME Shape, Next, NEW c \in CId, chunk'[c].state # "free"
  PROVE  HomeChange(c)
<1>1. ASSUME chunk'[c] = chunk[c] PROVE HomeChange(c)
  BY <1>1 DEF HomeChange
<1>2. ASSUME NEW i \in Insert, InsertUpload(i) PROVE HomeChange(c)
  <2>1. ins[i].parts \in SUBSET PId /\ ins[i].pc = "routing" /\ UNCHANGED partition
    BY <1>2 DEF InsertUpload, Shape, InsertState
  <2> DEFINE news == NewChunks(ins[i].parts, RowsOf(i))
  <2>2. ASSUME Routable(ins[i].parts, RowsOf(i))
        PROVE  Ids(news) \subseteq CId /\ chunk' = WithChunks(news)
    BY <1>2, <2>2 DEF InsertUpload
  <2> HIDE DEF news
  <2>3. Listed(ins[i].parts)
    BY <2>1 DEF Listed
  <2>4. CASE Routable(ins[i].parts, RowsOf(i))
    BY <2>1, <2>2, <2>3, <2>4, RowsOfAreRows, NewChunksAreRouted DEF news
  <2>5. CASE ~Routable(ins[i].parts, RowsOf(i))
    BY <1>1, <1>2, <2>5 DEF InsertUpload
  <2> QED BY <2>4, <2>5
<1>3. ASSUME NEW s \in Slot, RepartitionUpload(s) PROVE HomeChange(c)
  <2>1. /\ job[s].parts \in SUBSET PId /\ chunk[job[s].chunk].rows \in SUBSET Row
        /\ job[s].pc = "routing" /\ UNCHANGED partition
    BY <1>3, JobCases DEF RepartitionUpload, Shape
  <2> DEFINE news == NewChunks(job[s].parts, chunk[job[s].chunk].rows)
  <2>2. ASSUME Routable(job[s].parts, chunk[job[s].chunk].rows)
        PROVE  Ids(news) \subseteq CId /\ chunk' = WithChunks(news)
    BY <1>3, <2>2 DEF RepartitionUpload
  <2> HIDE DEF news
  <2>3. Listed(job[s].parts)
    BY <2>1 DEF Listed
  <2>4. CASE Routable(job[s].parts, chunk[job[s].chunk].rows)
    BY <2>1, <2>2, <2>3, <2>4, NewChunksAreRouted DEF news
  <2>5. CASE ~Routable(job[s].parts, chunk[job[s].chunk].rows)
    BY <1>1, <1>3, <2>5 DEF RepartitionUpload
  <2> QED BY <2>4, <2>5
<1>4. ASSUME NEW cs, NEW st, chunk' = SetState(cs, st), \A d \in CId : d \in cs => Stored(d)
      PROVE  HomeChange(c)
  <2>1. CASE c \in cs
    BY <1>4, <2>1 DEF SetState, Stored, HomeChange, Shape
  <2>2. CASE c \notin cs
    BY <1>1, <1>4, <2>2 DEF SetState
  <2> QED BY <2>1, <2>2
<1>5. ASSUME NEW i \in Insert, InsertActivate(i) PROVE HomeChange(c)
  BY <1>1, <1>4, <1>5 DEF InsertActivate, CanActivate
<1>6. ASSUME NEW s \in Slot, CompactSwap(s) PROVE HomeChange(c)
  <2>1. CASE CanSwapPartitions(job[s])
    <3>0. chunk' = SwappedChunks(job[s]) /\ Swaps(s)
      BY <1>6, <2>1 DEF CompactSwap, Swaps
    <3>1. CASE c \in job[s].chunks
      BY <2>1, <3>0, <3>1 DEF SwappedChunks, CanSwapPartitions, Live, HomeChange, Shape
    <3>2. CASE c \notin job[s].chunks /\ TakesOver(job[s]) /\ c \in ChunksOf(job[s].part)
      <4>1. /\ chunk'[c].part = Min(DOMAIN job[s].out) /\ chunk[c].part = job[s].part
            /\ chunk[c].state # "free"
        BY <3>0, <3>2 DEF SwappedChunks, ChunksOf, Stored, Shape
      <4>2. TakenOver(s, c)
        BY <3>0, <3>2, <4>1 DEF TakenOver
      <4> QED BY <4>1, <4>2 DEF HomeChange
    <3>3. CASE c \notin job[s].chunks /\ ~(TakesOver(job[s]) /\ c \in ChunksOf(job[s].part))
      <4>1. chunk'[c] = chunk[c]
        BY <3>0, <3>3 DEF SwappedChunks
      <4> QED BY <1>1, <4>1
    <3> QED BY <3>1, <3>2, <3>3
  <2>2. CASE ~CanSwapPartitions(job[s])
    BY <1>1, <1>6, <2>2 DEF CompactSwap
  <2> QED BY <2>1, <2>2
<1>7. ASSUME NEW s \in Slot, RepartitionSwap(s) PROVE HomeChange(c)
  <2>1. CASE ~CanSwapChunks(job[s])
    BY <1>1, <1>7, <2>1 DEF RepartitionSwap
  <2>2. CASE CanSwapChunks(job[s]) /\ c = job[s].chunk
    BY <1>7, <2>2 DEF RepartitionSwap, CanSwapChunks, Live, HomeChange, Shape
  <2>3. CASE CanSwapChunks(job[s]) /\ c # job[s].chunk /\ c \in job[s].chunks
    BY <1>7, <2>3 DEF RepartitionSwap, CanSwapChunks, Stored, HomeChange, Shape
  <2>4. CASE CanSwapChunks(job[s]) /\ c # job[s].chunk /\ c \notin job[s].chunks
    BY <1>7, <2>4 DEF RepartitionSwap, HomeChange, Shape
  <2> QED BY <2>1, <2>2, <2>3, <2>4
<1>8. ASSUME NEW t \in gc, DeleteChunk(t) PROVE HomeChange(c)
  <2>1. CASE Stored(t.id)
    BY <1>4, <1>8, <2>1 DEF DeleteChunk
  <2>2. CASE ~Stored(t.id)
    BY <1>1, <1>8, <2>2 DEF DeleteChunk
  <2> QED BY <2>1, <2>2
<1>9. ASSUME NEW i \in Insert, InsertRoute(i) \/ InsertFails(i) PROVE HomeChange(c)
  BY <1>1, <1>9 DEF InsertRoute, InsertFails, data
<1>10. ASSUME NEW s \in Slot, \/ \E q \in PId : CompactRead(s, q)
                              \/ \E d \in CId : RepartitionRead(s, d)
                              \/ JobFails(s) \/ CompactPlan(s) \/ CompactWrite(s)
       PROVE  HomeChange(c)
  BY <1>1, <1>10 DEF CompactRead, RepartitionRead, JobFails, CompactPlan, CompactWrite, data
<1>11. ASSUME NEW r \in Reader, SelectPlan(r) \/ SelectEnd(r) PROVE HomeChange(c)
  BY <1>1, <1>11 DEF SelectPlan, SelectEnd, data
<1>12. ASSUME (\E e \in events : HandleEvent(e)) \/ Reconciles \/ SchedulerRestart
       PROVE  HomeChange(c)
  BY <1>1, <1>12, ReconcileCases DEF HandleEvent, SchedulerRestart, data
<1>13. ASSUME NEW t \in gc, \/ CheckChunk(t) \/ RemoveRemoteFile(t)
                            \/ DeletePartition(t) \/ DeleteMiddleManPartition(t)
       PROVE  HomeChange(c)
  BY <1>1, <1>13
     DEF CheckChunk, RemoveRemoteFile, DeletePartition, DeleteMiddleManPartition, data
<1> QED
  BY <1>2, <1>3, <1>5, <1>6, <1>7, <1>8, <1>9, <1>10, <1>11, <1>12, <1>13, NextCases
     DEF InsertStep, RepartitionStep, GcStep

\* An insert lists the partitions that are active.
LEMMA RoutingSteps ==
  ASSUME Shape, Next, NEW i \in Insert, ins'[i].pc = "routing", ins'[i] # ins[i]
  PROVE  ins'[i].parts = ActivePartitions /\ UNCHANGED partition
<1>1. ASSUME NEW k \in Insert, NEW pc \in {"done", "failed"}, InsertEnds(k, pc) PROVE FALSE
  BY <1>1 DEF InsertEnds, Shape
<1>2. ASSUME NEW k \in Insert, InsertRoute(k)
      PROVE  ins'[i].parts = ActivePartitions /\ UNCHANGED partition
  BY <1>2 DEF InsertRoute, data, Shape
<1>3. ASSUME NEW k \in Insert, InsertUpload(k) \/ InsertActivate(k) \/ InsertFails(k) PROVE FALSE
  <2>1. CASE InsertUpload(k)
    BY <1>1, <2>1 DEF InsertUpload, Shape
  <2> QED BY <1>1, <1>3, <2>1 DEF InsertActivate, InsertFails
<1>4. ASSUME UNCHANGED ins PROVE FALSE
  BY <1>4
<1>5. ASSUME NEW s \in Slot, \/ \E p \in PId : CompactRead(s, p)
                             \/ \E c \in CId : RepartitionRead(s, c)
                             \/ JobFails(s) \/ CompactPlan(s) \/ CompactWrite(s)
                             \/ CompactSwap(s) \/ RepartitionStep(s)
      PROVE  FALSE
  BY <1>4, <1>5 DEF CompactRead, RepartitionRead, JobFails, CompactPlan, CompactWrite,
                    CompactSwap, RepartitionStep, RepartitionUpload, RepartitionSwap
<1>6. ASSUME NEW r \in Reader, SelectPlan(r) \/ SelectEnd(r) PROVE FALSE
  BY <1>4, <1>6 DEF SelectPlan, SelectEnd
<1>7. ASSUME (\E e \in events : HandleEvent(e)) \/ Reconciles \/ SchedulerRestart PROVE FALSE
  BY <1>4, <1>7, ReconcileCases DEF HandleEvent, SchedulerRestart, tasks
<1>8. ASSUME NEW t \in gc, GcStep(t) PROVE FALSE
  BY <1>4, <1>8 DEF GcStep, CheckChunk, DeleteChunk, RemoveRemoteFile, DeletePartition,
                    DeleteMiddleManPartition, tasks
<1> QED BY <1>2, <1>3, <1>5, <1>6, <1>7, <1>8, NextCases DEF InsertStep

-----------------------------------------------------------------------------
(* The invariant *)

BoundsAreNumbers == \A p \in PId : partition[p].lo \in Nat /\ partition[p].hi \in Nat

\* Rows are in the range of their partition, and a range that does not start at the lowest
\* position starts at one of them: a split cuts at rows.
RowsAreInRange == \A p \in PId : \A r \in partition[p].rows : InRange(p, r)
StartsAtRow ==
  \A p \in PId : partition[p].lo # NoLow => \E r \in partition[p].rows : Pos(r) = partition[p].lo

\* The same of chunks, and of those that a compaction merges into its partition
ChunksAreInRange ==
  \A c \in CId : chunk[c].state # "free" =>
    Known(chunk[c].part) /\ \A r \in chunk[c].rows : InRange(chunk[c].part, r)
MergesAreInRange ==
  \A s \in Slot : job[s].pc \in {"merging", "swapping"} =>
    \A c \in job[s].chunks : \A r \in chunk[c].rows : InRange(job[s].part, r)
SplitsAreSorted == \A s \in Slot : job[s].pc = "swapping" => Sorted(job[s].out)

\* A list that was read once goes on to have a place for every row
CoversAll(ps) ==
  /\ \A p \in ps : Known(p)
  /\ \A r \in Row : \E p \in ps : InRange(p, r)
ListsCover == \A ps \in SUBSET PId : Listed(ps) => CoversAll(ps)

KeysOnce ==
  \A r \in Row : \E p \in PId :
    /\ Active(p) /\ InRange(p, r)
    /\ \A q \in PId : Active(q) /\ InRange(q, r) => q = p

RangeInv ==
  /\ BoundsAreNumbers /\ RowsAreInRange /\ StartsAtRow /\ ChunksAreInRange
  /\ MergesAreInRange /\ SplitsAreSorted /\ ListsCover /\ KeysOnce

\* What steps start from, and where they arrive
Before == Shape /\ FileInv /\ PlanInv /\ RangeInv
After == Shape' /\ FileInv' /\ PlanInv'

\* Chunks that a compaction merges go on to be in the range of its partition.
LEMMA MergesStayInRange ==
  ASSUME Before, Next, After
  PROVE  MergesAreInRange'
<1> SUFFICES ASSUME NEW s \in Slot, job'[s].pc \in {"merging", "swapping"},
                    NEW p, p = job'[s].part,
                    NEW c \in job'[s].chunks, NEW r \in chunk'[c].rows
             PROVE  InRange(p, r)'
  BY DEF MergesAreInRange
<1>0. p \in PId /\ c \in CId
  <2>1. job'[s] \in {Idle} \cup Compaction \cup Repartition
    BY DEF After, Shape
  <2> QED BY <2>1 DEF Idle, Compaction, Repartition
<1>1. ASSUME Known(p), chunk[c].state # "free", \A x \in chunk[c].rows : InRange(p, x)
      PROVE  InRange(p, r)'
  <2>1. KeepsRange(p)
    BY <1>1, KnownStays DEF Before, After
  <2>2. chunk'[c].rows = chunk[c].rows
    BY <1>0, <1>1, ChunkKeepsRows DEF Before
  <2> QED BY <1>1, <2>1, <2>2, RangeStays
<1>2. CASE job'[s] = job[s]
  <2>1. Known(p) /\ chunk[c].state # "free"
    BY <1>0, <1>2 DEF Before, PlanInv, PartitionsAreKnown, ChunksAreKnown, Known
  <2>2. \A x \in chunk[c].rows : InRange(p, x)
    BY <1>2 DEF Before, RangeInv, MergesAreInRange
  <2> QED BY <1>1, <2>1, <2>2
<1>3. CASE job[s].pc = "planning" /\ \E cs \in SUBSET CId, kids \in SUBSET PId : Plans(s, cs, kids)
  <2>1. PICK cs \in SUBSET CId, kids \in SUBSET PId : Plans(s, cs, kids)
    BY <1>3
  <2>2. p = job[s].part /\ c \in LiveChunksOf(p)
    BY <2>1 DEF Plans, Before, Shape
  <2>3. Known(p)
    BY <1>0, <1>3, <2>2 DEF Before, PlanInv, PartitionsAreKnown, Known
  <2>4. chunk[c].state # "free" /\ chunk[c].part = p
    BY <2>2 DEF LiveChunksOf, ChunksOf, Stored
  <2>5. \A x \in chunk[c].rows : InRange(p, x)
    BY <1>0, <2>4 DEF Before, RangeInv, ChunksAreInRange
  <2> QED BY <1>1, <2>3, <2>4, <2>5
<1>4. CASE job[s].pc = "merging" /\ \E cuts : Writes(s, cuts)
  <2>1. p = job[s].part /\ c \in job[s].chunks
    BY <1>4 DEF Writes, Before, Shape
  <2>2. Known(p) /\ chunk[c].state # "free"
    BY <1>0, <1>4, <2>1 DEF Before, PlanInv, PartitionsAreKnown, ChunksAreKnown, Known
  <2>3. \A x \in chunk[c].rows : InRange(p, x)
    BY <1>4, <2>1 DEF Before, RangeInv, MergesAreInRange
  <2> QED BY <1>1, <2>2, <2>3
<1>5. JobChange(s)
  BY JobSteps DEF Before
<1> QED BY <1>2, <1>3, <1>4, <1>5 DEF JobChange, Begins, Goes, Idle

\* Splits go on to be sorted.
LEMMA SplitsStaySorted ==
  ASSUME Before, Next
  PROVE  SplitsAreSorted'
<1> SUFFICES ASSUME NEW s \in Slot, job'[s].pc = "swapping"
             PROVE  Sorted(job'[s].out)
  BY DEF SplitsAreSorted
<1>1. CASE job'[s] = job[s]
  BY <1>1 DEF Before, RangeInv, SplitsAreSorted
<1>2. CASE job'[s] # job[s]
  <2>1. PICK cuts : Writes(s, cuts) /\ job[s].pc = "merging"
    BY <1>2, SplitSteps DEF Before
  <2>2. job'[s].out = SplitAt(job[s], cuts)
    BY <2>1 DEF Writes, Before, Shape
  <2>3. PICK a, b \in Nat : job[s].kids = a .. b
    BY <2>1 DEF Before, PlanInv, KidsAreInterval
  <2> QED BY <2>1, <2>2, <2>3, SlicesAreSorted DEF Before
<1> QED BY <1>1, <1>2

\* The partitions that are active cover all rows.
LEMMA ActiveCover ==
  ASSUME Before
  PROVE  CoversAll(ActivePartitions)
<1>1. \A p \in ActivePartitions : Known(p)
  BY ActiveIsKnown DEF Before, ActivePartitions
<1>2. \A r \in Row : \E p \in ActivePartitions : InRange(p, r)
  BY DEF Before, RangeInv, KeysOnce, ActivePartitions
<1> QED BY <1>1, <1>2 DEF CoversAll

\* A list goes on to cover all rows.
LEMMA CoverStays ==
  ASSUME Before, Next, After, NEW ps, CoversAll(ps)
  PROVE  CoversAll(ps)'
<1>1. \A p \in ps : Known(p)' /\ KeepsRange(p)
  BY KnownStays DEF CoversAll, Before, After
<1>2. ASSUME NEW r \in Row PROVE \E p \in ps : InRange(p, r)'
  BY <1>1, RangeStays DEF CoversAll
<1> QED BY <1>1, <1>2 DEF CoversAll

\* Lists go on to cover all rows.
LEMMA ListsStayCover ==
  ASSUME Before, Next, After
  PROVE  ListsCover'
<1> SUFFICES ASSUME NEW ps \in SUBSET PId, Listed(ps)'
             PROVE  CoversAll(ps)'
  BY DEF ListsCover
<1>1. ASSUME Listed(ps) \/ ps = ActivePartitions PROVE CoversAll(ps)'
  <2>1. CoversAll(ps)
    BY <1>1, ActiveCover DEF Before, RangeInv, ListsCover
  <2> QED BY <2>1, CoverStays
<1>2. ASSUME NEW i \in Insert, ins'[i].pc = "routing", ps = ins'[i].parts
      PROVE  CoversAll(ps)'
  <2>1. CASE ins'[i] = ins[i]
    BY <1>1, <1>2, <2>1 DEF Listed
  <2>2. CASE ins'[i] # ins[i]
    BY <1>1, <1>2, <2>2, RoutingSteps DEF Before
  <2> QED BY <2>1, <2>2
<1>3. ASSUME NEW s \in Slot, job'[s].pc = "routing", ps = job'[s].parts
      PROVE  CoversAll(ps)'
  <2>1. CASE job'[s] = job[s]
    BY <1>1, <1>3, <2>1 DEF Listed
  <2>2. CASE job'[s] # job[s]
    <3>1. JobChange(s)
      BY JobSteps DEF Before
    <3>2. job'[s].parts = ActivePartitions
      BY <1>3, <2>2, <3>1 DEF JobChange, Begins, Goes, Idle
    <3> QED BY <1>1, <1>3, <3>2
  <2> QED BY <2>1, <2>2
<1> QED BY <1>2, <1>3 DEF Listed

\* The first and the last of an interval, and whether it has one element.
LEMMA IntervalFacts ==
  ASSUME NEW a \in Int, NEW b \in Int, a <= b
  PROVE  Min(a .. b) = a /\ Max(a .. b) = b /\ (Cardinality(a .. b) = 1 <=> a = b)
<1>1. IsFiniteSet(a .. b) /\ (Cardinality(a .. b) = IF a > b THEN 0 ELSE b - a + 1)
  BY FS_Interval
<1>2. a .. b \in SUBSET Int /\ a \in a .. b /\ b \in a .. b
  OBVIOUS
<1>3. a .. b # {}
  BY <1>2
<1>4. Min(a .. b) \in a .. b /\ \A y \in a .. b : Min(a .. b) <= y
  BY <1>1, <1>2, <1>3, FiniteHasMin
<1>5. Max(a .. b) \in a .. b /\ \A y \in a .. b : y <= Max(a .. b)
  BY <1>1, <1>2, <1>3, FiniteHasMax
<1>6. PICK m : m = Min(a .. b)
  OBVIOUS
<1>7. PICK n : n = Max(a .. b)
  OBVIOUS
<1>8. m \in a .. b /\ m <= a /\ n \in a .. b /\ b <= n
  BY <1>2, <1>4, <1>5, <1>6, <1>7
<1>9. m = a /\ n = b
  BY <1>8
<1> QED BY <1>1, <1>6, <1>7, <1>9

\* A swap is a split of the range of its partition.
LEMMA SwapIsSplit ==
  ASSUME ~UniqueKey, Before, NEW s \in Slot, Swaps(s),
         NEW p, p = job[s].part, NEW out, out = job[s].out
  PROVE  \E a, b \in PId :
           /\ SplitOf(out, a, b, partition[p].lo, partition[p].hi)
           /\ ChildRanges(out, a, b, partition[p].lo, partition[p].hi,
                          [q \in a .. b |-> partition'[q].lo], [q \in a .. b |-> partition'[q].hi])
<1>1. /\ p \in PId /\ out \in Split /\ job[s].chunks \in SUBSET CId /\ DOMAIN out \in SUBSET PId
      /\ \A q \in DOMAIN out : /\ partition'[q].lo = ChildLow(job[s], q)
                               /\ partition'[q].hi = ChildHigh(job[s], q)
  BY SwapSteps DEF Before
<1>2. job[s].pc = "swapping"
  BY DEF Swaps
<1>3. PICK a, b \in PId :
        /\ a <= b /\ DOMAIN out = a .. b
        /\ a < b => \A q \in a .. b : out[q] # {}
        /\ \A x, y \in a .. b : x < y => \A r \in out[x], t \in out[y] : r[1] < t[1]
  BY <1>2 DEF Before, RangeInv, SplitsAreSorted, Sorted
<1>4. a \in Int /\ b \in Int
  BY DEF PId
<1>5. Min(a .. b) = a /\ Max(a .. b) = b /\ (Cardinality(a .. b) = 1 <=> a = b)
  BY <1>3, <1>4, IntervalFacts
<1>6. MergedRows(job[s]) = partition[p].rows \cup UNION {chunk[c].rows : c \in job[s].chunks}
  BY DEF MergedRows, Merge
<1>7. \A r \in MergedRows(job[s]) : Between(partition[p].lo, partition[p].hi, r)
  <2>1. \A r \in partition[p].rows : InRange(p, r)
    BY <1>1 DEF Before, RangeInv, RowsAreInRange
  <2>2. \A c \in job[s].chunks : \A r \in chunk[c].rows : InRange(p, r)
    BY <1>2 DEF Before, RangeInv, MergesAreInRange
  <2> QED BY <1>6, <2>1, <2>2 DEF InRange, Between
<1>8. /\ \A q \in DOMAIN out : out[q] \subseteq MergedRows(job[s])
      /\ \A r \in MergedRows(job[s]) : \E q \in DOMAIN out : r \in out[q]
  BY <1>2 DEF Before, PlanInv, SplitsAreWhole, Splits
<1>9. \A q \in a .. b : out[q] \in SUBSET Row
  BY <1>1, <1>3, SplitFacts
<1>10. ASSUME partition[p].lo # NoLow
       PROVE  \E q \in a .. b : \E r \in out[q] : Pos(r) = partition[p].lo
  <2>1. PICK r \in partition[p].rows : Pos(r) = partition[p].lo
    BY <1>1, <1>10 DEF Before, RangeInv, StartsAtRow
  <2>2. r \in MergedRows(job[s])
    BY <1>6
  <2> QED BY <1>3, <1>8, <2>1, <2>2
<1>11. SplitOf(out, a, b, partition[p].lo, partition[p].hi)
  BY <1>3, <1>7, <1>8, <1>9, <1>10 DEF SplitOf
<1>12. ASSUME NEW q \in a .. b
       PROVE  /\ partition'[q].lo = IF q = a /\ (a = b \/ partition[p].lo = NoLow)
                                    THEN partition[p].lo ELSE LowPos(out[q])
              /\ partition'[q].hi = IF q = b THEN partition[p].hi ELSE LowPos(out[q + 1])
  BY <1>1, <1>3, <1>5 DEF ChildLow, ChildHigh
<1>13. ChildRanges(out, a, b, partition[p].lo, partition[p].hi,
                   [q \in a .. b |-> partition'[q].lo], [q \in a .. b |-> partition'[q].hi])
  BY <1>12 DEF ChildRanges
<1> QED BY <1>11, <1>13

\* After a swap the children have the rows and the range of the partition, each once.
LEMMA SwapCovers ==
  ASSUME ~UniqueKey, Before, NEW s \in Slot, Swaps(s),
         NEW p, p = job[s].part, NEW out, out = job[s].out
  PROVE  /\ \A q \in DOMAIN out : partition'[q].lo \in Nat /\ partition'[q].hi \in Nat
         /\ \A q \in DOMAIN out : \A r \in out[q] : InRange(q, r)'
         /\ \A q \in DOMAIN out : \A r \in Row : InRange(q, r)' => InRange(p, r)
         /\ \A q \in DOMAIN out : partition'[q].lo # NoLow =>
              \E r \in out[q] : Pos(r) = partition'[q].lo
         /\ \A r \in Row : InRange(p, r) =>
              \E q \in DOMAIN out : /\ InRange(q, r)'
                                    /\ \A z \in DOMAIN out : InRange(z, r)' => z = q
<1>1. PICK a, b \in PId :
        /\ SplitOf(out, a, b, partition[p].lo, partition[p].hi)
        /\ ChildRanges(out, a, b, partition[p].lo, partition[p].hi,
                       [q \in a .. b |-> partition'[q].lo], [q \in a .. b |-> partition'[q].hi])
  BY SwapIsSplit
<1>2. PICK L : L = [q \in a .. b |-> partition'[q].lo]
  OBVIOUS
<1>3. PICK H : H = [q \in a .. b |-> partition'[q].hi]
  OBVIOUS
<1>4. PICK lo : lo = partition[p].lo
  OBVIOUS
<1>5. PICK hi : hi = partition[p].hi
  OBVIOUS
<1>6. a \in Nat /\ b \in Nat /\ p \in PId
  BY SwapSteps DEF Before, PId
<1>7. lo \in Nat /\ hi \in Nat
  BY <1>4, <1>5, <1>6 DEF Before, RangeInv, BoundsAreNumbers
<1>8. SplitOf(out, a, b, lo, hi) /\ ChildRanges(out, a, b, lo, hi, L, H)
  BY <1>1, <1>2, <1>3, <1>4, <1>5
<1>9. /\ \A q \in a .. b : L[q] \in Nat /\ H[q] \in Nat
      /\ \A q \in a .. b : \A r \in out[q] : Between(L[q], H[q], r)
      /\ \A q \in a .. b : \A r \in Row : Between(L[q], H[q], r) => Between(lo, hi, r)
      /\ \A q \in a .. b : L[q] # NoLow => \E r \in out[q] : Pos(r) = L[q]
      /\ \A r \in Row : Between(lo, hi, r) =>
           \E q \in a .. b : /\ Between(L[q], H[q], r)
                             /\ \A z \in a .. b : Between(L[z], H[z], r) => z = q
  <2>1. CoverOnce(out, a, b, lo, hi, L, H)
    BY <1>6, <1>7, <1>8, ChildrenCover
  <2> QED BY <2>1 DEF CoverOnce
<1>10. DOMAIN out = a .. b
  BY <1>8 DEF SplitOf
<1>11. \A q \in a .. b : L[q] = partition'[q].lo /\ H[q] = partition'[q].hi
  BY <1>2, <1>3
<1>12. \A r : InRange(p, r) <=> Between(lo, hi, r)
  BY <1>4, <1>5 DEF InRange, Between
<1>13. \A q \in a .. b : \A r : InRange(q, r)' <=> Between(L[q], H[q], r)
  BY <1>11 DEF InRange, Between, Pos
<1> QED BY <1>9, <1>10, <1>11, <1>12, <1>13

\* A child that takes chunks over has all rows in its range that its partition had.
LEMMA TakerCovers ==
  ASSUME ~UniqueKey, Before, NEW s \in Slot, Swaps(s), TakesOver(job[s]),
         NEW p, p = job[s].part, NEW out, out = job[s].out, NEW q, q = Min(DOMAIN out)
  PROVE  q \in DOMAIN out /\ \A r \in Row : InRange(p, r) => InRange(q, r)'
<1>1. DOMAIN out \in SUBSET PId
  BY SwapSteps DEF Before
<1>2. IsFiniteSet(DOMAIN out) /\ DOMAIN out \in SUBSET Int
  BY <1>1, PIdFinite
<1>3. PICK z : DOMAIN out = {z}
  <2>1. Cardinality(DOMAIN out) = 1
    BY DEF TakesOver
  <2> QED BY <1>2, <2>1, FS_Singleton
<1>4. q = z
  <2>1. Min({z}) \in {z}
    BY <1>2, <1>3, FiniteHasMin
  <2> QED BY <1>3, <2>1
<1>5. ASSUME NEW r \in Row, InRange(p, r) PROVE InRange(q, r)'
  BY <1>3, <1>4, <1>5, SwapCovers
<1> QED BY <1>3, <1>4, <1>5

-----------------------------------------------------------------------------
(* The invariant holds *)

\* What holds of the rows and the range of one partition
RangeOf(p) ==
  /\ partition[p].lo \in Nat /\ partition[p].hi \in Nat
  /\ \A r \in partition[p].rows : InRange(p, r)
  /\ partition[p].lo # NoLow => \E r \in partition[p].rows : Pos(r) = partition[p].lo

\* The parts of the invariant that speak of one partition at a time.
LEMMA RangesOfAll ==
  /\ (BoundsAreNumbers /\ RowsAreInRange /\ StartsAtRow) <=> \A p \in PId : RangeOf(p)
  /\ (\A p \in PId : RangeOf(p)') => (BoundsAreNumbers /\ RowsAreInRange /\ StartsAtRow)'
BY DEF BoundsAreNumbers, RowsAreInRange, StartsAtRow, RangeOf

\* A partition that keeps its range keeps what holds of it.
LEMMA KeptRange ==
  ASSUME NEW p, KeepsRange(p), RangeOf(p)
  PROVE  RangeOf(p)'
<1>1. \A r \in partition[p].rows : InRange(p, r)'
  BY RangeStays DEF RangeOf
<1> QED BY <1>1 DEF RangeOf, KeepsRange, Pos

\* A partition just created has no rows and the range of everything.
LEMMA NewRange ==
  ASSUME ~UniqueKey, NEW p, partition'[p].rows = {}, partition'[p].lo = NoLow, partition'[p].hi = NoHigh
  PROVE  RangeOf(p)'
<1>1. NoLow \in Nat /\ NoHigh \in Nat
  BY PositionFacts DEF NoLow
<1> QED BY <1>1 DEF RangeOf

\* Rows go on to be in the range of their partition.
LEMMA RowsStayInRange ==
  ASSUME ~UniqueKey, Before, Next
  PROVE  \A p \in PId : RangeOf(p)'
<1>0. \A p \in PId : RangeOf(p)
  BY RangesOfAll DEF Before, RangeInv
<1>1. CASE RangesStay
  BY <1>0, <1>1, KeptRange, NewRange DEF RangesStay, Appears
<1>2. ASSUME NEW s \in Slot, Swaps(s), NEW q \in PId PROVE RangeOf(q)'
  <2>1. PICK p : p = job[s].part
    OBVIOUS
  <2>2. PICK out : out = job[s].out
    OBVIOUS
  <2>3. CASE q \in DOMAIN out
    <3>1. partition'[q].rows = out[q]
      BY <1>2, <2>1, <2>2, <2>3, SwapSteps DEF Before
    <3>2. /\ partition'[q].lo \in Nat /\ partition'[q].hi \in Nat
          /\ \A r \in out[q] : InRange(q, r)'
          /\ partition'[q].lo # NoLow => \E r \in out[q] : Pos(r) = partition'[q].lo
      BY <1>2, <2>1, <2>2, <2>3, SwapCovers
    <3> QED BY <3>1, <3>2 DEF RangeOf, Pos
  <2>4. CASE q \notin DOMAIN out
    <3>1. KeepsRange(q)
      BY <1>2, <2>1, <2>2, <2>4, SwapSteps DEF Before
    <3> QED BY <1>0, <3>1, KeptRange
  <2> QED BY <2>3, <2>4
<1> QED BY <1>1, <1>2, RangeSteps DEF Before

\* Chunks go on to be in the range of their partition.
LEMMA ChunksStayInRange ==
  ASSUME ~UniqueKey, Before, Next, After
  PROVE  ChunksAreInRange'
<1> SUFFICES ASSUME NEW c \in CId, chunk'[c].state # "free", NEW q, q = chunk'[c].part
             PROVE  Known(q)' /\ \A r \in chunk'[c].rows : InRange(q, r)'
  BY DEF ChunksAreInRange
<1>0. \A r \in chunk'[c].rows : r \in Row
  BY DEF After, Shape
<1>1. ASSUME chunk[c].state # "free"
      PROVE  /\ Known(chunk[c].part) /\ chunk'[c].rows = chunk[c].rows
             /\ \A r \in chunk[c].rows : InRange(chunk[c].part, r)
  BY <1>1, ChunkKeepsRows DEF Before, RangeInv, ChunksAreInRange
<1>2. CASE chunk[c].state # "free" /\ q = chunk[c].part
  <2>1. Known(q)' /\ KeepsRange(q)
    BY <1>1, <1>2, KnownStays DEF Before, After
  <2> QED BY <1>1, <1>2, <2>1, RangeStays
<1>3. ASSUME chunk[c].state # "free", NEW s \in Slot, TakenOver(s, c)
      PROVE  Known(q)' /\ \A r \in chunk'[c].rows : InRange(q, r)'
  <2>1. PICK p : p = job[s].part
    OBVIOUS
  <2>2. PICK out : out = job[s].out
    OBVIOUS
  <2>3. Swaps(s) /\ TakesOver(job[s]) /\ chunk[c].part = p /\ q = Min(DOMAIN out)
    BY <1>3, <2>1, <2>2 DEF TakenOver
  <2>4. q \in DOMAIN out /\ \A r \in Row : InRange(p, r) => InRange(q, r)'
    BY <2>1, <2>2, <2>3, TakerCovers
  <2>5. q \in PId /\ Active(q)'
    BY <2>1, <2>2, <2>3, <2>4, SwapSteps DEF Before
  <2>6. Known(q)'
    BY <2>5, ActiveIsKnown DEF After
  <2> QED BY <1>0, <1>1, <1>3, <2>3, <2>4, <2>6
<1>4. ASSUME NEW ps \in SUBSET PId, Routed(ps, c)
      PROVE  Known(q)' /\ \A r \in chunk'[c].rows : InRange(q, r)'
  <2>1. Known(q)
    BY <1>4 DEF Routed, Before, RangeInv, ListsCover, CoversAll
  <2>2. Known(q)' /\ KeepsRange(q)
    BY <2>1, KnownStays DEF Before, After
  <2>3. \A r \in chunk'[c].rows : InRange(q, r)
    BY <1>4 DEF Routed
  <2> QED BY <2>2, <2>3, RangeStays
<1> QED BY <1>2, <1>3, <1>4, HomeSteps DEF HomeChange, Before

\* Every row goes on to be in the range of one active partition.
LEMMA KeysStayOnce ==
  ASSUME ~UniqueKey, Before, Next, After
  PROVE  KeysOnce'
<1> SUFFICES ASSUME NEW r \in Row
             PROVE  \E p \in PId : /\ Active(p)' /\ InRange(p, r)'
                                   /\ \A q \in PId : Active(q)' /\ InRange(q, r)' => q = p
  BY DEF KeysOnce
<1>1. PICK h \in PId : /\ Active(h) /\ InRange(h, r)
                       /\ \A q \in PId : Active(q) /\ InRange(q, r) => q = h
  BY DEF Before, RangeInv, KeysOnce
<1>2. CASE RangesStay
  <2>1. ASSUME NEW q \in PId, Active(q)
        PROVE  InRange(q, r)' <=> InRange(q, r)
    <3>1. KeepsRange(q)
      BY <1>2, <2>1 DEF RangesStay, Appears, Active
    <3> QED BY <3>1, RangeStays
  <2>2. \A q \in PId : Active(q)' <=> Active(q)
    BY <1>2 DEF RangesStay
  <2> QED BY <1>1, <2>1, <2>2
<1>3. ASSUME NEW s \in Slot, Swaps(s)
      PROVE  \E p \in PId : /\ Active(p)' /\ InRange(p, r)'
                            /\ \A q \in PId : Active(q)' /\ InRange(q, r)' => q = p
  <2>1. PICK p : p = job[s].part
    OBVIOUS
  <2>2. PICK out : out = job[s].out
    OBVIOUS
  <2>3. /\ p \in PId /\ DOMAIN out \in SUBSET PId /\ Active(p) /\ ~Active(p)'
        /\ \A q \in DOMAIN out : ~Active(q) /\ Active(q)'
        /\ \A q \in PId : q # p /\ q \notin DOMAIN out =>
             (Active(q)' <=> Active(q)) /\ KeepsRange(q)
    BY <1>3, <2>1, <2>2, SwapSteps DEF Before
  <2>4. /\ \A q \in DOMAIN out : InRange(q, r)' => InRange(p, r)
        /\ InRange(p, r) => \E q \in DOMAIN out :
             InRange(q, r)' /\ \A z \in DOMAIN out : InRange(z, r)' => z = q
    BY <1>3, <2>1, <2>2, SwapCovers
  <2>5. \A q \in PId : q # p /\ q \notin DOMAIN out => (InRange(q, r)' <=> InRange(q, r))
    BY <2>3, RangeStays
  <2>6. CASE h = p
    <3>1. PICK q \in DOMAIN out : InRange(q, r)' /\ \A z \in DOMAIN out : InRange(z, r)' => z = q
      BY <1>1, <2>4, <2>6
    <3>2. ASSUME NEW z \in PId, Active(z)', InRange(z, r)' PROVE z = q
      BY <1>1, <2>3, <2>5, <2>6, <3>1, <3>2
    <3> QED BY <2>3, <3>1, <3>2
  <2>7. CASE h # p
    <3>1. h \notin DOMAIN out /\ Active(h)' /\ InRange(h, r)'
      BY <1>1, <2>3, <2>5, <2>7
    <3>2. ASSUME NEW z \in PId, Active(z)', InRange(z, r)' PROVE z = h
      <4>1. ~InRange(p, r)
        BY <1>1, <2>3, <2>7
      <4> QED BY <1>1, <2>3, <2>4, <2>5, <3>2, <4>1
    <3> QED BY <3>1, <3>2
  <2> QED BY <2>6, <2>7
<1> QED BY <1>2, <1>3, RangeSteps DEF Before

\* The invariant holds of the table with one partition that holds nothing.
LEMMA InitRanges ==
  ASSUME ~UniqueKey
  PROVE  Init => RangeInv
<1> SUFFICES ASSUME Init PROVE RangeInv
  OBVIOUS
<1>0. 1 \in PId
  BY PartitionsAssumption DEF PId
<1>1. \A p \in PId : /\ partition[p].rows = {} /\ partition[p].lo = NoLow /\ partition[p].hi = NoHigh
                     /\ (Active(p) <=> p = 1)
  BY DEF Init, NoPartition, Active
<1>2. NoLow \in Nat /\ NoHigh \in Nat
  BY PositionFacts DEF NoLow
<1>3. BoundsAreNumbers /\ RowsAreInRange /\ StartsAtRow
  BY <1>1, <1>2 DEF BoundsAreNumbers, RowsAreInRange, StartsAtRow
<1>4. ChunksAreInRange
  BY DEF Init, NoChunk, ChunksAreInRange
<1>5. MergesAreInRange /\ SplitsAreSorted /\ ListsCover
  BY DEF Init, Idle, NotInserted, MergesAreInRange, SplitsAreSorted, ListsCover, Listed
<1>6. \A r \in Row, p \in PId : InRange(p, r)
  BY <1>1, PositionFacts DEF InRange
<1>7. KeysOnce
  BY <1>0, <1>1, <1>6 DEF KeysOnce
<1> QED BY <1>3, <1>4, <1>5, <1>7 DEF RangeInv

\* The invariant holds of every state.
LEMMA RangeInvHolds ==
  ASSUME ~UniqueKey
  PROVE  Spec => []Before
<1>1. ASSUME Before, [Next]_vars, After PROVE RangeInv'
  <2>1. CASE Next
    <3>1. (BoundsAreNumbers /\ RowsAreInRange /\ StartsAtRow)'
      BY <1>1, <2>1, RowsStayInRange, RangesOfAll
    <3>2. ChunksAreInRange' /\ MergesAreInRange' /\ SplitsAreSorted' /\ ListsCover' /\ KeysOnce'
      BY <1>1, <2>1, ChunksStayInRange, MergesStayInRange, SplitsStaySorted, ListsStayCover,
         KeysStayOnce
    <3> QED BY <3>1, <3>2 DEF RangeInv
  <2>2. CASE UNCHANGED vars
    <3>1. RangeInv
      BY <1>1 DEF Before
    <3>2. partition' = partition /\ chunk' = chunk /\ ins' = ins /\ job' = job
      BY <2>2 DEF vars
    <3>3. \A p : (Known(p)' <=> Known(p)) /\ \A r : InRange(p, r)' <=> InRange(p, r)
      BY <3>2 DEF Known, Kids, InRange, Pos
    <3>4. (BoundsAreNumbers /\ RowsAreInRange /\ StartsAtRow)'
      BY <3>1, <3>2, <3>3 DEF RangeInv, BoundsAreNumbers, RowsAreInRange, StartsAtRow, Pos
    <3>5. ChunksAreInRange' /\ MergesAreInRange' /\ SplitsAreSorted'
      BY <3>1, <3>2, <3>3 DEF RangeInv, ChunksAreInRange, MergesAreInRange, SplitsAreSorted
    <3>6. ListsCover'
      BY <3>1, <3>2, <3>3 DEF RangeInv, ListsCover, Listed, CoversAll
    <3>7. KeysOnce'
      BY <3>1, <3>2, <3>3 DEF RangeInv, KeysOnce, Active
    <3> QED BY <3>4, <3>5, <3>6, <3>7 DEF RangeInv
  <2> QED BY <1>1, <2>1, <2>2
<1>2. Shape /\ FileInv /\ PlanInv /\ RangeInv /\ [Next]_vars /\ (Shape /\ FileInv /\ PlanInv)' => RangeInv'
  BY <1>1 DEF Before, After
<1>3. Before <=> (Shape /\ FileInv /\ PlanInv /\ RangeInv)
  BY DEF Before
<1> QED BY <1>2, <1>3, InitRanges, PlanInvHolds, PTL DEF Spec

\* The ranges of the active partitions cover every key once, and hold the rows of their
\* partition and of its active chunks (swap_active_partitions, swap_chunks, create_chunk).
THEOREM RangesStaySound == ASSUME ~UniqueKey PROVE Spec => []RangesAreSound
<1>1. Before => RangesAreSound
  <2> SUFFICES ASSUME Before PROVE RangesAreSound
    OBVIOUS
  <2>1. RowsInRange
    BY DEF Before, RangeInv, RowsAreInRange, ChunksAreInRange, RowsInRange, Live
  <2>2. ASSUME NEW r \in Row
        PROVE  Cardinality({p \in PId : Active(p) /\ InRange(p, r)}) = 1
    <3>1. PICK h \in PId : /\ Active(h) /\ InRange(h, r)
                           /\ \A q \in PId : Active(q) /\ InRange(q, r) => q = h
      BY DEF Before, RangeInv, KeysOnce
    <3>2. {p \in PId : Active(p) /\ InRange(p, r)} = {h}
      BY <3>1
    <3> QED BY <3>2, FS_Singleton
  <2> QED BY <2>1, <2>2 DEF RangesAreSound, KeysCovered
<1> QED BY <1>1, RangeInvHolds, PTL

-----------------------------------------------------------------------------
(* The table is not taken for corrupt.  Without a job that runs twice, a      *)
(* compaction has its partition for itself until it ends, so that the main    *)
(* file it reads is not collected before.                                     *)

Compacts(s) == job[s].pc \in {"planning", "merging", "swapping"}

JobsAreApart ==
  /\ \A s \in Slot : Compacts(s) =>
       /\ job[s].part \in PId /\ Active(job[s].part) /\ job[s].target = MainFile(job[s].part)
  /\ \A s, t \in Slot : s # t /\ job[s].pc # "idle" /\ job[t].pc # "idle" =>
       job[s].target # job[t].target

\* A worker goes on with its target, or begins with one that no other worker has.
GoesOn(s) ==
  /\ job[s].pc # "idle" /\ job'[s].target = job[s].target
  /\ (job'[s].pc \in {"planning", "merging", "swapping"}) => Compacts(s) /\ job'[s].part = job[s].part
Starts(s) ==
  /\ \A t \in Slot : t # s => job'[t] = job[t] /\ job[t].target # job'[s].target
  /\ UNCHANGED partition
  /\ \/ job'[s].pc = "routing"
     \/ /\ job'[s].part \in PId /\ Active(job'[s].part)
        /\ job'[s].target = MainFile(job'[s].part)

\* What a step does to the target of a worker.
LEMMA TargetSteps ==
  ASSUME ~StaleWorkers, Shape, Next, NEW s \in Slot, job'[s].pc # "idle"
  PROVE  GoesOn(s) \/ Starts(s)
<1>1. ASSUME job'[s] = job[s] PROVE GoesOn(s)
  BY <1>1 DEF GoesOn, Compacts
<1>2. ASSUME NEW t \in Slot, JobEnds(t) PROVE GoesOn(s)
  BY <1>1, <1>2 DEF JobEnds, Idle, Shape
<1>3. ASSUME NEW t \in Slot, NEW p \in PId, CompactRead(t, p) PROVE GoesOn(s) \/ Starts(s)
  <2>1. CASE s = t
    <3>1. job'[s].target = MainFile(p) /\ job'[s].part = p
      BY <1>3, <2>1 DEF CompactRead, Shape
    <3>2. /\ \A u \in Slot : u # s => job'[u] = job[u] /\ job[u].target # MainFile(p)
          /\ UNCHANGED partition /\ Active(p)
      BY <1>3, <2>1 DEF CompactRead, Free, data, Shape
    <3> QED BY <3>1, <3>2 DEF Starts
  <2>2. CASE s # t
    BY <1>1, <1>3, <2>2 DEF CompactRead, Shape
  <2> QED BY <2>1, <2>2
<1>4. ASSUME NEW t \in Slot, NEW c \in CId, RepartitionRead(t, c) PROVE GoesOn(s) \/ Starts(s)
  <2>1. CASE UNCHANGED job
    BY <1>1, <2>1
  <2>2. CASE s = t /\ job' # job
    <3>1. /\ job'[s].target = ChunkFile(c) /\ job'[s].pc = "routing"
          /\ \A u \in Slot : u # s => job'[u] = job[u]
      BY <1>4, <2>2 DEF RepartitionRead, Shape
    <3>2. \A u \in Slot : job[u].target # ChunkFile(c)
      BY <1>4 DEF RepartitionRead, Free
    <3>3. UNCHANGED partition
      BY <1>4 DEF RepartitionRead, data
    <3> QED BY <3>1, <3>2, <3>3 DEF Starts
  <2>3. CASE s # t
    BY <1>1, <1>4, <2>3 DEF RepartitionRead, Shape
  <2> QED BY <2>1, <2>2, <2>3
<1>5. ASSUME NEW t \in Slot, CompactPlan(t) PROVE GoesOn(s)
  <2>1. ASSUME NEW cs \in SUBSET CId, NEW kids \in SUBSET PId, Plans(t, cs, kids) PROVE GoesOn(s)
    BY <1>1, <1>5, <2>1 DEF Plans, CompactPlan, GoesOn, Compacts, Shape
  <2> QED BY <1>2, <1>5, <2>1, CompactPlanCases
<1>6. ASSUME NEW t \in Slot, CompactWrite(t) PROVE GoesOn(s)
  <2>1. ASSUME NEW cuts, Writes(t, cuts) PROVE GoesOn(s)
    BY <1>1, <1>6, <2>1 DEF Writes, CompactWrite, GoesOn, Compacts, Shape
  <2> QED BY <1>2, <1>6, <2>1, CompactWriteCases
<1>7. ASSUME NEW t \in Slot, JobFails(t) \/ CompactSwap(t) \/ RepartitionSwap(t) PROVE GoesOn(s)
  BY <1>2, <1>7 DEF JobFails, CompactSwap, RepartitionSwap
<1>8. ASSUME NEW t \in Slot, RepartitionUpload(t) PROVE GoesOn(s)
  BY <1>1, <1>2, <1>8 DEF RepartitionUpload, GoesOn, Shape
<1>9. ASSUME UNCHANGED job PROVE GoesOn(s)
  BY <1>1, <1>9
<1>10. ASSUME NEW i \in Insert, InsertStep(i) \/ InsertFails(i) PROVE GoesOn(s)
  BY <1>9, <1>10 DEF InsertStep, InsertRoute, InsertUpload, InsertActivate, InsertFails
<1>11. ASSUME NEW r \in Reader, SelectPlan(r) \/ SelectEnd(r) PROVE GoesOn(s)
  BY <1>9, <1>11 DEF SelectPlan, SelectEnd
<1>12. ASSUME (\E e \in events : HandleEvent(e)) \/ Reconciles \/ SchedulerRestart PROVE GoesOn(s)
  BY <1>9, <1>12, ReconcileCases DEF HandleEvent, SchedulerRestart, tasks
<1>13. ASSUME NEW t \in gc, GcStep(t) PROVE GoesOn(s)
  BY <1>9, <1>13 DEF GcStep, CheckChunk, DeleteChunk, RemoveRemoteFile, DeletePartition,
                     DeleteMiddleManPartition, tasks
<1> QED BY <1>3, <1>4, <1>5, <1>6, <1>7, <1>8, <1>10, <1>11, <1>12, <1>13, NextCases
        DEF RepartitionStep

\* An active partition stays active unless its own compaction ends by a swap.
LEMMA ActiveStays ==
  ASSUME Before, Next, NEW p \in PId, Active(p)
  PROVE  Active(p)' \/ \E s \in Slot : Compacts(s) /\ p = job[s].part /\ job'[s] = Idle
<1>1. CASE RangesStay
  BY <1>1 DEF RangesStay
<1>2. ASSUME NEW s \in Slot, Swaps(s), JobEnds(s)
      PROVE  Active(p)' \/ (Compacts(s) /\ p = job[s].part /\ job'[s] = Idle)
  <2>1. job'[s] = Idle /\ Compacts(s)
    BY <1>2 DEF JobEnds, Swaps, Compacts, Before, Shape
  <2>2. PICK z : z = job[s].part
    OBVIOUS
  <2>3. PICK out : out = job[s].out
    OBVIOUS
  <2>4. /\ \A q \in DOMAIN out : Active(q)'
        /\ \A q \in PId : q # z /\ q \notin DOMAIN out => (Active(q)' <=> Active(q))
    BY <1>2, <2>2, <2>3, SwapSteps DEF Before
  <2> QED BY <2>1, <2>2, <2>4
<1> QED BY <1>1, <1>2, RangeSteps DEF Before

\* Workers stay apart.
LEMMA JobsStayApart ==
  ASSUME ~StaleWorkers, Before, Next, JobsAreApart
  PROVE  JobsAreApart'
<1>1. ASSUME NEW s \in Slot, NEW t \in Slot, s # t, job'[s].pc # "idle", job'[t].pc # "idle"
      PROVE  job'[s].target # job'[t].target
  <2>1. CASE Starts(s)
    BY <1>1, <2>1 DEF Starts
  <2>2. CASE Starts(t)
    BY <1>1, <2>2 DEF Starts
  <2>3. CASE GoesOn(s) /\ GoesOn(t)
    BY <1>1, <2>3 DEF GoesOn, JobsAreApart
  <2> QED BY <1>1, <2>1, <2>2, <2>3, TargetSteps DEF Before
<1>2. ASSUME NEW s \in Slot, job'[s].pc \in {"planning", "merging", "swapping"},
             NEW p, p = job'[s].part
      PROVE  p \in PId /\ Active(p)' /\ job'[s].target = MainFile(p)
  <2>1. CASE Starts(s)
    <3>1. p \in PId /\ Active(p) /\ job'[s].target = MainFile(p) /\ UNCHANGED partition
      BY <1>2, <2>1 DEF Starts
    <3> QED BY <3>1 DEF Active
  <2>2. CASE GoesOn(s)
    <3>1. p = job[s].part /\ Compacts(s) /\ job'[s].target = job[s].target /\ job[s].pc # "idle"
      BY <1>2, <2>2 DEF GoesOn
    <3>2. p \in PId /\ Active(p) /\ job[s].target = MainFile(p)
      BY <3>1 DEF JobsAreApart
    <3>3. ASSUME NEW t \in Slot, Compacts(t), p = job[t].part, job'[t] = Idle PROVE FALSE
      <4>1. t # s
        BY <1>2, <3>3 DEF Idle
      <4>2. job[t].target = MainFile(p) /\ job[t].pc # "idle"
        BY <3>3 DEF JobsAreApart, Compacts
      <4> QED BY <3>1, <3>2, <4>1, <4>2 DEF JobsAreApart
    <3> QED BY <3>1, <3>2, <3>3, ActiveStays
  <2> QED BY <1>2, <2>1, <2>2, TargetSteps DEF Before
<1> QED BY <1>1, <1>2 DEF JobsAreApart, Compacts

\* Rows that are routed by a list have a place.
LEMMA ListsRoute ==
  ASSUME Before, NEW ps \in SUBSET PId, Listed(ps), NEW rows \in SUBSET Row
  PROVE  Routable(ps, rows)
BY DEF Before, RangeInv, ListsCover, CoversAll, Routable

\* No step takes the table for corrupt.
LEMMA StaysUnbroken ==
  ASSUME Before, Next, JobsAreApart, NotBroken
  PROVE  NotBroken'
<1>0. ~broken
  BY DEF NotBroken
<1>1. ASSUME UNCHANGED broken PROVE NotBroken'
  BY <1>0, <1>1 DEF NotBroken
<1>2. ASSUME NEW i \in Insert, InsertUpload(i) PROVE NotBroken'
  <2>1. ins[i].parts \in SUBSET PId /\ ins[i].pc = "routing"
    BY <1>2 DEF InsertUpload, Before, Shape, InsertState
  <2>2. Listed(ins[i].parts)
    BY <2>1 DEF Listed
  <2>3. Routable(ins[i].parts, RowsOf(i))
    BY <2>1, <2>2, RowsOfAreRows, ListsRoute
  <2> QED BY <1>1, <1>2, <2>3 DEF InsertUpload
<1>3. ASSUME NEW s \in Slot, RepartitionUpload(s) PROVE NotBroken'
  <2>1. /\ job[s].parts \in SUBSET PId /\ chunk[job[s].chunk].rows \in SUBSET Row
        /\ job[s].pc = "routing"
    BY <1>3, JobCases DEF RepartitionUpload, Before, Shape
  <2>2. Listed(job[s].parts)
    BY <2>1 DEF Listed
  <2>3. Routable(job[s].parts, chunk[job[s].chunk].rows)
    BY <2>1, <2>2, ListsRoute
  <2> QED BY <1>1, <1>3, <2>3 DEF RepartitionUpload
<1>4. \A c \in CId : Live(c) => ChunkFile(c) \in remote
  BY DEF Before, FileInv, FilesAreThere, Stored, Live
<1>5. ASSUME NEW s \in Slot, CompactPlan(s) PROVE NotBroken'
  <2>1. \A cs \in Smallest(LiveChunksOf(job[s].part)) : \A c \in cs : ChunkFile(c) \in remote
    BY <1>4 DEF Smallest, LiveChunksOf, ChunksOf
  <2> QED BY <1>1, <1>5, <2>1 DEF CompactPlan
<1>6. ASSUME NEW s \in Slot, CompactWrite(s) PROVE NotBroken'
  <2>1. job[s].part \in PId /\ Active(job[s].part)
    BY <1>6 DEF CompactWrite, JobsAreApart, Compacts
  <2>2. ~MissesMainFile(job[s])
    BY <2>1 DEF Before, FileInv, FilesAreThere, HasMainFile, MissesMainFile
  <2> QED BY <1>1, <1>6, <2>2 DEF CompactWrite
<1>7. ASSUME NEW s \in Slot, NEW c \in CId, RepartitionRead(s, c) PROVE NotBroken'
  BY <1>1, <1>4, <1>7 DEF RepartitionRead, MovesFrom
<1>8. ASSUME NEW r \in Reader, SelectEnd(r) PROVE NotBroken'
  <2>1. \A f \in sel[r] : f \in remote
    BY DEF Before, FileInv, SelectFindsItsFiles
  <2> QED BY <1>0, <1>8, <2>1 DEF SelectEnd, NotBroken
<1>9. ASSUME NEW i \in Insert, InsertRoute(i) \/ InsertActivate(i) \/ InsertFails(i) PROVE NotBroken'
  BY <1>1, <1>9 DEF InsertRoute, InsertActivate, InsertFails
<1>10. ASSUME NEW s \in Slot, \/ \E p \in PId : CompactRead(s, p)
                              \/ JobFails(s) \/ CompactSwap(s) \/ RepartitionSwap(s)
       PROVE  NotBroken'
  BY <1>1, <1>10 DEF CompactRead, JobFails, CompactSwap, RepartitionSwap
<1>11. ASSUME NEW r \in Reader, SelectPlan(r) PROVE NotBroken'
  BY <1>1, <1>11 DEF SelectPlan
<1>12. ASSUME (\E e \in events : HandleEvent(e)) \/ Reconciles \/ SchedulerRestart PROVE NotBroken'
  BY <1>1, <1>12, ReconcileCases DEF HandleEvent, SchedulerRestart
<1>13. ASSUME NEW t \in gc, GcStep(t) PROVE NotBroken'
  BY <1>1, <1>13 DEF GcStep, CheckChunk, DeleteChunk, RemoveRemoteFile, DeletePartition,
                     DeleteMiddleManPartition
<1> QED BY <1>2, <1>3, <1>5, <1>6, <1>7, <1>8, <1>9, <1>10, <1>11, <1>12, <1>13, NextCases
        DEF InsertStep, RepartitionStep

\* The table is never deactivated as corrupt: no insert and no repartition lacks a partition
\* for a row, and no compaction, repartition or select lacks a file (partition_rows_for_index,
\* deactivate_table_on_corrupt_data).
THEOREM TableIsNotBroken == ASSUME ~UniqueKey, ~StaleWorkers PROVE Spec => []NotBroken
<1>1. Init => JobsAreApart /\ NotBroken
  BY DEF Init, Idle, JobsAreApart, Compacts, NotBroken
<1>2. Before /\ JobsAreApart /\ NotBroken /\ [Next]_vars => (JobsAreApart /\ NotBroken)'
  <2>1. CASE UNCHANGED vars
    BY <2>1 DEF vars, JobsAreApart, Compacts, Active, NotBroken
  <2> QED BY <2>1, JobsStayApart, StaysUnbroken
<1> QED BY <1>1, <1>2, RangeInvHolds, PTL DEF Spec
=============================================================================
