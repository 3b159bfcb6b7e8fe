-------------------------- MODULE RocksStoreProofs --------------------------
(***************************************************************************)
(* Proofs about RocksStore, for every set of keys, every limit of the logs *)
(* and of the snapshots, and any number of writes, check points and        *)
(* restarts.                                                               *)
(*                                                                         *)
(* The order of writes is that of their ids.  As a store, a snapshot and a *)
(* log hold their writes in that order, what can be loaded from them is    *)
(* told by the sets of their writes, and most of the argument is about     *)
(* those sets.                                                             *)
(***************************************************************************)
EXTENDS RocksStore, NumberSets, SequenceTheorems

-----------------------------------------------------------------------------
(* Sequences of writes                                                     *)

WritesOf(content) == {content[i] : i \in DOMAIN content}

Ordered(content) ==
  \A i, j \in DOMAIN content : i <= j => content[i].id <= content[j].id

Increasing(content) ==
  \A i, j \in DOMAIN content : i < j => content[i].id < content[j].id

\* Ids are numbers.
LEMMA IdsAreNumbers == \A w \in Ops : w.id \in Nat
  BY StoreAssumption DEF Ops

\* What is known of an element of Content.
LEMMA ContentFacts ==
  ASSUME NEW c \in Content
  PROVE  /\ Len(c) \in Nat /\ DOMAIN c = 1 .. Len(c)
         /\ \A i \in DOMAIN c : c[i] \in Ops /\ c[i].id \in Nat
         /\ WritesOf(c) \subseteq Ops
  BY IdsAreNumbers DEF Content, WritesOf

\* The empty content.
LEMMA EmptyContent ==
  /\ <<>> \in Content /\ WritesOf(<<>>) = {} /\ Ordered(<<>>) /\ Increasing(<<>>)
  /\ Len(<<>>) = 0
  BY DEF Content, WritesOf, Ordered, Increasing

\* A write added at the end.
LEMMA AppendFacts ==
  ASSUME NEW c \in Content, NEW w \in Ops
  PROVE  /\ Append(c, w) \in Content /\ Len(Append(c, w)) = Len(c) + 1
         /\ Append(c, w)[Len(c) + 1] = w
         /\ \A i \in 1 .. Len(c) : Append(c, w)[i] = c[i]
         /\ WritesOf(Append(c, w)) = WritesOf(c) \cup {w}
<1>1. Append(c, w) \in Content /\ Len(Append(c, w)) = Len(c) + 1 /\ Len(c) \in Nat
  BY DEF Content
<1>2. /\ Append(c, w)[Len(c) + 1] = w
      /\ \A i \in 1 .. Len(c) : Append(c, w)[i] = c[i]
  BY DEF Content
<1>3. DOMAIN Append(c, w) = 1 .. Len(c) + 1 /\ DOMAIN c = 1 .. Len(c)
  BY <1>1, ContentFacts
<1>4. ASSUME NEW v \in WritesOf(Append(c, w)) PROVE v \in WritesOf(c) \cup {w}
  <2>1. PICK i \in 1 .. Len(c) + 1 : v = Append(c, w)[i]
    BY <1>3, <1>4 DEF WritesOf
  <2>2. CASE i = Len(c) + 1
    BY <1>2, <2>1, <2>2
  <2>3. CASE i \in 1 .. Len(c)
    BY <1>2, <1>3, <2>1, <2>3 DEF WritesOf
  <2> QED BY <1>1, <2>2, <2>3
<1>5. w \in WritesOf(Append(c, w))
  <2>1. Len(c) + 1 \in DOMAIN Append(c, w)
    BY <1>1, <1>3
  <2> QED BY <1>2, <2>1 DEF WritesOf
<1>6. ASSUME NEW v \in WritesOf(c) PROVE v \in WritesOf(Append(c, w))
  <2>1. PICK i \in 1 .. Len(c) : v = c[i]
    BY <1>3, <1>6 DEF WritesOf
  <2>2. i \in DOMAIN Append(c, w)
    BY <1>1, <1>3
  <2> QED BY <1>2, <2>1, <2>2 DEF WritesOf
<1> QED BY <1>1, <1>2, <1>4, <1>5, <1>6

\* A write added at the end keeps the order when none is later.
LEMMA AppendOrder ==
  ASSUME NEW c \in Content, NEW w \in Ops
  PROVE  /\ Ordered(c) /\ (\A v \in WritesOf(c) : v.id <= w.id) => Ordered(Append(c, w))
         /\ Increasing(c) /\ (\A v \in WritesOf(c) : v.id < w.id)
              => Increasing(Append(c, w))
<1>1. /\ DOMAIN Append(c, w) = 1 .. Len(c) + 1 /\ DOMAIN c = 1 .. Len(c) /\ Len(c) \in Nat
      /\ Append(c, w)[Len(c) + 1] = w
      /\ \A i \in 1 .. Len(c) : Append(c, w)[i] = c[i]
  BY AppendFacts, ContentFacts
<1>2. \A i \in 1 .. Len(c) : c[i] \in WritesOf(c)
  BY <1>1 DEF WritesOf
<1>3. w.id \in Nat
  BY IdsAreNumbers
<1>4. \A i \in 1 .. Len(c) + 1 : i \in 1 .. Len(c) \/ i = Len(c) + 1
  BY <1>1
<1>5. ASSUME Ordered(c), \A v \in WritesOf(c) : v.id <= w.id
      PROVE  Ordered(Append(c, w))
  <2> SUFFICES ASSUME NEW i \in 1 .. Len(c) + 1, NEW j \in 1 .. Len(c) + 1, i <= j
               PROVE  Append(c, w)[i].id <= Append(c, w)[j].id
    BY <1>1 DEF Ordered
  <2>1. CASE j = Len(c) + 1
    BY <1>1, <1>2, <1>3, <1>4, <1>5, <2>1
  <2>2. CASE j \in 1 .. Len(c)
    <3>1. i \in 1 .. Len(c)
      BY <1>1, <2>2
    <3> QED BY <1>1, <1>5, <2>2, <3>1 DEF Ordered
  <2> QED BY <1>4, <2>1, <2>2
<1>6. ASSUME Increasing(c), \A v \in WritesOf(c) : v.id < w.id
      PROVE  Increasing(Append(c, w))
  <2> SUFFICES ASSUME NEW i \in 1 .. Len(c) + 1, NEW j \in 1 .. Len(c) + 1, i < j
               PROVE  Append(c, w)[i].id < Append(c, w)[j].id
    BY <1>1 DEF Increasing
  <2>1. i \in 1 .. Len(c)
    BY <1>1
  <2>2. CASE j = Len(c) + 1
    BY <1>1, <1>2, <1>6, <2>1, <2>2
  <2>3. CASE j \in 1 .. Len(c)
    BY <1>1, <1>6, <2>1, <2>3 DEF Increasing
  <2> QED BY <1>4, <2>2, <2>3
<1> QED BY <1>5, <1>6

\* Growing ids are in order.
LEMMA IncreasingIsOrdered ==
  ASSUME NEW c \in Content, Increasing(c)
  PROVE  Ordered(c)
<1> SUFFICES ASSUME NEW i \in DOMAIN c, NEW j \in DOMAIN c, i <= j
             PROVE  c[i].id <= c[j].id
  BY DEF Ordered
<1>1. i \in Nat /\ j \in Nat /\ c[i].id \in Nat /\ c[j].id \in Nat
  BY ContentFacts
<1>2. CASE i = j
  BY <1>1, <1>2
<1>3. CASE i < j
  BY <1>1, <1>3 DEF Increasing
<1> QED BY <1>1, <1>2, <1>3

\* One content after another.
LEMMA ConcatFacts ==
  ASSUME NEW c \in Content, NEW d \in Content
  PROVE  /\ c \o d \in Content /\ Len(c \o d) = Len(c) + Len(d)
         /\ WritesOf(c \o d) = WritesOf(c) \cup WritesOf(d)
         /\ Ordered(c) /\ Ordered(d)
              /\ (\A v \in WritesOf(c), w \in WritesOf(d) : v.id <= w.id)
              => Ordered(c \o d)
<1>1. c \o d \in Content /\ Len(c \o d) = Len(c) + Len(d) /\ Len(c) \in Nat /\ Len(d) \in Nat
  BY DEF Content
<1>2. \A i \in 1 .. Len(c) : (c \o d)[i] = c[i]
  BY DEF Content
<1>3. \A i \in 1 .. Len(d) : (c \o d)[Len(c) + i] = d[i]
  BY DEF Content
<1>4. /\ DOMAIN c = 1 .. Len(c) /\ DOMAIN d = 1 .. Len(d)
      /\ DOMAIN (c \o d) = 1 .. Len(c) + Len(d)
  BY <1>1, ContentFacts
<1>5. \A i \in 1 .. Len(c) + Len(d) :
        i \in 1 .. Len(c) \/ \E k \in 1 .. Len(d) : i = Len(c) + k
  <2> SUFFICES ASSUME NEW i \in 1 .. Len(c) + Len(d), i \notin 1 .. Len(c)
               PROVE  \E k \in 1 .. Len(d) : i = Len(c) + k
    OBVIOUS
  <2>1. i - Len(c) \in 1 .. Len(d) /\ i = Len(c) + (i - Len(c))
    BY <1>1
  <2> QED BY <2>1
<1>6. /\ \A i \in 1 .. Len(c) : c[i] \in WritesOf(c)
      /\ \A i \in 1 .. Len(d) : d[i] \in WritesOf(d)
  BY <1>4 DEF WritesOf
<1>7. ASSUME NEW v \in WritesOf(c \o d) PROVE v \in WritesOf(c) \cup WritesOf(d)
  <2>1. PICK i \in 1 .. Len(c) + Len(d) : v = (c \o d)[i]
    BY <1>4, <1>7 DEF WritesOf
  <2>2. CASE i \in 1 .. Len(c)
    BY <1>2, <1>6, <2>1, <2>2
  <2>3. ASSUME NEW k \in 1 .. Len(d), i = Len(c) + k PROVE v \in WritesOf(d)
    BY <1>3, <1>6, <2>1, <2>3
  <2> QED BY <1>5, <2>2, <2>3
<1>8. ASSUME NEW v \in WritesOf(c) PROVE v \in WritesOf(c \o d)
  <2>1. PICK i \in 1 .. Len(c) : v = c[i]
    BY <1>4, <1>8 DEF WritesOf
  <2>2. i \in DOMAIN (c \o d)
    BY <1>1, <1>4
  <2> QED BY <1>2, <2>1, <2>2 DEF WritesOf
<1>9. ASSUME NEW v \in WritesOf(d) PROVE v \in WritesOf(c \o d)
  <2>1. PICK i \in 1 .. Len(d) : v = d[i]
    BY <1>4, <1>9 DEF WritesOf
  <2>2. Len(c) + i \in DOMAIN (c \o d)
    BY <1>1, <1>4
  <2> QED BY <1>3, <2>1, <2>2 DEF WritesOf
<1>10. ASSUME Ordered(c), Ordered(d),
              \A v \in WritesOf(c), w \in WritesOf(d) : v.id <= w.id
       PROVE  Ordered(c \o d)
  <2> SUFFICES ASSUME NEW i \in 1 .. Len(c) + Len(d), NEW j \in 1 .. Len(c) + Len(d),
                      i <= j
               PROVE  (c \o d)[i].id <= (c \o d)[j].id
    BY <1>4 DEF Ordered
  <2>1. CASE i \in 1 .. Len(c) /\ j \in 1 .. Len(c)
    BY <1>2, <1>4, <1>10, <2>1 DEF Ordered
  <2>2. ASSUME i \in 1 .. Len(c), NEW k \in 1 .. Len(d), j = Len(c) + k
        PROVE  (c \o d)[i].id <= (c \o d)[j].id
    <3>1. c[i].id <= d[k].id
      BY <1>6, <1>10, <2>2
    <3> QED BY <1>2, <1>3, <2>2, <3>1
  <2>3. ASSUME NEW k \in 1 .. Len(d), i = Len(c) + k,
               NEW l \in 1 .. Len(d), j = Len(c) + l
        PROVE  (c \o d)[i].id <= (c \o d)[j].id
    <3>1. k <= l
      BY <1>1, <2>3
    <3>2. d[k].id <= d[l].id
      BY <1>4, <1>10, <3>1 DEF Ordered
    <3> QED BY <1>3, <2>3, <3>2
  <2>4. j \in 1 .. Len(c) => i \in 1 .. Len(c)
    BY <1>1
  <2> QED BY <1>5, <2>1, <2>2, <2>3, <2>4
<1> QED BY <1>1, <1>7, <1>8, <1>9, <1>10

\* A part of a content.
LEMMA SubSeqFacts ==
  ASSUME NEW c \in Content, NEW a \in Nat \ {0}, NEW b \in 0 .. Len(c)
  PROVE  /\ SubSeq(c, a, b) \in Content
         /\ WritesOf(SubSeq(c, a, b)) = {c[i] : i \in a .. b}
         /\ Ordered(c) => Ordered(SubSeq(c, a, b))
         /\ Increasing(c) => Increasing(SubSeq(c, a, b))
<1> DEFINE s == SubSeq(c, a, b)
           n == IF a <= b THEN b - a + 1 ELSE 0
<1>1. /\ Len(c) \in Nat /\ DOMAIN c = 1 .. Len(c) /\ c \in Seq(Ops) /\ b \in Nat
      /\ \A i \in a .. b : i \in DOMAIN c
  BY ContentFacts DEF Content
<1>2. s \in Seq(Ops) /\ Len(s) = n /\ n \in Nat
  <2>1. CASE a <= b
    BY <1>1, <2>1, SubSeqProperties
  <2>2. CASE ~(a <= b)
    BY <1>1, <2>2, SubSeqEmpty
  <2> QED BY <2>1, <2>2
<1>3. DOMAIN s = 1 .. n
  BY <1>2
<1>4. \A k \in 1 .. n : a + k - 1 \in a .. b /\ s[k] = c[a + k - 1]
  <2> SUFFICES ASSUME NEW k \in 1 .. n PROVE a + k - 1 \in a .. b /\ s[k] = c[a + k - 1]
    OBVIOUS
  <2>1. a <= b /\ k \in 1 .. (b - a + 1)
    BY <1>1
  <2> QED BY <1>1, <2>1, SubSeqProperties
<1>5. \A i \in a .. b : i - a + 1 \in 1 .. n /\ a + (i - a + 1) - 1 = i
  BY <1>1
<1> HIDE DEF s, n
<1>6. WritesOf(s) = {c[i] : i \in a .. b}
  <2>1. ASSUME NEW v \in WritesOf(s) PROVE v \in {c[i] : i \in a .. b}
    <3>1. PICK k \in 1 .. n : v = s[k]
      BY <1>3, <2>1 DEF WritesOf
    <3> QED BY <1>4, <3>1
  <2>2. ASSUME NEW i \in a .. b PROVE c[i] \in WritesOf(s)
    <3>1. i - a + 1 \in 1 .. n /\ s[i - a + 1] = c[i]
      BY <1>4, <1>5
    <3> QED BY <1>3, <3>1 DEF WritesOf
  <2> QED BY <2>1, <2>2
<1>7. ASSUME NEW k \in 1 .. n, NEW l \in 1 .. n
      PROVE  /\ k <= l => a + k - 1 <= a + l - 1
             /\ k < l => a + k - 1 < a + l - 1
             /\ a + k - 1 \in DOMAIN c /\ a + l - 1 \in DOMAIN c
  BY <1>1, <1>2, <1>4
<1>8. Ordered(c) => Ordered(s)
  BY <1>3, <1>4, <1>7 DEF Ordered
<1>9. Increasing(c) => Increasing(s)
  BY <1>3, <1>4, <1>7 DEF Increasing
<1> QED BY <1>2, <1>6, <1>8, <1>9 DEF s, Content

-----------------------------------------------------------------------------
(* Logs of writes                                                          *)

\* A log has the puts of a content.
LEMMA LoggedType ==
  ASSUME NEW c \in Content
  PROVE  Logged(c) \in Content
<1> DEFINE P == {i \in DOMAIN c : c[i].op # "truncate"}
           Nth(n) == CHOOSE i \in P : Cardinality({j \in P : j <= i}) = n
<1>1. DOMAIN c = 1 .. Len(c) /\ Len(c) \in Nat /\ \A i \in DOMAIN c : c[i] \in Ops
  BY ContentFacts
<1>2. IsFiniteSet(P) /\ P \in SUBSET Int
  <2>1. IsFiniteSet(1 .. Len(c))
    BY <1>1, FS_Interval
  <2>2. P \in SUBSET (1 .. Len(c))
    BY <1>1
  <2> HIDE DEF P
  <2>3. IsFiniteSet(P)
    BY <2>1, <2>2, FS_Subset
  <2> QED BY <1>1, <2>2, <2>3
<1>3. \A i \in P : c[i] \in Ops
  BY <1>1
<1>4. Logged(c) = [n \in 1 .. Cardinality(P) |-> c[Nth(n)]]
  BY DEF Logged
<1> HIDE DEF P
<1>5. Cardinality(P) \in Nat
  BY <1>2, FS_CardinalityType
<1>6. ASSUME NEW n \in 1 .. Cardinality(P) PROVE Nth(n) \in P
  <2>1. \E i \in P : Cardinality(Upto(P, i)) = n
    BY <1>2, <1>5, CountReaches
  <2>2. \E i \in P : Cardinality({j \in P : j <= i}) = n
    BY <2>1 DEF Upto
  <2> QED BY <2>2
<1> HIDE DEF Nth
<1>7. [n \in 1 .. Cardinality(P) |-> c[Nth(n)]] \in Seq(Ops)
  <2>1. \A n \in 1 .. Cardinality(P) : c[Nth(n)] \in Ops
    BY <1>3, <1>6
  <2> QED BY <1>5, <2>1, IsASeq
<1> QED BY <1>4, <1>7 DEF Content

\* Without a truncate it has everything.
LEMMA LoggedPuts ==
  ASSUME NEW c \in Content, \A w \in WritesOf(c) : w.op # "truncate"
  PROVE  Logged(c) = c
<1> DEFINE P == {i \in DOMAIN c : c[i].op # "truncate"}
           Nth(n) == CHOOSE i \in P : Cardinality({j \in P : j <= i}) = n
           L == Len(c)
<1>1. DOMAIN c = 1 .. L /\ L \in Nat /\ c \in Seq(Ops)
  BY ContentFacts DEF Content
<1>2. P = 1 .. L
  BY <1>1 DEF WritesOf
<1>3. Logged(c) = [n \in 1 .. Cardinality(P) |-> c[Nth(n)]]
  BY DEF Logged
<1> HIDE DEF P
<1>4. Cardinality(P) = L
  <2>1. Cardinality(1 .. L) = L
    BY <1>1, FirstNumbers
  <2> QED BY <1>2, <2>1
<1>5. ASSUME NEW i \in P PROVE Cardinality({j \in P : j <= i}) = i
  <2>1. {j \in P : j <= i} = 1 .. i
    BY <1>1, <1>2
  <2>2. i \in Nat /\ 1 <= i
    BY <1>2
  <2>3. Cardinality(1 .. i) = i
    BY <2>2, FirstNumbers
  <2> QED BY <2>1, <2>3
<1>6. ASSUME NEW n \in 1 .. L PROVE Nth(n) = n
  <2>1. \A i \in P : Cardinality({j \in P : j <= i}) = n <=> i = n
    BY <1>5
  <2>2. n \in P
    BY <1>2
  <2>3. Nth(n) \in P /\ Cardinality({j \in P : j <= Nth(n)}) = n
    BY <2>1, <2>2
  <2> HIDE DEF Nth
  <2> QED BY <2>1, <2>3
<1> HIDE DEF Nth, L
<1>7. Logged(c) = [n \in 1 .. L |-> c[n]]
  BY <1>3, <1>4, <1>6
<1> QED BY <1>1, <1>7

-----------------------------------------------------------------------------
(* Rows.  The row of a key in a set of writes is the one with the largest id *)
(* that touches the key.                                                     *)

IsRow(W, key, row) ==
  IF \E w \in W : Touches(w, key)
  THEN /\ \E w \in W : Touches(w, key) /\ w.id = row
       /\ \A w \in W : Touches(w, key) => w.id <= row
  ELSE row = 0

\* There is one.
LEMMA OneRow ==
  ASSUME NEW W \in SUBSET Ops, NEW key, NEW row, NEW other,
         IsRow(W, key, row), IsRow(W, key, other)
  PROVE  row = other
<1>1. CASE \E w \in W : Touches(w, key)
  <2>1. row \in Nat /\ other \in Nat
    BY <1>1, IdsAreNumbers DEF IsRow
  <2>2. row <= other /\ other <= row
    BY <1>1 DEF IsRow
  <2> QED BY <2>1, <2>2
<1>2. CASE ~\E w \in W : Touches(w, key)
  BY <1>2 DEF IsRow
<1> QED BY <1>1, <1>2

\* Of a number of positions one is the last.
LEMMA LastPosition ==
  ASSUME NEW n \in Nat, NEW S \in SUBSET (1 .. n), S # {}
  PROVE  \E i \in S : \A j \in S : j <= i
<1>1. IsFiniteSet(S) /\ S \in SUBSET Int
  <2>1. IsFiniteSet(1 .. n)
    BY FirstNumbers
  <2>2. IsFiniteSet(S)
    BY <2>1, FS_Subset
  <2> QED BY <2>2
<1>2. Max(S) \in S /\ \A j \in S : j <= Max(S)
  BY <1>1, FiniteHasMax
<1> QED BY <1>2

\* LastOf takes an entry for the key after which there is no other.
LEMMA LastOfFacts ==
  ASSUME NEW c \in Content, NEW key, Has(c, key)
  PROVE  \E i \in DOMAIN c :
           /\ LastOf(c, key) = c[i].id /\ Touches(c[i], key)
           /\ \A j \in DOMAIN c : Touches(c[j], key) => j <= i
<1> DEFINE S == {i \in DOMAIN c : Touches(c[i], key)}
           IsLast(i) == /\ Touches(c[i], key)
                        /\ \A j \in DOMAIN c : Touches(c[j], key) => j <= i
<1>1. DOMAIN c = 1 .. Len(c) /\ Len(c) \in Nat
  BY ContentFacts
<1>2. \E i \in DOMAIN c : IsLast(i)
  <2>1. S \in SUBSET (1 .. Len(c)) /\ S # {}
    BY <1>1 DEF Has
  <2>2. \E i \in S : \A j \in S : j <= i
    <3> HIDE DEF S
    <3> QED BY <1>1, <2>1, LastPosition
  <2> QED BY <2>2
<1>3. PICK i \in DOMAIN c : i = (CHOOSE k \in DOMAIN c : IsLast(k)) /\ IsLast(i)
  <2> HIDE DEF IsLast
  <2> QED BY <1>2
<1>4. LastOf(c, key) = c[i].id
  BY <1>3 DEF LastOf
<1> QED BY <1>3, <1>4

\* In a content in order the last entry of a key is its row.
LEMMA LastOfIsRow ==
  ASSUME NEW c \in Content, Ordered(c), NEW key
  PROVE  IsRow(WritesOf(c), key, LastOf(c, key))
<1>1. CASE Has(c, key)
  <2>1. PICK i \in DOMAIN c :
           /\ LastOf(c, key) = c[i].id /\ Touches(c[i], key)
           /\ \A j \in DOMAIN c : Touches(c[j], key) => j <= i
    BY <1>1, LastOfFacts
  <2>2. c[i] \in WritesOf(c)
    BY DEF WritesOf
  <2>3. \A w \in WritesOf(c) : Touches(w, key) => w.id <= c[i].id
    BY <2>1 DEF WritesOf, Ordered
  <2> QED BY <2>1, <2>2, <2>3 DEF IsRow
<1>2. CASE ~Has(c, key)
  <2>1. ~\E w \in WritesOf(c) : Touches(w, key)
    BY <1>2 DEF Has, WritesOf
  <2>2. LastOf(c, key) = 0
    BY <1>2 DEF LastOf
  <2> QED BY <2>1, <2>2 DEF IsRow
<1> QED BY <1>1, <1>2

\* Contents in order of the same writes are the same state.
LEMMA SameWritesSameState ==
  ASSUME NEW c \in Content, NEW d \in Content, Ordered(c), Ordered(d),
         WritesOf(c) = WritesOf(d)
  PROVE  StateOf(c) = StateOf(d)
<1>1. ASSUME NEW key \in Keys PROVE LastOf(c, key) = LastOf(d, key)
  <2>1. IsRow(WritesOf(c), key, LastOf(c, key)) /\ IsRow(WritesOf(c), key, LastOf(d, key))
    BY LastOfIsRow
  <2>2. WritesOf(c) \in SUBSET Ops
    BY ContentFacts
  <2> QED BY <2>1, <2>2, OneRow
<1> QED BY <1>1 DEF StateOf

-----------------------------------------------------------------------------
(* Types                                                                   *)

Phases == {"down", "fetching", "replaying", "running"}
Steps  == {"idle", "log", "logged", "checkpoint", "files", "pointer", "cleanup"}

StoreShape == db \in Content /\ disk \in {"absent", "partial", "store"}

\* Only a process that runs uploads; one that loads has a check point.
ProcessShape ==
  /\ process \in [phase : Phases, todo : SUBSET Nat]
  /\ process.phase # "running" => upload = NoUpload
  /\ process.phase \in {"fetching", "replaying"} => current # 0
  /\ process.phase = "replaying" => process.todo \subseteq DOMAIN logs[current]

UploadShape ==
  /\ upload \in [pc : Steps, from : Nat, to : Nat, entries : Content]
  /\ upload.to <= Len(db) /\ upload.from <= upload.to + 1
  /\ upload.pc = "log" => 1 <= upload.from /\ upload.from <= upload.to

SeqShape ==
  /\ lastUploadSeq \in 0 .. Len(db) /\ lastCheckSeq \in 0 .. Len(db)
  /\ lastCheckpointTime \in 0 .. clock /\ current \in 0 .. clock
  /\ snapshotUploaded \in BOOLEAN /\ uploadStopped \in BOOLEAN

SnapshotShape ==
  snapshot \in [Times -> [files : {"absent", "partial", "complete"},
                          db : Content, of : 0 .. starts]]

LogShape ==
  /\ DOMAIN logs = Times
  /\ \A t \in Times :
       /\ IsFiniteSet(DOMAIN logs[t])
       /\ \A n \in DOMAIN logs[t] : n \in Nat \ {0} /\ logs[t][n] \in Log

CounterShape ==
  /\ clock \in 0 .. MaxTime /\ written \in 0 .. MaxWrites
  /\ starts \in 0 .. MaxStarts
  /\ timeline \in [0 .. MaxStarts -> Content]

NothingBeyond ==
  \A t \in Times : t > clock => snapshot[t].files = "absent" /\ DOMAIN logs[t] = {}

Shape == StoreShape /\ ProcessShape /\ UploadShape /\ SeqShape
           /\ SnapshotShape /\ LogShape /\ CounterShape /\ NothingBeyond

\* The parts of the shape give the type invariant that the run checks.
LEMMA ShapeIsTyped == Shape => TypeOK
<1> SUFFICES ASSUME Shape PROVE TypeOK
  OBVIOUS
<1>1. db \in Content /\ disk \in {"absent", "partial", "store"} /\ Len(db) \in Nat
  BY ContentFacts DEF Shape, StoreShape
<1>2. process.phase \in {"down", "fetching", "replaying", "running"} /\ process.todo \subseteq Nat
  BY DEF Shape, ProcessShape, Phases
<1>3. /\ upload.pc \in {"idle", "log", "logged", "checkpoint", "files", "pointer", "cleanup"}
      /\ upload.from \in 0 .. upload.to + 1 /\ upload.to \in 0 .. Len(db)
      /\ upload.entries \in Content
  BY <1>1 DEF Shape, UploadShape, Steps
<1>4. \A t \in Times : /\ snapshot[t].files \in {"absent", "partial", "complete"}
                       /\ snapshot[t].db \in Content
  BY DEF Shape, SnapshotShape
<1>5. \A t \in Times : \A n \in DOMAIN logs[t] : n > 0 /\ logs[t][n] \in Log
  BY DEF Shape, LogShape
<1>6. SeqShape
  BY DEF Shape
<1>7. /\ clock \in 0 .. MaxTime /\ written \in 0 .. MaxWrites /\ starts \in 0 .. MaxStarts
      /\ \A n \in 0 .. MaxStarts : timeline[n] \in Content
  BY DEF Shape, CounterShape
<1> QED BY <1>1, <1>2, <1>3, <1>4, <1>5, <1>6, <1>7 DEF TypeOK, SeqShape

\* The initial state has this shape.
LEMMA ShapeInit == Init => Shape
<1> SUFFICES ASSUME Init PROVE Shape
  OBVIOUS
<1>1. <<>> \in Content /\ Len(<<>>) = 0
  BY EmptyContent
<1>2. StoreShape
  BY <1>1 DEF Init, StoreShape
<1>3. ProcessShape
  BY DEF Init, ProcessShape, Phases
<1>4. UploadShape
  BY <1>1 DEF Init, UploadShape, NoUpload, Steps
<1>5. SeqShape
  <2>1. snapshotUploaded \in BOOLEAN /\ uploadStopped \in BOOLEAN
    BY Zenon DEF Init
  <2>2. /\ lastUploadSeq = 0 /\ lastCheckSeq = 0 /\ lastCheckpointTime = 0
        /\ current = 0 /\ clock = 0 /\ Len(db) = 0
    BY <1>1 DEF Init
  <2> QED BY <2>1, <2>2 DEF SeqShape
<1>6. SnapshotShape
  <2>1. NoFiles \in [files : {"absent", "partial", "complete"}, db : Content, of : 0 .. starts]
    <3>1. 0 \in 0 .. starts
      BY DEF Init
    <3> QED BY <1>1, <3>1 DEF NoFiles
  <2> QED BY <2>1 DEF Init, SnapshotShape
<1>7. LogShape
  <2>1. DOMAIN <<>> = {}
    OBVIOUS
  <2>2. DOMAIN logs = Times /\ \A t \in Times : DOMAIN logs[t] = {}
    BY <2>1 DEF Init
  <2>3. IsFiniteSet({})
    BY FS_EmptySet
  <2> QED BY <2>2, <2>3 DEF LogShape
<1>8. CounterShape
  BY <1>1, StoreAssumption DEF Init, CounterShape
<1>9. NothingBeyond
  <2>1. DOMAIN <<>> = {}
    OBVIOUS
  <2> QED BY <2>1 DEF Init, NothingBeyond, NoFiles
<1> QED BY <1>2, <1>3, <1>4, <1>5, <1>6, <1>7, <1>8, <1>9 DEF Shape

\* What the steps do to the remote file system: a log or the files of a check
\* point are put there, or check points are deleted.
LogPut ==
  /\ upload.pc = "log" /\ snapshotUploaded
  /\ \/ PutLog(Torn)
     \/ PutLog([readable |-> TRUE, entries |-> upload.entries])

FilesPut == upload.pc = "files" /\ \E f \in {"partial", "complete"} : PutFiles(f)

OldDeleted ==
  upload.pc = "cleanup" /\ \E cutoff \in Nat : \E times \in SUBSET Old(cutoff) : Delete(times)

\* Every step does one of these to the remote file system, or nothing.
LEMMA RemoteSteps ==
  ASSUME Shape, [Next]_vars
  PROVE  /\ UNCHANGED logs \/ LogPut \/ OldDeleted
         /\ UNCHANGED snapshot \/ FilesPut \/ OldDeleted
<1>1. CASE Load
  BY <1>1 DEF Load, StartFromScratch, StartFromDisk, StartFromRemote, OpenFetched, ReplayLog,
              LoadDone, remote
<1>2. CASE Die
  BY <1>2 DEF Die, LogPut, FilesPut
<1>3. CASE (\E key \in Keys : Write(key)) \/ Truncate
  BY <1>3 DEF Write, Truncate, Commit, remote
<1>4. CASE Advance \/ SkipCheckpoint \/ BeginCheckpoint \/ WriteCurrent
  BY <1>4 DEF Advance, CollectLog, CreateCheckpoint, SkipCheckpoint, BeginCheckpoint,
              WriteCurrent, remote
<1>5. CASE UploadLog \/ UploadLogFails
  BY <1>5 DEF UploadLog, UploadLogFails, LogPut, At
<1>6. CASE UploadFiles
  BY <1>6 DEF UploadFiles, FilesPut, At
<1>7. CASE FinishCheckpoint
  <2>1. PICK cutoff \in 0 .. clock + 1 : Delete(Old(cutoff))
    BY <1>7 DEF FinishCheckpoint
  <2>2. cutoff \in Nat /\ upload.pc = "cleanup"
    BY <1>7 DEF FinishCheckpoint, At
  <2> QED BY <2>1, <2>2 DEF OldDeleted
<1>8. CASE CheckpointFails
  <2>1. clock + 1 \in Nat
    BY DEF Shape, CounterShape
  <2>2. (At("cleanup") /\ \E times \in SUBSET Old(clock + 1) : Delete(times)) => OldDeleted
    BY <2>1 DEF OldDeleted, At
  <2>3. At("files") /\ PutFiles("partial") => FilesPut
    BY DEF FilesPut, At
  <2> QED BY <1>8, <2>2, <2>3 DEF CheckpointFails, remote
<1>9. CASE \E t \in Times : SetCurrentSnapshot(t)
  BY <1>9 DEF SetCurrentSnapshot
<1>10. CASE UNCHANGED vars
  BY <1>10 DEF vars, remote
<1> QED BY <1>1, <1>2, <1>3, <1>4, <1>5, <1>6, <1>7, <1>8, <1>9, <1>10 DEF Next

\* A log that is put is kept under its first number.
LEMMA PutLogShape ==
  ASSUME Shape, NEW log \in Log, upload.from # 0, PutLog(log)
  PROVE  LogShape'
<1>1. /\ DOMAIN logs = Times /\ upload.from \in Nat \ {0}
      /\ \A t \in Times :
           /\ IsFiniteSet(DOMAIN logs[t])
           /\ \A n \in DOMAIN logs[t] : n \in Nat \ {0} /\ logs[t][n] \in Log
  BY DEF Shape, LogShape, UploadShape
<1>2. DOMAIN logs' = Times
  BY <1>1 DEF PutLog
<1>3. ASSUME NEW t \in Times
      PROVE  /\ IsFiniteSet(DOMAIN logs'[t])
             /\ \A n \in DOMAIN logs'[t] : n \in Nat \ {0} /\ logs'[t][n] \in Log
  <2>1. CASE t = lastCheckpointTime
    <3>1. logs'[t] = [n \in DOMAIN logs[t] \cup {upload.from} |->
                        IF n = upload.from THEN log ELSE logs[t][n]]
      BY <1>1, <2>1 DEF PutLog
    <3>2. DOMAIN logs'[t] = DOMAIN logs[t] \cup {upload.from}
      BY <3>1
    <3>3. IsFiniteSet(DOMAIN logs[t] \cup {upload.from})
      BY <1>1, FS_AddElement
    <3>4. \A n \in DOMAIN logs'[t] : n \in Nat \ {0} /\ logs'[t][n] \in Log
      BY <1>1, <3>1
    <3> QED BY <3>2, <3>3, <3>4
  <2>2. CASE t # lastCheckpointTime
    <3>1. logs'[t] = logs[t]
      BY <1>1, <2>2 DEF PutLog
    <3> QED BY <1>1, <3>1
  <2> QED BY <2>1, <2>2
<1> QED BY <1>2, <1>3 DEF LogShape

\* A deletion leaves empty directories behind.
LEMMA DeleteShape ==
  ASSUME Shape, NEW times, Delete(times), starts' = starts
  PROVE  LogShape' /\ SnapshotShape'
<1>1. LogShape'
  <2>1. DOMAIN <<>> = {}
    OBVIOUS
  <2>2. /\ DOMAIN logs' = Times
        /\ \A t \in Times : DOMAIN logs'[t] = {} \/ logs'[t] = logs[t]
    BY <2>1 DEF Delete
  <2>3. IsFiniteSet({})
    BY FS_EmptySet
  <2> QED BY <2>2, <2>3 DEF Shape, LogShape
<1>2. SnapshotShape'
  <2>1. NoFiles \in [files : {"absent", "partial", "complete"}, db : Content, of : 0 .. starts]
    <3>1. 0 \in 0 .. starts
      BY DEF Shape, CounterShape
    <3> QED BY <3>1, EmptyContent DEF NoFiles
  <2> QED BY <2>1 DEF Shape, SnapshotShape, Delete
<1> QED BY <1>1, <1>2

\* Processes are counted one by one.
LEMMA StartsSteps ==
  ASSUME Shape, [Next]_vars
  PROVE  /\ starts' = starts \/ (starts' = starts + 1 /\ starts < MaxStarts
                                   /\ process.phase = "down")
         /\ starts' # starts => UNCHANGED <<remote, clock, written>>
<1>1. CASE StartFromScratch \/ StartFromDisk \/ StartFromRemote
  BY <1>1 DEF StartFromScratch, StartFromDisk, StartFromRemote, Started
<1>2. CASE OpenFetched \/ LoadDone \/ (\E n \in process.todo : ReplayLog(n)) \/ Die
  BY <1>2 DEF OpenFetched, ReplayLog, LoadDone, Die
<1>3. CASE (\E key \in Keys : Write(key)) \/ Truncate
  BY <1>3 DEF Write, Truncate, Commit
<1>4. CASE Advance \/ SkipCheckpoint \/ BeginCheckpoint \/ WriteCurrent
             \/ UploadLog \/ UploadLogFails \/ UploadFiles \/ FinishCheckpoint
             \/ CheckpointFails
  BY <1>4 DEF Advance, CollectLog, CreateCheckpoint, SkipCheckpoint, BeginCheckpoint,
              WriteCurrent, UploadLog, UploadLogFails, UploadFiles, FinishCheckpoint,
              CheckpointFails
<1>5. CASE \E t \in Times : SetCurrentSnapshot(t)
  BY <1>5 DEF SetCurrentSnapshot
<1>6. CASE UNCHANGED vars
  BY <1>6 DEF vars
<1> QED BY <1>1, <1>2, <1>3, <1>4, <1>5, <1>6 DEF Next, Load

\* Logs and check points keep their types.
LEMMA RemoteShape ==
  ASSUME Shape, [Next]_vars
  PROVE  LogShape' /\ SnapshotShape'
<1>1. starts' = starts \/ (starts' = starts + 1 /\ UNCHANGED <<remote, clock, written>>)
  BY StartsSteps
<1>2. starts \in Nat
  BY DEF Shape, CounterShape
<1>3. CASE starts' = starts + 1
  <2>1. UNCHANGED <<snapshot, logs>>
    BY <1>1, <1>2, <1>3 DEF remote
  <2>2. 0 .. starts \subseteq 0 .. starts'
    BY <1>2, <1>3
  <2>3. LogShape'
    BY <2>1 DEF Shape, LogShape
  <2>4. SnapshotShape'
    BY <2>1, <2>2 DEF Shape, SnapshotShape
  <2> QED BY <2>3, <2>4
<1>4. CASE starts' = starts
  <2>1. CASE OldDeleted
    <3>1. PICK times : Delete(times)
      BY <2>1 DEF OldDeleted
    <3> QED BY <1>4, <3>1, DeleteShape
  <2>2. CASE ~OldDeleted
    <3>1. LogShape'
      <4>1. CASE UNCHANGED logs
        BY <4>1 DEF Shape, LogShape
      <4>2. CASE LogPut
        <5>1. Torn \in Log
          BY EmptyContent DEF Torn, Log
        <5>2. [readable |-> TRUE, entries |-> upload.entries] \in Log
          BY DEF Shape, UploadShape, Log
        <5>3. upload.from # 0
          BY <4>2 DEF LogPut, Shape, UploadShape
        <5> QED BY <4>2, <5>1, <5>2, <5>3, PutLogShape DEF LogPut
      <4> QED BY <2>2, <4>1, <4>2, RemoteSteps
    <3>2. SnapshotShape'
      <4>1. CASE UNCHANGED snapshot
        BY <1>4, <4>1 DEF Shape, SnapshotShape
      <4>2. CASE FilesPut
        <5>1. PICK f \in {"partial", "complete"} : PutFiles(f)
          BY <4>2 DEF FilesPut
        <5>2. [files |-> f, db |-> upload.entries, of |-> starts]
                \in [files : {"absent", "partial", "complete"}, db : Content, of : 0 .. starts]
          <6>1. upload.entries \in Content /\ starts \in 0 .. starts
            BY <1>2 DEF Shape, UploadShape
          <6> QED BY <6>1
        <5> QED BY <1>4, <5>1, <5>2 DEF Shape, SnapshotShape, PutFiles
      <4> QED BY <2>2, <4>1, <4>2, RemoteSteps
    <3> QED BY <3>1, <3>2
  <2> QED BY <2>1, <2>2
<1> QED BY <1>1, <1>3, <1>4

\* The clock never goes back.
LEMMA ClockSteps ==
  ASSUME Shape, [Next]_vars
  PROVE  clock \in Nat /\ clock' \in Nat /\ clock <= clock'
<1>1. clock \in Nat
  BY DEF Shape, CounterShape
<1>2. Load => clock' = clock
  BY DEF Load, StartFromScratch, StartFromDisk, StartFromRemote, OpenFetched, ReplayLog,
              LoadDone
<1>3. (\E key \in Keys : Write(key)) \/ Truncate \/ Die => clock' = clock
  BY DEF Write, Truncate, Commit, Die
<1>4. Advance \/ SkipCheckpoint \/ WriteCurrent \/ UploadLog \/ UploadLogFails
        \/ UploadFiles \/ FinishCheckpoint \/ CheckpointFails => clock' = clock
  BY DEF Advance, CollectLog, CreateCheckpoint, SkipCheckpoint, WriteCurrent, UploadLog,
              UploadLogFails, UploadFiles, FinishCheckpoint, CheckpointFails
<1>5. BeginCheckpoint => clock' = clock + 1
  BY DEF BeginCheckpoint
<1>6. (\E t \in Times : SetCurrentSnapshot(t)) => clock' = clock
  BY DEF SetCurrentSnapshot
<1>7. UNCHANGED vars => clock' = clock
  BY DEF vars
<1>8. clock' = clock \/ clock' = clock + 1
  BY <1>2, <1>3, <1>4, <1>5, <1>6, <1>7 DEF Next
<1> QED BY <1>1, <1>8

\* Nothing is put where no check point was begun.
LEMMA BeyondStep ==
  ASSUME Shape, [Next]_vars
  PROVE  NothingBeyond'
<1> SUFFICES ASSUME NEW t \in Times, t > clock'
             PROVE  snapshot'[t].files = "absent" /\ DOMAIN logs'[t] = {}
  BY DEF NothingBeyond
<1>1. clock \in Nat /\ clock' \in Nat /\ clock <= clock' /\ t \in Nat
  BY ClockSteps DEF Times
<1>2. t > clock /\ snapshot[t].files = "absent" /\ DOMAIN logs[t] = {}
  BY <1>1 DEF Shape, NothingBeyond
<1>3. t # lastCheckpointTime
  BY <1>1, <1>2 DEF Shape, SeqShape
<1>4. DOMAIN snapshot = Times /\ DOMAIN logs = Times
  BY DEF Shape, SnapshotShape, LogShape
<1>5. CASE OldDeleted
  <2>1. PICK times : Delete(times)
    BY <1>5 DEF OldDeleted
  <2>2. snapshot'[t] = snapshot[t] \/ snapshot'[t] = NoFiles
    BY <2>1 DEF Delete
  <2>3. logs'[t] = logs[t] \/ logs'[t] = <<>>
    BY <2>1 DEF Delete
  <2>4. DOMAIN <<>> = {}
    OBVIOUS
  <2> QED BY <1>2, <2>2, <2>3, <2>4 DEF NoFiles
<1>6. CASE ~OldDeleted
  <2>1. logs'[t] = logs[t]
    BY <1>3, <1>4, <1>6, RemoteSteps DEF LogPut, PutLog
  <2>2. snapshot'[t] = snapshot[t]
    BY <1>3, <1>4, <1>6, RemoteSteps DEF FilesPut, PutFiles
  <2> QED BY <1>2, <2>1, <2>2
<1> QED BY <1>5, <1>6

LocalShape == StoreShape /\ ProcessShape /\ UploadShape /\ SeqShape /\ CounterShape

\* Opening a store counts nothing as uploaded.
LEMMA OpenShape ==
  ASSUME Shape, NEW content \in Content, Open(content), UNCHANGED <<current, clock>>,
         upload = NoUpload
  PROVE  StoreShape' /\ UploadShape' /\ SeqShape'
<1>1. Len(content) \in Nat
  BY ContentFacts
<1>2. StoreShape'
  BY DEF StoreShape, Open
<1>3. UploadShape'
  <2>1. upload' = NoUpload /\ Len(db') \in Nat
    BY <1>1 DEF Open
  <2>2. upload \in [pc : Steps, from : Nat, to : Nat, entries : Content]
    BY DEF Shape, UploadShape
  <2> QED BY <2>1, <2>2 DEF UploadShape, NoUpload
<1>4. SeqShape'
  <2>1. snapshotUploaded' \in BOOLEAN /\ uploadStopped' \in BOOLEAN
    BY Zenon DEF Open
  <2>2. /\ lastUploadSeq' = Len(content) /\ lastCheckSeq' = Len(content)
        /\ Len(db') = Len(content) /\ lastCheckpointTime' = 0
    BY DEF Open
  <2>3. clock' \in Nat /\ current' \in 0 .. clock'
    BY DEF Shape, SeqShape, CounterShape
  <2> QED BY <1>1, <2>1, <2>2, <2>3 DEF SeqShape
<1> QED BY <1>2, <1>3, <1>4

\* The writes a process begins with.
LEMMA BegunType ==
  ASSUME Shape, NEW of \in 0 .. MaxStarts, NEW rows
  PROVE  /\ Begun(of, rows) \in Content
         /\ \E m \in 0 .. Len(timeline[of]) :
              /\ Begun(of, rows) = SubSeq(timeline[of], 1, m)
              /\ m = 0 \/ timeline[of][m].id \in {rows[key] : key \in Keys}
              /\ \A i \in 1 .. Len(timeline[of]) :
                   timeline[of][i].id \in {rows[key] : key \in Keys} => i <= m
<1> DEFINE ids == {rows[key] : key \in Keys}
           S == {0} \cup {i \in DOMAIN timeline[of] : timeline[of][i].id \in ids}
<1>1. timeline[of] \in Content
  BY DEF Shape, CounterShape
<1>2. DOMAIN timeline[of] = 1 .. Len(timeline[of]) /\ Len(timeline[of]) \in Nat
  BY <1>1, ContentFacts
<1>3. S \in SUBSET (0 .. Len(timeline[of])) /\ S # {}
  BY <1>2
<1>4. Begun(of, rows) = SubSeq(timeline[of], 1, Max(S))
  BY DEF Begun
<1>5. \A m \in S : m = 0 \/ timeline[of][m].id \in ids
  OBVIOUS
<1>6. \A i \in 1 .. Len(timeline[of]) : timeline[of][i].id \in ids => i \in S
  BY <1>2
<1> HIDE DEF S
<1>7. IsFiniteSet(S) /\ S \in SUBSET Int
  <2>1. IsFiniteSet(0 .. Len(timeline[of]))
    BY <1>2, FS_Interval
  <2>2. IsFiniteSet(S)
    BY <1>3, <2>1, FS_Subset
  <2> QED BY <1>2, <1>3, <2>2
<1>8. Max(S) \in S /\ \A y \in S : y <= Max(S)
  BY <1>3, <1>7, FiniteHasMax
<1>9. PICK m : m = Max(S)
  OBVIOUS
<1>10. m \in 0 .. Len(timeline[of]) /\ (\A y \in S : y <= m) /\ m \in S
  BY <1>3, <1>8, <1>9
<1>11. Begun(of, rows) = SubSeq(timeline[of], 1, m)
  BY <1>4, <1>9
<1>12. SubSeq(timeline[of], 1, m) \in Content
  BY <1>1, <1>10, SubSeqFacts
<1> HIDE DEF ids
<1>13. \A i \in 1 .. Len(timeline[of]) : timeline[of][i].id \in ids => i <= m
  BY <1>6, <1>10
<1>14. m = 0 \/ timeline[of][m].id \in ids
  BY <1>5, <1>10
<1>15. \E k \in 0 .. Len(timeline[of]) :
          /\ Begun(of, rows) = SubSeq(timeline[of], 1, k)
          /\ k = 0 \/ timeline[of][k].id \in ids
          /\ \A i \in 1 .. Len(timeline[of]) : timeline[of][i].id \in ids => i <= k
  BY <1>10, <1>11, <1>13, <1>14
<1> QED BY <1>11, <1>12, <1>15 DEF ids

\* A start adds a history.
LEMMA StartedShape ==
  ASSUME Shape, NEW begun \in Content, Started(begun), starts < MaxStarts,
         UNCHANGED <<clock, written>>
  PROVE  CounterShape'
<1>1. starts \in 0 .. MaxStarts /\ timeline \in [0 .. MaxStarts -> Content]
  BY DEF Shape, CounterShape
<1>2. starts' \in 0 .. MaxStarts
  BY <1>1, StoreAssumption DEF Started
<1>3. timeline' \in [0 .. MaxStarts -> Content]
  BY <1>1 DEF Started
<1> QED BY <1>2, <1>3 DEF Shape, CounterShape

\* The steps of a process that loads keep the types.
LEMMA LoadShape ==
  ASSUME Shape, Load
  PROVE  LocalShape'
<1>1. /\ process.phase # "running" => upload = NoUpload
      /\ snapshot \in [Times -> [files : {"absent", "partial", "complete"},
                                 db : Content, of : 0 .. starts]]
      /\ db \in Content /\ starts \in 0 .. MaxStarts /\ MaxStarts \in Nat
  BY StoreAssumption DEF Shape, ProcessShape, SnapshotShape, StoreShape, CounterShape
<1>2. current # 0 => current \in Times
  <2>1. current \in Nat /\ current <= clock /\ clock \in Nat /\ clock <= MaxTime
    BY DEF Shape, SeqShape, CounterShape
  <2>2. MaxTime \in Nat
    BY StoreAssumption
  <2> QED BY <2>1, <2>2 DEF Times
<1>3. Running \in [phase : Phases, todo : SUBSET Nat]
  BY DEF Running, Phases
<1>4. CASE StartFromScratch
  <2>1. StoreShape' /\ UploadShape' /\ SeqShape'
    BY <1>1, <1>4, EmptyContent, OpenShape DEF StartFromScratch, remote
  <2>2. ProcessShape'
    BY <1>3, <1>4 DEF StartFromScratch, ProcessShape, Running
  <2>3. CounterShape'
    BY <1>4, EmptyContent, StartedShape DEF StartFromScratch
  <2> QED BY <2>1, <2>2, <2>3 DEF LocalShape
<1>5. CASE StartFromDisk
  <2>1. PICK content \in Content : Open(content)
    BY <1>1, <1>5, EmptyContent DEF StartFromDisk
  <2>2. StoreShape' /\ UploadShape' /\ SeqShape'
    BY <1>1, <1>5, <2>1, OpenShape DEF StartFromDisk, remote
  <2>3. ProcessShape'
    BY <1>3, <1>5 DEF StartFromDisk, ProcessShape, Running
  <2>4. timeline[starts] \in Content
    BY DEF Shape, CounterShape
  <2>5. CounterShape'
    BY <1>5, <2>4, StartedShape DEF StartFromDisk
  <2> QED BY <2>2, <2>3, <2>5 DEF LocalShape
<1>6. CASE StartFromRemote
  <2>1. snapshot[current].of \in 0 .. MaxStarts
    BY <1>1, <1>2, <1>6 DEF StartFromRemote
  <2>2. CounterShape'
    <3>1. PICK begun \in Content : Started(begun)
      BY <1>6, <2>1, BegunType DEF StartFromRemote
    <3> QED BY <1>6, <3>1, StartedShape DEF StartFromRemote
  <2>3. StoreShape'
    BY <1>6 DEF StartFromRemote, Shape, StoreShape
  <2>4. ProcessShape'
    BY <1>1, <1>6 DEF StartFromRemote, ProcessShape, Phases, remote
  <2>5. UploadShape'
    BY <1>6 DEF StartFromRemote, Shape, UploadShape
  <2>6. SeqShape'
    BY <1>6 DEF StartFromRemote, Shape, SeqShape, seqs, remote
  <2> QED BY <2>2, <2>3, <2>4, <2>5, <2>6 DEF LocalShape
<1>7. CASE OpenFetched
  <2>1. current # 0
    BY <1>7 DEF OpenFetched, Shape, ProcessShape
  <2>2. StoreShape' /\ UploadShape' /\ SeqShape'
    <3>1. snapshot[current].db \in Content
      BY <1>1, <1>2, <2>1
    <3> QED BY <1>1, <1>7, <3>1, OpenShape DEF OpenFetched, remote
  <2>3. ProcessShape'
    <3>1. Readable(current) \subseteq DOMAIN logs[current] /\ Readable(current) \subseteq Nat
      BY <1>2, <2>1 DEF Readable, Shape, LogShape
    <3>2. UNCHANGED <<current, logs, upload>> /\ upload = NoUpload
      BY <1>1, <1>7 DEF OpenFetched, Open, remote
    <3>3. process' = [phase |-> "replaying", todo |-> Readable(current)]
      BY <1>7 DEF OpenFetched
    <3> QED BY <2>1, <3>1, <3>2, <3>3 DEF ProcessShape, Phases
  <2>4. CounterShape'
    BY <1>7 DEF OpenFetched, Shape, CounterShape
  <2> QED BY <2>2, <2>3, <2>4 DEF LocalShape
<1>8. ASSUME NEW n \in process.todo, ReplayLog(n)
      PROVE  LocalShape'
  <2>1. current \in Times /\ n \in DOMAIN logs[current]
    BY <1>2, <1>8 DEF ReplayLog, Shape, ProcessShape
  <2>2. logs[current][n].entries \in Content
    BY <2>1 DEF Shape, LogShape, Log
  <2>3. db' \in Content /\ Len(db') \in Nat /\ Len(db) \in Nat /\ Len(db) <= Len(db')
    BY <1>1, <1>8, <2>2, ConcatFacts, ContentFacts DEF ReplayLog
  <2>4. StoreShape'
    BY <1>8, <2>3 DEF ReplayLog, Shape, StoreShape
  <2>5. ProcessShape'
    BY <1>8 DEF ReplayLog, Shape, ProcessShape, remote
  <2>6. UploadShape'
    BY <1>8, <2>3 DEF ReplayLog, Shape, UploadShape
  <2>7. SeqShape'
    BY <1>8, <2>3 DEF ReplayLog, Shape, SeqShape, seqs, remote
  <2>8. CounterShape'
    BY <1>8 DEF ReplayLog, Shape, CounterShape
  <2> QED BY <2>4, <2>5, <2>6, <2>7, <2>8 DEF LocalShape
<1>9. CASE LoadDone
  <2>1. ProcessShape'
    BY <1>3, <1>9 DEF LoadDone, ProcessShape, Running
  <2> QED BY <1>9, <2>1 DEF LoadDone, Shape, LocalShape, StoreShape, UploadShape, SeqShape,
                     CounterShape, seqs, remote
<1> QED BY <1>4, <1>5, <1>6, <1>7, <1>8, <1>9 DEF Load

\* The end of a process keeps the types.
LEMMA DieShape ==
  ASSUME Shape, Die
  PROVE  LocalShape'
<1>1. StoreShape'
  BY DEF Die, Shape, StoreShape
<1>2. NoUpload \in [pc : Steps, from : Nat, to : Nat, entries : Content]
  BY EmptyContent DEF NoUpload, Steps
<1>3. process' = [phase |-> "down", todo |-> {}] /\ upload' = NoUpload
  BY DEF Die
<1>4. ProcessShape'
  BY <1>3 DEF ProcessShape, Phases
<1>5. UploadShape'
  <2>1. Len(db') \in Nat
    BY <1>1, ContentFacts DEF StoreShape
  <2> QED BY <1>2, <1>3, <2>1 DEF UploadShape, NoUpload
<1>6. SeqShape'
  BY DEF Die, Shape, SeqShape, seqs
<1>7. CounterShape'
  BY DEF Die, Shape, CounterShape
<1> QED BY <1>1, <1>4, <1>5, <1>6, <1>7 DEF LocalShape

\* A write keeps the types.
LEMMA CommitShape ==
  ASSUME Shape, NEW w \in Ops, Commit(w)
  PROVE  LocalShape'
<1>1. db \in Content /\ Len(db) \in Nat
  BY ContentFacts DEF Shape, StoreShape
<1>2. db' \in Content /\ Len(db') = Len(db) + 1
  BY <1>1, AppendFacts DEF Commit
<1>3. StoreShape'
  BY <1>2 DEF Commit, Shape, StoreShape
<1>4. ProcessShape'
  BY DEF Commit, Shape, ProcessShape, remote
<1>5. UploadShape'
  BY <1>1, <1>2 DEF Commit, Shape, UploadShape
<1>6. SeqShape'
  BY <1>1, <1>2 DEF Commit, Shape, SeqShape, seqs, remote
<1>7. CounterShape'
  <2>1. starts \in 0 .. MaxStarts /\ timeline \in [0 .. MaxStarts -> Content]
    BY DEF Shape, CounterShape
  <2>2. Append(timeline[starts], w) \in Content
    BY <2>1, AppendFacts
  <2>3. timeline' \in [0 .. MaxStarts -> Content]
    BY <2>1, <2>2 DEF Commit
  <2>4. written' \in 0 .. MaxWrites
    BY StoreAssumption DEF Commit, Shape, CounterShape
  <2> QED BY <2>3, <2>4 DEF Commit, Shape, CounterShape
<1> QED BY <1>3, <1>4, <1>5, <1>6, <1>7 DEF LocalShape

\* The writes of clients.
LEMMA WriteIsCommit ==
  ASSUME Shape, (\E key \in Keys : Write(key)) \/ Truncate
  PROVE  \E w \in Ops :
           /\ Commit(w) /\ w.id = written + 1 /\ written \in Nat
           /\ "truncate" \notin Faults => w.op = "put"
<1>1. written \in Nat /\ MaxWrites \in Nat
  BY StoreAssumption DEF Shape, CounterShape
<1>2. ASSUME NEW key \in Keys, Write(key)
      PROVE  [op |-> "put", key |-> key, id |-> written + 1] \in Ops
  <2>1. written + 1 \in 1 .. MaxWrites
    BY <1>1, <1>2 DEF Write, Commit
  <2> QED BY <2>1 DEF Ops
<1>3. ASSUME Truncate
      PROVE  [op |-> "truncate", id |-> written + 1] \in Ops
  <2>1. written + 1 \in 1 .. MaxWrites
    BY <1>1, <1>3 DEF Truncate, Commit
  <2> QED BY <2>1 DEF Ops
<1>4. ASSUME NEW key \in Keys, Write(key)
      PROVE  \E w \in Ops :
               /\ Commit(w) /\ w.id = written + 1
               /\ "truncate" \notin Faults => w.op = "put"
  <2> DEFINE w == [op |-> "put", key |-> key, id |-> written + 1]
  <2>1. w \in Ops /\ Commit(w) /\ w.id = written + 1 /\ w.op = "put"
    BY <1>2, <1>4 DEF Write
  <2> QED BY <2>1
<1>5. ASSUME Truncate
      PROVE  \E w \in Ops :
               /\ Commit(w) /\ w.id = written + 1
               /\ "truncate" \notin Faults => w.op = "put"
  <2> DEFINE w == [op |-> "truncate", id |-> written + 1]
  <2>1. w \in Ops /\ Commit(w) /\ w.id = written + 1 /\ "truncate" \in Faults
    BY <1>3, <1>5 DEF Truncate
  <2> QED BY <2>1
<1> QED BY <1>1, <1>4, <1>5

\* A step of the upload loop that only moves its program counter.
LEMMA GoShape ==
  ASSUME Shape, process.phase = "running", NEW pc \in Steps \ {"log"}, Go(pc)
  PROVE  /\ upload' \in [pc : Steps, from : Nat, to : Nat, entries : Content]
         /\ upload'.to = 0 /\ upload'.from = 0 /\ upload'.pc = pc
<1>1. upload' = [pc |-> pc, from |-> 0, to |-> 0, entries |-> <<>>]
  BY DEF Go, NoUpload
<1> QED BY <1>1, EmptyContent

\* The batches of a log are among those of the store.
LEMMA CollectRange ==
  ASSUME Shape, lastCheckSeq # Len(db),
         NEW to, to = IF Since + LogLimit - 1 < Len(db) THEN Since + LogLimit - 1 ELSE Len(db)
  PROVE  /\ Since \in Nat \ {0} /\ to \in 0 .. Len(db) /\ Since <= to
         /\ lastUploadSeq <= Since /\ lastUploadSeq <= to /\ Len(db) \in Nat \ {0}
<1>1. Len(db) \in Nat /\ lastCheckSeq \in 0 .. Len(db) /\ lastUploadSeq \in 0 .. Len(db)
  BY ContentFacts DEF Shape, StoreShape, SeqShape
<1>2. Len(db) >= 1
  BY <1>1
<1>3. Since \in 1 .. Len(db) /\ lastUploadSeq <= Since
  BY <1>1, <1>2 DEF Since
<1>4. LogLimit \in Nat \ {0}
  BY StoreAssumption
<1> QED BY <1>1, <1>2, <1>3, <1>4

\* The log that is collected has numbers of batches of the store.
LEMMA CollectShape ==
  ASSUME Shape, CollectLog
  PROVE  LocalShape'
<1>1. process.phase = "running" /\ process' = process
  BY DEF CollectLog, At, local
<1>2. UploadShape'
  <2>1. PICK to : to = IF Since + LogLimit - 1 < Len(db) THEN Since + LogLimit - 1 ELSE Len(db)
    OBVIOUS
  <2>2. /\ Since \in Nat \ {0} /\ to \in 0 .. Len(db) /\ Since <= to
        /\ Len(db) \in Nat
    BY <2>1, CollectRange DEF CollectLog
  <2>3. IF LogEnabled
        THEN upload' = [pc |-> "log", from |-> Since, to |-> to,
                        entries |-> Logged(SubSeq(db, Since, to))]
        ELSE Go("logged")
    BY <2>1 DEF CollectLog
  <2>4. CASE LogEnabled
    <3>1. db \in Content
      BY DEF Shape, StoreShape
    <3>2. Logged(SubSeq(db, Since, to)) \in Content
      BY <2>2, <3>1, SubSeqFacts, LoggedType
    <3>3. upload' = [pc |-> "log", from |-> Since, to |-> to,
                        entries |-> Logged(SubSeq(db, Since, to))]
      BY <2>3, <2>4
    <3>4. db' = db
      BY DEF CollectLog, local
    <3> QED BY <2>2, <3>2, <3>3, <3>4 DEF UploadShape, Steps
  <2>5. CASE ~LogEnabled
    <3>1. Go("logged")
      BY <2>3, <2>5
    <3>2. /\ upload' \in [pc : Steps, from : Nat, to : Nat, entries : Content]
          /\ upload'.to = 0 /\ upload'.from = 0 /\ upload'.pc = "logged"
      BY <1>1, <3>1, GoShape DEF Steps
    <3>3. db' = db
      BY DEF CollectLog, local
    <3> QED BY <2>2, <3>2, <3>3 DEF UploadShape
  <2> QED BY <2>4, <2>5
<1>3. ProcessShape'
  BY <1>1 DEF CollectLog, Shape, ProcessShape, remote
<1>4. StoreShape' /\ CounterShape'
  BY DEF CollectLog, Shape, StoreShape, CounterShape, local
<1>5. SeqShape'
  BY DEF CollectLog, Shape, SeqShape, local, seqs, remote
<1> QED BY <1>2, <1>3, <1>4, <1>5 DEF LocalShape

\* What a step of the upload loop has to keep.
LEMMA LoopShape ==
  ASSUME Shape, process.phase = "running", UNCHANGED <<local, written, starts, timeline>>,
         clock' \in 0 .. MaxTime, UploadShape', SeqShape'
  PROVE  LocalShape'
<1>1. StoreShape'
  BY DEF Shape, StoreShape, local
<1>2. ProcessShape'
  BY DEF Shape, ProcessShape, local
<1>3. CounterShape'
  BY DEF Shape, CounterShape
<1> QED BY <1>1, <1>2, <1>3 DEF LocalShape

\* An upload that moves on to a step without entries has the type of one.
LEMMA GoUploadShape ==
  ASSUME Shape, process.phase = "running", NEW pc \in Steps \ {"log"}, Go(pc), UNCHANGED local
  PROVE  UploadShape'
<1>1. /\ upload' \in [pc : Steps, from : Nat, to : Nat, entries : Content]
      /\ upload'.to = 0 /\ upload'.from = 0 /\ upload'.pc = pc
  BY GoShape
<1>2. Len(db') \in Nat
  BY ContentFacts DEF local, Shape, StoreShape
<1> QED BY <1>1, <1>2 DEF UploadShape

\* The other steps of the upload loop keep the types.
LEMMA UploadLoopShape ==
  ASSUME Shape,
         \/ CreateCheckpoint \/ UploadLog \/ UploadLogFails \/ SkipCheckpoint
         \/ BeginCheckpoint \/ UploadFiles \/ WriteCurrent \/ FinishCheckpoint
         \/ CheckpointFails \/ \E t \in Times : SetCurrentSnapshot(t)
  PROVE  LocalShape'
<1>1. /\ upload \in [pc : Steps, from : Nat, to : Nat, entries : Content]
      /\ upload.to <= Len(db) /\ upload.from <= upload.to + 1
      /\ upload.pc = "log" => 1 <= upload.from /\ upload.from <= upload.to
      /\ db \in Content /\ Len(db) \in Nat
      /\ clock \in 0 .. MaxTime /\ MaxTime \in Nat
  BY ContentFacts, StoreAssumption DEF Shape, UploadShape, StoreShape, CounterShape
<1>2. SeqShape
  BY DEF Shape
<1>3. CASE CreateCheckpoint
  <2>1. /\ process.phase = "running" /\ UNCHANGED <<local, seqs, uploadStopped, remote, clock,
                                                    written, starts, timeline>>
        /\ upload' = [pc |-> "files", from |-> 0, to |-> Len(db), entries |-> db]
    BY <1>3 DEF CreateCheckpoint, At
  <2>2. UploadShape'
    BY <1>1, <2>1 DEF UploadShape, Steps, local
  <2>3. SeqShape'
    BY <1>2, <2>1 DEF SeqShape, seqs, remote, local
  <2> QED BY <1>1, <2>1, <2>2, <2>3, LoopShape
<1>4. CASE UploadLog
  <2>1. /\ process.phase = "running" /\ Go("logged") /\ lastUploadSeq' = upload.to
        /\ UNCHANGED <<local, lastCheckpointTime, lastCheckSeq, snapshotUploaded,
                       uploadStopped, current, clock, written, starts, timeline>>
    BY <1>4 DEF UploadLog, At
  <2>2. UploadShape'
    BY <2>1, GoUploadShape DEF Steps
  <2>3. SeqShape'
    BY <1>1, <1>2, <2>1 DEF SeqShape, local
  <2> QED BY <1>1, <2>1, <2>2, <2>3, LoopShape
<1>5. CASE UploadLogFails
  <2>1. /\ process.phase = "running" /\ Go("idle")
        /\ UNCHANGED <<local, seqs, uploadStopped, current, clock, written, starts, timeline>>
    BY <1>5 DEF UploadLogFails, At
  <2>2. UploadShape'
    BY <2>1, GoUploadShape DEF Steps
  <2>3. SeqShape'
    BY <1>2, <2>1 DEF SeqShape, seqs, local
  <2> QED BY <1>1, <2>1, <2>2, <2>3, LoopShape
<1>6. CASE SkipCheckpoint
  <2>1. /\ process.phase = "running" /\ Go("idle")
        /\ UNCHANGED <<local, seqs, uploadStopped, remote, clock, written, starts, timeline>>
    BY <1>6 DEF SkipCheckpoint, At
  <2>2. UploadShape'
    BY <2>1, GoUploadShape DEF Steps
  <2>3. SeqShape'
    BY <1>2, <2>1 DEF SeqShape, seqs, local, remote
  <2> QED BY <1>1, <2>1, <2>2, <2>3, LoopShape
<1>7. CASE BeginCheckpoint
  <2>1. /\ process.phase = "running" /\ Go("checkpoint")
        /\ clock < MaxTime /\ clock' = clock + 1 /\ lastCheckpointTime' = clock + 1
        /\ UNCHANGED <<local, lastUploadSeq, lastCheckSeq, snapshotUploaded, uploadStopped,
                       remote, written, starts, timeline>>
    BY <1>7 DEF BeginCheckpoint, At
  <2>2. UploadShape'
    BY <2>1, GoUploadShape DEF Steps
  <2>3. clock' \in 0 .. MaxTime
    BY <1>1, <2>1
  <2>4. SeqShape'
    BY <1>1, <1>2, <2>1 DEF SeqShape, local, remote
  <2> QED BY <2>1, <2>2, <2>3, <2>4, LoopShape
<1>8. CASE UploadFiles
  <2>1. /\ process.phase = "running" /\ upload' = [upload EXCEPT !.pc = "pointer"]
        /\ UNCHANGED <<local, seqs, uploadStopped, current, clock, written, starts, timeline>>
    BY <1>8 DEF UploadFiles, At
  <2>2. UploadShape'
    BY <1>1, <2>1 DEF UploadShape, Steps, local
  <2>3. SeqShape'
    BY <1>2, <2>1 DEF SeqShape, seqs, local
  <2> QED BY <1>1, <2>1, <2>2, <2>3, LoopShape
<1>9. CASE WriteCurrent
  <2>1. /\ process.phase = "running" /\ upload' = [upload EXCEPT !.pc = "cleanup"]
        /\ current' = lastCheckpointTime
        /\ UNCHANGED <<local, seqs, uploadStopped, clock, written, starts, timeline>>
    BY <1>9 DEF WriteCurrent, At
  <2>2. UploadShape'
    BY <1>1, <2>1 DEF UploadShape, Steps, local
  <2>3. SeqShape'
    BY <1>2, <2>1 DEF SeqShape, seqs, local
  <2> QED BY <1>1, <2>1, <2>2, <2>3, LoopShape
<1>10. CASE FinishCheckpoint
  <2>1. /\ process.phase = "running" /\ Go("idle")
        /\ lastCheckSeq' = upload.to /\ lastUploadSeq' = upload.to
        /\ UNCHANGED <<local, lastCheckpointTime, uploadStopped, current, clock, written,
                       starts, timeline>>
    BY <1>10 DEF FinishCheckpoint, At
  <2>2. snapshotUploaded' \in BOOLEAN
    BY <1>10, Zenon DEF FinishCheckpoint
  <2>3. UploadShape'
    BY <2>1, GoUploadShape DEF Steps
  <2>4. SeqShape'
    BY <1>1, <1>2, <2>1, <2>2 DEF SeqShape, local
  <2> QED BY <1>1, <2>1, <2>3, <2>4, LoopShape
<1>11. CASE CheckpointFails
  <2>1. /\ process.phase = "running" /\ Go("idle")
        /\ UNCHANGED <<local, seqs, uploadStopped, current, clock, written, starts, timeline>>
    BY <1>11 DEF CheckpointFails, At, remote
  <2>2. UploadShape'
    BY <2>1, GoUploadShape DEF Steps
  <2>3. SeqShape'
    BY <1>2, <2>1 DEF SeqShape, seqs, local
  <2> QED BY <1>1, <2>1, <2>2, <2>3, LoopShape
<1>12. ASSUME NEW t \in Times, SetCurrentSnapshot(t)
       PROVE  LocalShape'
  <2>1. /\ process.phase = "running" /\ current' = t /\ snapshot[t].files # "absent"
        /\ UNCHANGED <<local, upload, seqs, clock, written, starts, timeline>>
    BY <1>12 DEF SetCurrentSnapshot
  <2>2. uploadStopped' \in BOOLEAN
    BY <1>12, Zenon DEF SetCurrentSnapshot
  <2>3. UploadShape'
    BY <1>1, <2>1 DEF UploadShape, local
  <2>4. t \in Nat /\ t <= clock
    BY <1>1, <2>1 DEF Shape, NothingBeyond, Times
  <2>5. SeqShape'
    BY <1>1, <1>2, <2>1, <2>2, <2>4 DEF SeqShape, seqs, local
  <2> QED BY <1>1, <2>1, <2>3, <2>5, LoopShape
<1> QED BY <1>3, <1>4, <1>5, <1>6, <1>7, <1>8, <1>9, <1>10, <1>11, <1>12

\* Every step keeps the types.
LEMMA ShapeStep ==
  ASSUME Shape, [Next]_vars
  PROVE  Shape'
<1>1. CASE UNCHANGED vars
  <2>1. LocalShape'
    BY <1>1 DEF vars, local, seqs, remote, Shape, LocalShape, StoreShape, ProcessShape,
                UploadShape, SeqShape, CounterShape
  <2> QED BY <2>1, RemoteShape, BeyondStep DEF LocalShape, Shape
<1>2. CASE Next
  <2>1. Load \/ Die => LocalShape'
    BY LoadShape, DieShape
  <2>2. (\E key \in Keys : Write(key)) \/ Truncate => LocalShape'
    BY WriteIsCommit, CommitShape
  <2>3. Advance \/ UploadLog \/ UploadLogFails \/ SkipCheckpoint \/ BeginCheckpoint
            \/ UploadFiles \/ WriteCurrent \/ FinishCheckpoint \/ CheckpointFails
          \/ (\E t \in Times : SetCurrentSnapshot(t))
          => LocalShape'
    BY CollectShape, UploadLoopShape DEF Advance
  <2>4. LocalShape'
    BY <1>2, <2>1, <2>2, <2>3 DEF Next
  <2> QED BY <1>2, <2>4, RemoteShape, BeyondStep DEF LocalShape, Shape
<1> QED BY <1>1, <1>2

\* Every field of the store, the upload loop and the remote file system has the
\* values that run_upload, upload_check_point and load_from_remote rely on,
\* whatever fails.
THEOREM StoreTypeCorrect == Spec => []TypeOK
<1>1. Spec => []Shape
  BY ShapeInit, ShapeStep, PTL DEF Spec
<1> QED BY <1>1, ShapeIsTyped, PTL

-----------------------------------------------------------------------------
(* Check points and the pointer                                            *)

\* A check point in flight is the newest one, the pointer is at an older one
\* until its files are complete, and nobody has stopped it.
InFlight ==
  /\ Uploading => /\ ~uploadStopped
                  /\ lastCheckpointTime = clock /\ clock \in Times
                  /\ DOMAIN logs[clock] = {}
  /\ upload.pc \in {"checkpoint", "files"} => snapshot[clock].files = "absent"
  /\ upload.pc \in {"checkpoint", "files", "pointer"} => current # clock
  /\ upload.pc \in {"pointer", "cleanup"} =>
       snapshot[clock] = [files |-> "complete", db |-> upload.entries, of |-> starts]
  /\ upload.pc = "cleanup" => current = clock

\* At first no check point is in flight.
LEMMA InFlightInit == Init => InFlight
  BY DEF Init, InFlight, NoUpload, Uploading

\* No check point is in flight after a step that leaves or does not enter it.
LEMMA NotUploading ==
  ASSUME upload'.pc \in {"idle", "log", "logged"}
  PROVE  InFlight'
  BY DEF InFlight, Uploading

\* Steps of others leave a check point in flight alone.
LEMMA OthersInFlight ==
  ASSUME InFlight, UNCHANGED <<upload, lastCheckpointTime, clock, starts, current, snapshot, logs,
                               uploadStopped>>
  PROVE  InFlight'
  BY DEF InFlight, Uploading

\* Every step keeps the check point in flight as it must be.
LEMMA InFlightStep ==
  ASSUME Shape, InFlight, [Next]_vars
  PROVE  InFlight'
<1>0. /\ clock \in 0 .. MaxTime /\ MaxTime \in Nat /\ current \in 0 .. clock
      /\ upload \in [pc : Steps, from : Nat, to : Nat, entries : Content]
      /\ DOMAIN snapshot = Times
  BY StoreAssumption DEF Shape, CounterShape, SeqShape, UploadShape, SnapshotShape
<1>1. CASE Load
  <2>1. CASE upload = NoUpload
    <3>1. upload' = NoUpload
      BY <1>1, <2>1 DEF Load, StartFromScratch, StartFromDisk, StartFromRemote, OpenFetched,
                        ReplayLog, LoadDone, Open
    <3> QED BY <3>1, NotUploading DEF NoUpload
  <2>2. CASE upload # NoUpload
    <3>1. process.phase = "running"
      BY <2>2 DEF Shape, ProcessShape
    <3> QED BY <1>1, <3>1 DEF Load, StartFromScratch, StartFromDisk, StartFromRemote,
                              OpenFetched, ReplayLog, LoadDone
  <2> QED BY <2>1, <2>2
<1>2. CASE Die
  <2>1. upload' = NoUpload
    BY <1>2 DEF Die
  <2> QED BY <2>1, NotUploading DEF NoUpload
<1>3. CASE (\E key \in Keys : Write(key)) \/ Truncate
  <2>1. PICK w : Commit(w)
    BY <1>3, WriteIsCommit
  <2> QED BY <2>1, OthersInFlight DEF Commit, remote, seqs
<1>4. CASE CollectLog
  <2>1. upload'.pc \in {"log", "logged"}
    BY <1>4 DEF CollectLog, Go, NoUpload
  <2> QED BY <2>1, NotUploading
<1>5. CASE UploadLog \/ UploadLogFails \/ SkipCheckpoint
  <2>1. upload'.pc \in {"idle", "logged"}
    BY <1>5 DEF UploadLog, UploadLogFails, SkipCheckpoint, Go, NoUpload
  <2> QED BY <2>1, NotUploading
<1>6. CASE FinishCheckpoint \/ CheckpointFails
  <2>1. upload'.pc = "idle"
    BY <1>6 DEF FinishCheckpoint, CheckpointFails, Go, NoUpload
  <2> QED BY <2>1, NotUploading
<1>7. CASE BeginCheckpoint
  <2>1. /\ ~uploadStopped /\ clock < MaxTime /\ clock' = clock + 1
        /\ lastCheckpointTime' = clock + 1
        /\ UNCHANGED <<uploadStopped, current, snapshot, logs>>
    BY <1>7 DEF BeginCheckpoint, remote
  <2>2. upload'.pc = "checkpoint"
    BY <1>7 DEF BeginCheckpoint, Go, NoUpload
  <2>3. clock' \in Times /\ clock' > clock /\ current # clock'
    BY <1>0, <2>1 DEF Times
  <2>4. snapshot[clock'].files = "absent" /\ DOMAIN logs[clock'] = {}
    BY <2>3 DEF Shape, NothingBeyond
  <2> QED BY <2>1, <2>2, <2>3, <2>4 DEF InFlight, Uploading
<1>8. CASE CreateCheckpoint
  <2>1. upload.pc = "checkpoint" /\ upload'.pc = "files"
    BY <1>8 DEF CreateCheckpoint, At
  <2>2. UNCHANGED <<lastCheckpointTime, clock, current, snapshot, logs, uploadStopped>>
    BY <1>8 DEF CreateCheckpoint, seqs, remote
  <2> QED BY <2>1, <2>2 DEF InFlight, Uploading
<1>9. CASE UploadFiles
  <2>1. upload.pc = "files" /\ upload'.pc = "pointer" /\ upload'.entries = upload.entries
    BY <1>0, <1>9 DEF UploadFiles, At
  <2>2. UNCHANGED <<lastCheckpointTime, clock, current, logs, uploadStopped, starts>>
    BY <1>9 DEF UploadFiles, seqs
  <2>3. lastCheckpointTime = clock /\ clock \in Times
    BY <2>1 DEF InFlight, Uploading
  <2>4. snapshot'[clock] = [files |-> "complete", db |-> upload.entries, of |-> starts]
    BY <1>0, <1>9, <2>3 DEF UploadFiles, PutFiles
  <2> QED BY <2>1, <2>2, <2>4 DEF InFlight, Uploading
<1>10. CASE WriteCurrent
  <2>1. upload.pc = "pointer" /\ upload'.pc = "cleanup" /\ upload'.entries = upload.entries
    BY <1>0, <1>10 DEF WriteCurrent, At
  <2>2. UNCHANGED <<lastCheckpointTime, clock, snapshot, logs, uploadStopped, starts>>
    BY <1>10 DEF WriteCurrent, seqs
  <2>3. current' = clock
    BY <1>10, <2>1 DEF WriteCurrent, InFlight, Uploading
  <2> QED BY <2>1, <2>2, <2>3 DEF InFlight, Uploading
<1>11. CASE \E t \in Times : SetCurrentSnapshot(t)
  <2>1. upload'.pc \in {"idle", "log", "logged"}
    BY <1>0, <1>11 DEF SetCurrentSnapshot, Uploading, Steps
  <2> QED BY <2>1, NotUploading
<1>12. CASE UNCHANGED vars
  BY <1>12, OthersInFlight DEF vars, remote, seqs
<1> QED BY <1>1, <1>2, <1>3, <1>4, <1>5, <1>6, <1>7, <1>8, <1>9, <1>10, <1>11, <1>12
        DEF Next, Advance

\* SYS METASTORE SET_CURRENT waits for a check point in flight, and none begins
\* after it: the snapshot an operator chose stays the current one until the
\* process ends (set_current_snapshot, upload_check_point).
THEOREM OperatorsChoiceStands == Spec => ChosenSnapshotStands
<1>1. ASSUME Shape, InFlight, [Next]_vars, uploadStopped, uploadStopped', current' # current
      PROVE  \E t \in Times : SetCurrentSnapshot(t)
  <2>1. ~WriteCurrent
    BY <1>1 DEF WriteCurrent, At, InFlight, Uploading
  <2>2. Load => current' = current
    BY DEF Load, StartFromScratch, StartFromDisk, StartFromRemote, OpenFetched, ReplayLog,
           LoadDone, remote
  <2>3. (\E key \in Keys : Write(key)) \/ Truncate \/ Die => current' = current
    BY DEF Write, Truncate, Commit, Die, remote
  <2>4. Advance \/ SkipCheckpoint \/ BeginCheckpoint => current' = current
    BY DEF Advance, CollectLog, CreateCheckpoint, SkipCheckpoint, BeginCheckpoint, remote
  <2>5. UploadLog \/ UploadLogFails \/ UploadFiles \/ FinishCheckpoint \/ CheckpointFails
          => current' = current
    BY DEF UploadLog, UploadLogFails, UploadFiles, FinishCheckpoint, CheckpointFails, remote
  <2>6. UNCHANGED vars => current' = current
    BY DEF vars, remote
  <2>7. (\E t \in Times : SetCurrentSnapshot(t)) \/ Load
          \/ ((\E key \in Keys : Write(key)) \/ Truncate \/ Die)
          \/ (Advance \/ SkipCheckpoint \/ BeginCheckpoint)
          \/ (UploadLog \/ UploadLogFails \/ UploadFiles \/ FinishCheckpoint
                \/ CheckpointFails)
          \/ UNCHANGED vars
    BY <1>1, <2>1 DEF Next
  <2> QED BY <1>1, <2>2, <2>3, <2>4, <2>5, <2>6, <2>7
<1>2. Spec => [](Shape /\ InFlight)
  BY ShapeInit, ShapeStep, InFlightInit, InFlightStep, PTL DEF Spec
<1> QED BY <1>1, <1>2, PTL DEF ChosenSnapshotStands, Spec

\* The newest check point is none of the old ones.
LEMMA NewestIsKept ==
  ASSUME Shape, NEW cutoff, clock \in Old(cutoff)
  PROVE  FALSE
<1>1. Newer(clock) = {}
  <2> SUFFICES ASSUME NEW u \in Present, u > clock PROVE FALSE
    BY DEF Newer
  <2>1. u \in Times /\ (snapshot[u].files # "absent" \/ DOMAIN logs[u] # {})
    BY DEF Present
  <2> QED BY <2>1 DEF Shape, NothingBeyond
<1>2. Cardinality(Newer(clock)) = 0
  BY <1>1, FS_EmptySet
<1>3. AtLeastOne \in Nat /\ AtLeastOne >= 1
  BY StoreAssumption DEF AtLeastOne
<1>4. Cardinality(Newer(clock)) >= AtLeastOne
  BY DEF Old
<1> QED BY <1>2, <1>3, <1>4

\* Deleting old check points leaves the current one there.
LEMMA DeleteLeavesCurrent ==
  ASSUME Shape, InFlight, OldDeleted
  PROVE  /\ current = clock /\ clock \in Times
         /\ snapshot'[clock] = snapshot[clock] /\ logs'[clock] = logs[clock]
<1>1. current = clock /\ clock \in Times
  BY DEF OldDeleted, InFlight, Uploading
<1>2. PICK cutoff \in Nat : \E times \in SUBSET Old(cutoff) : Delete(times)
  BY DEF OldDeleted
<1>3. PICK times \in SUBSET Old(cutoff) : Delete(times)
  BY <1>2
<1>4. clock \notin times
  BY NewestIsKept
<1> QED BY <1>1, <1>3, <1>4 DEF Delete

\* An operator may choose every check point that is listed; none of them is
\* there in part.
NonePartial ==
  "rewind" \in Faults => \A t \in Times : snapshot[t].files # "partial"

\* Without torn files and failing uploads no check point gets some of its files
\* only.
LEMMA NonePartialStep ==
  ASSUME "rewind" \notin Faults \/ ("torn" \notin Faults /\ "upload" \notin Faults),
         Shape, NonePartial, [Next]_vars
  PROVE  NonePartial'
<1> SUFFICES ASSUME "rewind" \in Faults, NEW t \in Times
             PROVE  snapshot'[t].files # "partial"
  BY DEF NonePartial
<1>1. snapshot[t].files # "partial" /\ DOMAIN snapshot = Times
  BY DEF NonePartial, Shape, SnapshotShape
<1>2. CASE OldDeleted
  <2>1. snapshot'[t] = snapshot[t] \/ snapshot'[t] = NoFiles
    BY <1>2 DEF OldDeleted, Delete
  <2> QED BY <1>1, <2>1 DEF NoFiles
<1>3. CASE UNCHANGED snapshot
  BY <1>1, <1>3
<1>4. CASE PutFiles("complete")
  BY <1>1, <1>4 DEF PutFiles
<1>5. Load \/ (\E key \in Keys : Write(key)) \/ Truncate => UNCHANGED snapshot
  BY DEF Load, StartFromScratch, StartFromDisk, StartFromRemote, OpenFetched, ReplayLog,
         LoadDone, Write, Truncate, Commit, remote
<1>6. Die \/ CheckpointFails => UNCHANGED snapshot
  BY DEF Die, CheckpointFails
<1>7. Advance \/ SkipCheckpoint \/ BeginCheckpoint \/ WriteCurrent => UNCHANGED snapshot
  BY DEF Advance, CollectLog, CreateCheckpoint, SkipCheckpoint, BeginCheckpoint,
         WriteCurrent, remote
<1>8. UploadLog \/ UploadLogFails \/ (\E u \in Times : SetCurrentSnapshot(u)) \/ UNCHANGED vars
        => UNCHANGED snapshot
  BY DEF UploadLog, UploadLogFails, SetCurrentSnapshot, vars, remote
<1>9. UploadFiles => PutFiles("complete")
  BY DEF UploadFiles
<1>10. FinishCheckpoint => OldDeleted
  <2> SUFFICES ASSUME FinishCheckpoint PROVE OldDeleted
    OBVIOUS
  <2>1. PICK cutoff \in 0 .. clock + 1 : Delete(Old(cutoff))
    BY DEF FinishCheckpoint
  <2>2. cutoff \in Nat /\ upload.pc = "cleanup"
    BY DEF FinishCheckpoint, At
  <2> QED BY <2>1, <2>2 DEF OldDeleted
<1> QED BY <1>2, <1>3, <1>4, <1>5, <1>6, <1>7, <1>8, <1>9, <1>10 DEF Next

\* The pointer moves to the check point whose files were uploaded, or to one
\* that an operator chose.
LEMMA PointerSteps ==
  ASSUME Shape, InFlight, [Next]_vars, current' # current
  PROVE  /\ UNCHANGED <<snapshot, logs, db, process, starts, timeline>>
         /\ \/ upload.pc = "pointer" /\ WriteCurrent /\ current' = clock
            \/ \E t \in Times : SetCurrentSnapshot(t)
<1>1. Load => current' = current
  BY DEF Load, StartFromScratch, StartFromDisk, StartFromRemote, OpenFetched, ReplayLog,
         LoadDone, remote
<1>2. (\E key \in Keys : Write(key)) \/ Truncate \/ Die => current' = current
  BY DEF Write, Truncate, Commit, Die, remote
<1>3. Advance \/ SkipCheckpoint \/ BeginCheckpoint => current' = current
  BY DEF Advance, CollectLog, CreateCheckpoint, SkipCheckpoint, BeginCheckpoint, remote
<1>4. UploadLog \/ UploadLogFails \/ UploadFiles \/ FinishCheckpoint \/ CheckpointFails
        => current' = current
  BY DEF UploadLog, UploadLogFails, UploadFiles, FinishCheckpoint, CheckpointFails, remote
<1>5. UNCHANGED vars => current' = current
  BY DEF vars, remote
<1>6. (\E t \in Times : SetCurrentSnapshot(t)) \/ WriteCurrent
  BY <1>1, <1>2, <1>3, <1>4, <1>5 DEF Next
<1>7. CASE WriteCurrent
  BY <1>7 DEF WriteCurrent, At, local, InFlight, Uploading
<1>8. CASE \E t \in Times : SetCurrentSnapshot(t)
  BY <1>8 DEF SetCurrentSnapshot, local
<1> QED BY <1>6, <1>7, <1>8

\* The current check point is there, whatever is uploaded or deleted.
LEMMA CurrentStep ==
  ASSUME Shape, InFlight, NonePartial, CurrentIsComplete, [Next]_vars
  PROVE  CurrentIsComplete'
<1> SUFFICES ASSUME current' # 0 PROVE snapshot'[current'].files = "complete"
  BY DEF CurrentIsComplete
<1>1. CASE current' # current
  <2>1. CASE upload.pc = "pointer" /\ current' = clock
    <3>1. snapshot'[clock].files = "complete"
      BY <1>1, <2>1, PointerSteps DEF InFlight
    <3> QED BY <2>1, <3>1
  <2>2. ASSUME NEW t \in Times, SetCurrentSnapshot(t)
        PROVE  snapshot'[current'].files = "complete"
    <3>1. "rewind" \in Faults /\ snapshot[t].files # "absent" /\ current' = t
          /\ snapshot' = snapshot
      BY <2>2 DEF SetCurrentSnapshot
    <3>2. snapshot[t].files \in {"absent", "partial", "complete"}
      BY DEF Shape, SnapshotShape
    <3> QED BY <3>1, <3>2 DEF NonePartial
  <2> QED BY <1>1, <2>1, <2>2, PointerSteps
<1>2. CASE current' = current
  <2>1. snapshot[current].files = "complete"
    BY <1>2 DEF CurrentIsComplete
  <2>2. CASE OldDeleted
    BY <1>2, <2>1, <2>2, DeleteLeavesCurrent
  <2>3. CASE UNCHANGED snapshot
    BY <1>2, <2>1, <2>3
  <2>4. CASE FilesPut
    <3>1. current # lastCheckpointTime
      BY <2>4 DEF FilesPut, InFlight, Uploading
    <3>2. snapshot'[current] = snapshot[current]
      <4>1. PICK f : PutFiles(f)
        BY <2>4 DEF FilesPut
      <4>2. current \in DOMAIN snapshot
        <5>1. current \in Nat /\ current <= clock /\ clock \in Nat /\ clock <= MaxTime
          BY DEF Shape, SeqShape, CounterShape
        <5>2. MaxTime \in Nat /\ DOMAIN snapshot = Times
          BY StoreAssumption DEF Shape, SnapshotShape
        <5> QED BY <1>2, <5>1, <5>2 DEF Times
      <4> QED BY <3>1, <4>1, <4>2 DEF PutFiles
    <3> QED BY <1>2, <2>1, <3>2
  <2> QED BY <2>2, <2>3, <2>4, RemoteSteps
<1> QED BY <1>1, <1>2

\* The pointer names a check point that is there completely, although old ones
\* are deleted, uploads fail and processes are killed in them (upload_checkpoint,
\* delete_old_snapshots).  An operator may name one that was left incomplete:
\* with SET_CURRENT it holds as long as no upload of files ends half way.
THEOREM PointerIsComplete ==
  ASSUME "rewind" \notin Faults \/ ("torn" \notin Faults /\ "upload" \notin Faults)
  PROVE  Spec => []CurrentIsComplete
<1>1. Init => NonePartial /\ CurrentIsComplete
  BY DEF Init, NonePartial, CurrentIsComplete, NoFiles
<1>2. Shape /\ InFlight /\ NonePartial /\ CurrentIsComplete /\ [Next]_vars
        => NonePartial' /\ CurrentIsComplete'
  BY NonePartialStep, CurrentStep
<1> QED BY <1>1, <1>2, ShapeInit, ShapeStep, InFlightInit, InFlightStep, PTL DEF Spec

-----------------------------------------------------------------------------
(* Check points with their logs                                            *)

\* The first batches of a content; the writes of one are none of the others.
Batch(c, a, b) == {c[i] : i \in a .. b}

Follow(V, W) == \A v \in V, w \in W : v.id <= w.id

\* A part of a history that has everything before its last write.
InitialIn(W, history) ==
  /\ W \subseteq WritesOf(history)
  /\ \A w \in W, v \in WritesOf(history) : v.id <= w.id => v \in W

\* s is a snapshot, l are the logs beside it.
ReadableOf(l) == {n \in DOMAIN l : \A m \in DOMAIN l : m <= n => l[m].readable}
LogOf(l, n)   == WritesOf(l[n].entries)
SavedOf(s, l) == WritesOf(s.db) \cup UNION {LogOf(l, n) : n \in ReadableOf(l)}
Before(s, l, n) ==
  WritesOf(s.db) \cup UNION {LogOf(l, m) : m \in {m \in DOMAIN l : m < n}}

InOrder(s, l) ==
  /\ Ordered(s.db)
  /\ \A n \in DOMAIN l : Ordered(l[n].entries)
  /\ \A n \in ReadableOf(l) : /\ Follow(WritesOf(s.db), LogOf(l, n))
                              /\ \A m \in ReadableOf(l) :
                                   m < n => Follow(LogOf(l, m), LogOf(l, n))

\* The logs of a running process: each begins with a batch that what is before
\* it ends with, and together they have the first batches of the store.
Chained(s, l, c, last) ==
  /\ last \in 1 .. Len(c)
  /\ DOMAIN l \subseteq 1 .. last
  /\ \A n \in DOMAIN l : /\ l[n].readable
                         /\ LogOf(l, n) \subseteq Batch(c, n, last)
                         /\ Before(s, l, n) = Batch(c, 1, n)
  /\ SavedOf(s, l) = Batch(c, 1, last)

Put(l, n, log) == [m \in DOMAIN l \cup {n} |-> IF m = n THEN log ELSE l[m]]

\* A batch has writes of the content, and the batch of all of it has them all.
LEMMA BatchFacts ==
  ASSUME NEW c \in Content, NEW a \in Nat \ {0}, NEW b \in 0 .. Len(c)
  PROVE  /\ Batch(c, a, b) \subseteq WritesOf(c)
         /\ Batch(c, 1, Len(c)) = WritesOf(c)
<1>1. DOMAIN c = 1 .. Len(c) /\ Len(c) \in Nat /\ a .. b \subseteq 1 .. Len(c)
  BY ContentFacts
<1> QED BY <1>1 DEF Batch, WritesOf

\* Batches put together.
LEMMA BatchUnion ==
  ASSUME NEW c, NEW a \in Nat \ {0}, NEW b \in Nat, a <= b
  PROVE  Batch(c, 1, b) = Batch(c, 1, a) \cup Batch(c, a, b)
<1>1. \A i : i \in 1 .. b <=> i \in 1 .. a \/ i \in a .. b
  OBVIOUS
<1> QED BY <1>1 DEF Batch

\* A write at the end leaves the batches before it.
LEMMA BatchGrows ==
  ASSUME NEW c \in Content, NEW w \in Ops, NEW a \in Nat \ {0}, NEW b \in 0 .. Len(c)
  PROVE  Batch(Append(c, w), a, b) = Batch(c, a, b)
<1>1. \A i \in a .. b : i \in 1 .. Len(c)
  BY ContentFacts
<1>2. \A i \in a .. b : Append(c, w)[i] = c[i]
  BY <1>1, AppendFacts
<1> QED BY <1>2 DEF Batch

\* In a store in order, what ends with a batch is followed by what begins with it.
LEMMA BatchesFollow ==
  ASSUME NEW c \in Content, Ordered(c), NEW a \in Nat \ {0}, NEW b \in 0 .. Len(c)
  PROVE  a <= b => Follow(Batch(c, 1, a), Batch(c, a, b))
<1> SUFFICES ASSUME a <= b, NEW i \in 1 .. a, NEW j \in a .. b
             PROVE  c[i].id <= c[j].id
  BY DEF Follow, Batch
<1>1. i \in DOMAIN c /\ j \in DOMAIN c /\ i <= j
  BY ContentFacts
<1> QED BY <1>1 DEF Ordered

\* The first batches of a store are an initial part of its history.
LEMMA BatchIsInitial ==
  ASSUME NEW c \in Content, Ordered(c), NEW h \in Content, Increasing(h),
         WritesOf(c) = WritesOf(h), NEW n \in 0 .. Len(c)
  PROVE  InitialIn(Batch(c, 1, n), h)
<1>1. DOMAIN c = 1 .. Len(c) /\ Len(c) \in Nat /\ \A i \in DOMAIN c : c[i].id \in Nat
  BY ContentFacts
<1>2. Batch(c, 1, n) \subseteq WritesOf(h)
  BY BatchFacts
<1>3. ASSUME NEW v \in WritesOf(h), NEW w \in WritesOf(h), v.id = w.id PROVE v = w
  <2>1. PICK i \in DOMAIN h : v = h[i]
    BY DEF WritesOf
  <2>2. PICK j \in DOMAIN h : w = h[j]
    BY DEF WritesOf
  <2>3. i \in Nat /\ j \in Nat /\ h[i].id \in Nat /\ h[j].id \in Nat
    BY ContentFacts
  <2>4. ~(i < j) /\ ~(j < i)
    BY <1>3, <2>1, <2>2, <2>3 DEF Increasing
  <2> QED BY <2>1, <2>2, <2>3, <2>4
<1>4. ASSUME NEW w \in Batch(c, 1, n), NEW v \in WritesOf(h), v.id <= w.id
      PROVE  v \in Batch(c, 1, n)
  <2>1. PICK i \in 1 .. n : w = c[i]
    BY DEF Batch
  <2>2. PICK j \in DOMAIN c : v = c[j]
    BY DEF WritesOf
  <2>3. CASE j <= n
    BY <1>1, <2>2, <2>3 DEF Batch
  <2>4. CASE ~(j <= n)
    <3>1. i \in DOMAIN c /\ i <= j
      BY <1>1, <2>4
    <3>2. c[i].id <= c[j].id
      BY <3>1 DEF Ordered
    <3>3. v.id = w.id
      BY <1>1, <1>4, <2>1, <2>2, <3>1, <3>2
    <3> QED BY <1>2, <1>3, <3>3
  <2> QED BY <2>3, <2>4
<1> QED BY <1>2, <1>4 DEF InitialIn

\* A history that grows keeps its initial parts.
LEMMA InitialGrows ==
  ASSUME NEW h \in Content, NEW w \in Ops, \A v \in WritesOf(h) : v.id < w.id,
         NEW W, InitialIn(W, h)
  PROVE  InitialIn(W, Append(h, w))
<1>1. WritesOf(Append(h, w)) = WritesOf(h) \cup {w}
  BY AppendFacts
<1>2. W \subseteq WritesOf(h) /\ WritesOf(h) \subseteq Ops
  BY ContentFacts DEF InitialIn
<1>3. ASSUME NEW u \in W, w.id <= u.id PROVE FALSE
  BY <1>2, <1>3, IdsAreNumbers
<1> QED BY <1>1, <1>2, <1>3 DEF InitialIn

\* An initial part is a prefix.
LEMMA InitialIsPrefix ==
  ASSUME NEW h \in Content, Increasing(h), NEW W, InitialIn(W, h)
  PROVE  \E n \in 0 .. Len(h) : W = WritesOf(SubSeq(h, 1, n))
<1> DEFINE S == {i \in 1 .. Len(h) : h[i] \in W}
<1>1. DOMAIN h = 1 .. Len(h) /\ Len(h) \in Nat /\ \A i \in DOMAIN h : h[i].id \in Nat
  BY ContentFacts
<1>2. \A n \in 0 .. Len(h) : WritesOf(SubSeq(h, 1, n)) = {h[i] : i \in 1 .. n}
  BY SubSeqFacts
<1>3. CASE S = {}
  <2>1. W = {}
    BY <1>1, <1>3 DEF InitialIn, WritesOf
  <2>2. 1 .. 0 = {} /\ 0 \in 0 .. Len(h)
    BY <1>1
  <2> QED BY <1>2, <2>1, <2>2
<1>4. CASE S # {}
  <2>1. PICK n \in S : \A j \in S : j <= n
    <3>1. S \in SUBSET (1 .. Len(h))
      OBVIOUS
    <3> HIDE DEF S
    <3> QED BY <1>1, <1>4, <3>1, LastPosition
  <2>2. n \in 1 .. Len(h) /\ h[n] \in W
    BY <2>1
  <2>3. ASSUME NEW i \in 1 .. n PROVE h[i] \in W
    <3>1. i \in DOMAIN h /\ n \in DOMAIN h
      BY <1>1, <2>2
    <3>2. h[i].id <= h[n].id
      <4>1. CASE i = n
        BY <1>1, <3>1, <4>1
      <4>2. CASE i < n
        BY <1>1, <3>1, <4>2 DEF Increasing
      <4> QED BY <2>2, <4>1, <4>2
    <3>3. h[i] \in WritesOf(h)
      BY <3>1 DEF WritesOf
    <3> QED BY <2>2, <3>2, <3>3 DEF InitialIn
  <2>4. ASSUME NEW w \in W PROVE w \in {h[i] : i \in 1 .. n}
    <3>1. PICK i \in 1 .. Len(h) : w = h[i]
      BY <1>1 DEF InitialIn, WritesOf
    <3>2. i <= n
      BY <2>1, <3>1
    <3> QED BY <2>2, <3>1, <3>2
  <2>5. W = {h[i] : i \in 1 .. n} /\ n \in 0 .. Len(h)
    BY <1>1, <2>2, <2>3, <2>4
  <2> QED BY <1>2, <2>5
<1> QED BY <1>3, <1>4

\* A snapshot without logs.
LEMMA SnapshotAlone ==
  ASSUME NEW s, s.db \in Content, Ordered(s.db), NEW l, DOMAIN l = {}
  PROVE  InOrder(s, l) /\ SavedOf(s, l) = WritesOf(s.db)
  BY DEF InOrder, SavedOf, ReadableOf

\* A log that is put into the directory of a chain: what is readable before it,
\* and what is not touched.
HasPut(s, l, n, log, k) ==
  /\ DOMAIN k = DOMAIN l \cup {n} /\ k[n] = log
  /\ \A m \in DOMAIN l : m # n => k[m] = l[m]
  /\ \A m \in DOMAIN k : m <= n
  /\ \A m \in DOMAIN k : Before(s, k, m) = Before(s, l, m)
  /\ \A m \in ReadableOf(k) \ {n} : m \in ReadableOf(l) /\ m < n

\* A log that is put changes the log with its number alone.
LEMMA PutFacts ==
  ASSUME NEW s, NEW l, NEW n \in Nat, DOMAIN l \subseteq 1 .. n, NEW log
  PROVE  HasPut(s, l, n, log, Put(l, n, log))
<1> DEFINE k == Put(l, n, log)
<1>1. DOMAIN k = DOMAIN l \cup {n} /\ k[n] = log
  BY DEF Put
<1>2. \A m \in DOMAIN l : m # n => k[m] = l[m]
  BY DEF Put
<1>3. \A m \in DOMAIN k : m <= n /\ m \in Nat /\ (m # n => m \in DOMAIN l /\ m < n)
  BY <1>1
<1> HIDE DEF k
<1>4. ASSUME NEW m \in DOMAIN k PROVE Before(s, k, m) = Before(s, l, m)
  <2>1. {i \in DOMAIN k : i < m} = {i \in DOMAIN l : i < m}
    BY <1>1, <1>3
  <2>2. \A i \in {i \in DOMAIN l : i < m} : LogOf(k, i) = LogOf(l, i)
    <3>1. ASSUME NEW i \in DOMAIN l, i < m PROVE k[i] = l[i]
      <4>1. i # n
        BY <1>1, <1>3, <3>1
      <4> QED BY <1>2, <4>1
    <3> QED BY <3>1 DEF LogOf
  <2> QED BY <2>1, <2>2 DEF Before
<1>5. ASSUME NEW m \in ReadableOf(k) \ {n} PROVE m \in ReadableOf(l) /\ m < n
  <2>1. m \in DOMAIN k /\ m \in DOMAIN l /\ m < n
    BY <1>3 DEF ReadableOf
  <2>2. ASSUME NEW i \in DOMAIN l, i <= m PROVE l[i].readable
    <3>1. i # n /\ i \in DOMAIN k
      BY <1>1, <1>3, <2>1, <2>2
    <3>2. k[i].readable /\ k[i] = l[i]
      BY <1>2, <2>2, <3>1 DEF ReadableOf
    <3> QED BY <3>2
  <2> QED BY <2>1, <2>2 DEF ReadableOf
<1> QED BY <1>1, <1>2, <1>3, <1>4, <1>5 DEF k, HasPut

\* All that a chain has is before the batch that the next log begins with.
LEMMA ChainIsBefore ==
  ASSUME NEW s, NEW l, NEW c \in Content, NEW last, Chained(s, l, c, last)
  PROVE  /\ Before(s, l, last) = Batch(c, 1, last)
         /\ ReadableOf(l) = DOMAIN l
         /\ last \in Nat \ {0}
<1>1. last \in 1 .. Len(c) /\ Len(c) \in Nat
  BY ContentFacts DEF Chained
<1>2. ReadableOf(l) = DOMAIN l
  BY DEF Chained, ReadableOf
<1>3. CASE last \in DOMAIN l
  BY <1>1, <1>2, <1>3 DEF Chained
<1>4. CASE last \notin DOMAIN l
  <2>1. {m \in DOMAIN l : m < last} = DOMAIN l
    <3>1. DOMAIN l \subseteq 1 .. last
      BY DEF Chained
    <3>2. ASSUME NEW m \in DOMAIN l PROVE m < last
      <4>1. m \in 1 .. last /\ m # last
        BY <1>4, <3>1
      <4> QED BY <1>1, <4>1
    <3> QED BY <3>2
  <2>2. Before(s, l, last) = SavedOf(s, l)
    BY <1>2, <2>1, Zenon DEF Before, SavedOf
  <2> QED BY <1>1, <1>2, <2>2 DEF Chained
<1> QED BY <1>1, <1>2, <1>3, <1>4

\* What the readable logs of a chain are after another one was put: the order of
\* the logs before it.
LEMMA PutInOrder ==
  ASSUME NEW s, NEW l, NEW c \in Content, Ordered(c), NEW last, Chained(s, l, c, last),
         InOrder(s, l), NEW log, Ordered(log.entries),
         log.readable => Follow(Batch(c, 1, last), WritesOf(log.entries))
  PROVE  InOrder(s, Put(l, last, log))
<1> DEFINE k == Put(l, last, log)
<1>1. last \in Nat /\ DOMAIN l \subseteq 1 .. last
  BY ChainIsBefore DEF Chained
<1>2. /\ DOMAIN k = DOMAIN l \cup {last} /\ k[last] = log
      /\ \A m \in DOMAIN l : m # last => k[m] = l[m]
      /\ \A m \in DOMAIN k : m <= last
      /\ \A m \in DOMAIN k : Before(s, k, m) = Before(s, l, m)
      /\ \A m \in ReadableOf(k) \ {last} : m \in ReadableOf(l) /\ m < last
  <2>1. HasPut(s, l, last, log, k)
    BY <1>1, PutFacts
  <2> QED BY <2>1 DEF HasPut
<1> HIDE DEF k
<1>3. Ordered(s.db) /\ \A n \in DOMAIN k : Ordered(k[n].entries)
  BY <1>2 DEF InOrder
<1>4. \A m \in ReadableOf(k) \ {last} : LogOf(k, m) = LogOf(l, m)
  BY <1>2 DEF LogOf, ReadableOf
<1>5. last \in ReadableOf(k) => log.readable
  <2>1. last <= last
    BY <1>1
  <2> QED BY <1>2, <2>1 DEF ReadableOf
<1>6. ASSUME NEW m \in ReadableOf(k) \ {last}
      PROVE  LogOf(k, m) \subseteq Before(s, l, last)
  <2>1. m \in ReadableOf(l) /\ m < last /\ m \in DOMAIN l
    BY <1>2 DEF ReadableOf
  <2> QED BY <1>4, <2>1 DEF Before
<1>7. Before(s, l, last) = Batch(c, 1, last) /\ WritesOf(s.db) \subseteq Before(s, l, last)
  BY ChainIsBefore DEF Before
<1>8. ASSUME NEW n \in ReadableOf(k)
      PROVE  /\ Follow(WritesOf(s.db), LogOf(k, n))
             /\ \A m \in ReadableOf(k) : m < n => Follow(LogOf(k, m), LogOf(k, n))
  <2>1. CASE n = last
    <3>1. LogOf(k, n) = WritesOf(log.entries)
      BY <1>2, <2>1 DEF LogOf
    <3>2. Follow(Batch(c, 1, last), LogOf(k, n))
      BY <1>5, <2>1, <3>1
    <3>3. \A m \in ReadableOf(k) : m < n => m # last
      BY <1>1, <2>1
    <3> QED BY <1>6, <1>7, <3>2, <3>3 DEF Follow
  <2>2. CASE n # last
    <3>1. n \in ReadableOf(l) /\ n < last /\ LogOf(k, n) = LogOf(l, n)
      BY <1>2, <1>4, <2>2
    <3>2. ASSUME NEW m \in ReadableOf(k), m < n
          PROVE  m \in ReadableOf(l) /\ LogOf(k, m) = LogOf(l, m)
      <4>1. n \in Nat /\ m \in Nat /\ m # last
        BY <1>1, <1>2, <3>1, <3>2 DEF ReadableOf
      <4> QED BY <1>2, <1>4, <4>1
    <3> QED BY <3>1, <3>2 DEF InOrder
  <2> QED BY <2>1, <2>2
<1> QED BY <1>3, <1>8 DEF InOrder, k

\* A log of the batches from the last one of a chain extends the chain.
LEMMA ChainExtends ==
  ASSUME NEW s, NEW l, NEW c \in Content, Ordered(c), NEW last, Chained(s, l, c, last),
         NEW to \in 1 .. Len(c), last <= to,
         NEW log, log.readable, WritesOf(log.entries) = Batch(c, last, to)
  PROVE  Chained(s, Put(l, last, log), c, to)
<1> DEFINE k == Put(l, last, log)
<1>1. /\ last \in Nat \ {0} /\ DOMAIN l \subseteq 1 .. last /\ to \in Nat
      /\ Before(s, l, last) = Batch(c, 1, last) /\ ReadableOf(l) = DOMAIN l
  BY ChainIsBefore, ContentFacts DEF Chained
<1>2. /\ DOMAIN k = DOMAIN l \cup {last} /\ k[last] = log
      /\ \A m \in DOMAIN l : m # last => k[m] = l[m]
      /\ \A m \in DOMAIN k : m <= last
      /\ \A m \in DOMAIN k : Before(s, k, m) = Before(s, l, m)
  <2>1. HasPut(s, l, last, log, k)
    BY <1>1, PutFacts
  <2> QED BY <2>1 DEF HasPut
<1> HIDE DEF k
<1>3. DOMAIN k \subseteq 1 .. to
  BY <1>1, <1>2
<1>4. \A m \in DOMAIN k : k[m].readable
  BY <1>2 DEF Chained
<1>5. ReadableOf(k) = DOMAIN k
  BY <1>4 DEF ReadableOf
<1>6. LogOf(k, last) = Batch(c, last, to)
  BY <1>2 DEF LogOf
<1>7. \A m \in DOMAIN k \ {last} : m \in DOMAIN l /\ LogOf(k, m) = LogOf(l, m)
  BY <1>2 DEF LogOf
<1>8. \A m \in DOMAIN l : LogOf(l, m) \subseteq Batch(c, m, last) /\ Before(s, l, m) = Batch(c, 1, m)
  BY DEF Chained
<1>9. \A m : Batch(c, m, last) \subseteq Batch(c, m, to)
  BY <1>1 DEF Batch
<1>10. \A m \in DOMAIN k : LogOf(k, m) \subseteq Batch(c, m, to) /\ Before(s, k, m) = Batch(c, 1, m)
  BY <1>1, <1>2, <1>6, <1>7, <1>8, <1>9
<1>11. SavedOf(s, k) = Before(s, k, last) \cup LogOf(k, last)
  <2>1. \A m \in DOMAIN k : m # last => m < last
    BY <1>1, <1>2
  <2>2. {m \in DOMAIN k : m < last} = DOMAIN k \ {last}
    BY <1>1, <2>1
  <2>3. \A v : v \in Before(s, k, last)
                <=> v \in WritesOf(s.db) \/ \E m \in DOMAIN k \ {last} : v \in LogOf(k, m)
    BY <2>2 DEF Before
  <2>4. \A v : v \in SavedOf(s, k)
                <=> v \in WritesOf(s.db) \/ \E m \in DOMAIN k : v \in LogOf(k, m)
    BY <1>5 DEF SavedOf
  <2>5. last \in DOMAIN k
    BY <1>2
  <2>6. \A v : v \in SavedOf(s, k) <=> v \in Before(s, k, last) \/ v \in LogOf(k, last)
    BY <2>3, <2>4, <2>5
  <2> QED BY <2>6
<1>12. last \in DOMAIN k
  BY <1>2
<1>13. SavedOf(s, k) = Batch(c, 1, to)
  BY <1>1, <1>6, <1>10, <1>11, <1>12, BatchUnion
<1> QED BY <1>3, <1>4, <1>10, <1>13 DEF Chained, k

\* A log that cannot be read leaves what is before it.
LEMMA ChainTorn ==
  ASSUME NEW s, NEW l, NEW c \in Content, NEW last, Chained(s, l, c, last),
         NEW log, ~log.readable
  PROVE  SavedOf(s, Put(l, last, log)) = Batch(c, 1, last)
<1> DEFINE k == Put(l, last, log)
<1>1. /\ last \in Nat \ {0} /\ DOMAIN l \subseteq 1 .. last
      /\ Before(s, l, last) = Batch(c, 1, last) /\ ReadableOf(l) = DOMAIN l
  BY ChainIsBefore DEF Chained
<1>2. /\ DOMAIN k = DOMAIN l \cup {last} /\ k[last] = log
      /\ \A m \in DOMAIN l : m # last => k[m] = l[m]
      /\ \A m \in DOMAIN k : m <= last
      /\ \A m \in DOMAIN k : Before(s, k, m) = Before(s, l, m)
  <2>1. HasPut(s, l, last, log, k)
    BY <1>1, PutFacts
  <2> QED BY <2>1 DEF HasPut
<1> HIDE DEF k
<1>3. ReadableOf(k) = {m \in DOMAIN k : m < last}
  <2>1. \A m \in ReadableOf(k) : m \in DOMAIN k /\ m # last /\ m <= last
    <3>1. last <= last
      BY <1>1
    <3> QED BY <1>2, <3>1 DEF ReadableOf
  <2>2. ASSUME NEW m \in DOMAIN k, m < last PROVE m \in ReadableOf(k)
    <3>1. ASSUME NEW i \in DOMAIN k, i <= m PROVE k[i].readable
      <4>1. i # last /\ i \in DOMAIN l
        BY <1>1, <1>2, <2>2, <3>1
      <4> QED BY <1>2, <4>1 DEF Chained
    <3> QED BY <3>1 DEF ReadableOf
  <2>3. \A m \in DOMAIN k : m # last /\ m <= last => m < last
    BY <1>1, <1>2
  <2> QED BY <2>1, <2>2, <2>3
<1>4. SavedOf(s, k) = Before(s, k, last)
  BY <1>3 DEF SavedOf, Before
<1>5. last \in DOMAIN k
  BY <1>2
<1> QED BY <1>1, <1>2, <1>4, <1>5 DEF k

\* A store that grows, and a check point that is complete.
LEMMA ChainKept ==
  ASSUME NEW s, NEW l, NEW c \in Content, NEW last, Chained(s, l, c, last), NEW w \in Ops
  PROVE  Chained(s, l, Append(c, w), last)
<1>1. last \in 1 .. Len(c) /\ Len(c) \in Nat /\ Len(Append(c, w)) = Len(c) + 1
  BY ContentFacts, AppendFacts DEF Chained
<1>2. ASSUME NEW n \in 1 .. last
      PROVE  /\ Batch(Append(c, w), n, last) = Batch(c, n, last)
             /\ Batch(Append(c, w), 1, n) = Batch(c, 1, n)
  BY <1>1, BatchGrows
<1>3. 1 \in 1 .. last
  BY <1>1
<1>4. last \in 1 .. Len(Append(c, w))
  BY <1>1
<1>5. DOMAIN l \subseteq 1 .. last
  BY DEF Chained
<1>6. \A n \in DOMAIN l : /\ l[n].readable
                          /\ LogOf(l, n) \subseteq Batch(Append(c, w), n, last)
                          /\ Before(s, l, n) = Batch(Append(c, w), 1, n)
  BY <1>2, <1>5 DEF Chained
<1>7. SavedOf(s, l) = Batch(Append(c, w), 1, last)
  BY <1>2, <1>3 DEF Chained
<1> QED BY <1>4, <1>5, <1>6, <1>7 DEF Chained

\* A check point of a part of the store begins a chain.
LEMMA ChainBegins ==
  ASSUME NEW s, NEW l, NEW c, NEW last \in 1 .. Len(c), DOMAIN l = {},
         WritesOf(s.db) = Batch(c, 1, last)
  PROVE  Chained(s, l, c, last)
<1>1. ReadableOf(l) = {}
  BY DEF ReadableOf
<1> QED BY <1>1 DEF Chained, SavedOf

-----------------------------------------------------------------------------
(* What is loaded                                                          *)

\* The rows of a snapshot with its logs are those of their writes.
LEMMA LoadedIsRow ==
  ASSUME Shape, NEW t \in Times, InOrder(snapshot[t], logs[t]), NEW key \in Keys
  PROVE  IsRow(SavedOf(snapshot[t], logs[t]), key, LoadedFrom(t)[key])
<1> DEFINE s == snapshot[t]
           l == logs[t]
           LogHas(n) == n \in ReadableOf(l) /\ Has(l[n].entries, key)
           IsLast(n) == LogHas(n) /\ \A m \in DOMAIN l : LogHas(m) => m <= n
           S == {n \in DOMAIN l : LogHas(n)}
<1>1. /\ s.db \in Content /\ IsFiniteSet(DOMAIN l)
      /\ \A n \in DOMAIN l : n \in Nat /\ l[n].entries \in Content
  BY DEF Shape, SnapshotShape, LogShape, Log
<1>2. LoadedFrom(t)[key] = IF \E n \in DOMAIN l : LogHas(n)
                           THEN LastOf(l[CHOOSE n \in DOMAIN l : IsLast(n)].entries, key)
                           ELSE LastOf(s.db, key)
  BY DEF LoadedFrom, Readable, ReadableOf
<1>3. InOrder(s, l)
  OBVIOUS
<1>4. \A c \in Content : Has(c, key) <=> \E w \in WritesOf(c) : Touches(w, key)
  BY DEF Has, WritesOf
<1>5. ReadableOf(l) \subseteq DOMAIN l
  BY DEF ReadableOf
<1>6. \A v : v \in SavedOf(s, l)
             <=> v \in WritesOf(s.db) \/ \E n \in ReadableOf(l) : v \in LogOf(l, n)
  BY DEF SavedOf
<1>7. CASE \E n \in DOMAIN l : LogHas(n)
  <2>1. \E n \in DOMAIN l : IsLast(n)
    <3>1. S # {} /\ S \in SUBSET DOMAIN l
      BY <1>7
    <3>2. \A n \in DOMAIN l : LogHas(n) <=> n \in S
      OBVIOUS
    <3> HIDE DEF S, LogHas, l
    <3>3. IsFiniteSet(S)
      BY <1>1, <3>1, FS_Subset
    <3>4. S \in SUBSET Int
      BY <1>1, <3>1
    <3>5. Max(S) \in S /\ \A y \in S : y <= Max(S)
      BY <3>1, <3>3, <3>4, FiniteHasMax
    <3> QED BY <3>1, <3>2, <3>5
  <2>2. PICK n \in DOMAIN l : n = (CHOOSE m \in DOMAIN l : IsLast(m)) /\ IsLast(n)
    <3> HIDE DEF IsLast, l
    <3> QED BY <2>1
  <2>3. LoadedFrom(t)[key] = LastOf(l[n].entries, key)
    BY <1>2, <1>7, <2>2
  <2>4. /\ n \in ReadableOf(l) /\ Has(l[n].entries, key)
        /\ \A m \in ReadableOf(l) : Has(l[m].entries, key) => m <= n
    BY <1>5, <2>2
  <2> HIDE DEF s, l, LogHas, IsLast, S
  <2>5. IsRow(LogOf(l, n), key, LastOf(l[n].entries, key))
    BY <1>1, <1>3, LastOfIsRow DEF InOrder, LogOf
  <2>6. PICK u \in LogOf(l, n) : Touches(u, key) /\ u.id = LastOf(l[n].entries, key)
    BY <1>1, <1>4, <2>4, <2>5 DEF IsRow, LogOf
  <2>7. \A w \in LogOf(l, n) : Touches(w, key) => w.id <= u.id
    BY <2>5, <2>6 DEF IsRow
  <2>8. ASSUME NEW w \in SavedOf(s, l), Touches(w, key) PROVE w.id <= u.id
    <3>1. CASE w \in WritesOf(s.db)
      BY <1>3, <2>4, <3>1 DEF InOrder, Follow
    <3>2. ASSUME NEW m \in ReadableOf(l), w \in LogOf(l, m) PROVE w.id <= u.id
      <4>1. m <= n
        BY <1>1, <1>4, <1>5, <2>4, <2>8, <3>2 DEF LogOf
      <4>2. CASE m = n
        BY <2>7, <2>8, <3>2, <4>2
      <4>3. CASE m # n
        <5>1. m < n
          BY <1>1, <1>5, <2>4, <4>1, <4>3
        <5>2. Follow(LogOf(l, m), LogOf(l, n))
          BY <1>3, <2>4, <5>1 DEF InOrder
        <5> QED BY <3>2, <5>2 DEF Follow
      <4> QED BY <4>2, <4>3
    <3> QED BY <1>6, <2>8, <3>1, <3>2
  <2>9. u \in SavedOf(s, l)
    BY <1>6, <2>4
  <2>10. IsRow(SavedOf(s, l), key, u.id)
    BY <2>6, <2>8, <2>9 DEF IsRow
  <2> QED BY <2>3, <2>6, <2>10 DEF s, l
<1>8. CASE ~\E n \in DOMAIN l : LogHas(n)
  <2>1. LoadedFrom(t)[key] = LastOf(s.db, key)
    BY <1>2, <1>8
  <2>2. \A n \in ReadableOf(l) : ~Has(l[n].entries, key)
    BY <1>5, <1>8
  <2> HIDE DEF s, l, LogHas, IsLast, S
  <2>3. IsRow(WritesOf(s.db), key, LastOf(s.db, key))
    BY <1>1, <1>3, LastOfIsRow DEF InOrder
  <2>4. \A n \in ReadableOf(l) : \A w \in LogOf(l, n) : ~Touches(w, key)
    BY <1>1, <1>4, <1>5, <2>2 DEF LogOf
  <2>5. IsRow(SavedOf(s, l), key, LastOf(s.db, key))
    BY <1>6, <2>3, <2>4 DEF IsRow
  <2> QED BY <2>1, <2>5 DEF s, l
<1> QED BY <1>7, <1>8

\* Every write touches a key.
LEMMA SomeKey ==
  ASSUME NEW w \in Ops
  PROVE  \E key \in Keys : Touches(w, key)
<1>1. CASE w.op = "truncate"
  BY <1>1, StoreAssumption DEF Touches
<1>2. CASE w.op # "truncate"
  <2>1. w \in [op : {"put"}, key : Keys, id : 1 .. MaxWrites]
    BY <1>2 DEF Ops
  <2> QED BY <2>1 DEF Touches
<1> QED BY <1>1, <1>2

\* A process that loads some writes of a history begins with it up to the last
\* one of them.
LEMMA BegunReaches ==
  ASSUME Shape, NEW of \in 0 .. MaxStarts, Increasing(timeline[of]),
         NEW W, W \subseteq WritesOf(timeline[of]),
         NEW rows, \A key \in Keys : IsRow(W, key, rows[key])
  PROVE  /\ Begun(of, rows) \in Content
         /\ WritesOf(Begun(of, rows))
              = {v \in WritesOf(timeline[of]) : \E w \in W : v.id <= w.id}
         /\ Increasing(Begun(of, rows))
<1> DEFINE h == timeline[of]
           ids == {rows[key] : key \in Keys}
<1>1. /\ h \in Content /\ DOMAIN h = 1 .. Len(h) /\ Len(h) \in Nat
      /\ \A i \in DOMAIN h : h[i] \in Ops /\ h[i].id \in Nat \ {0}
  <2>1. h \in Content
    BY DEF Shape, CounterShape
  <2>2. DOMAIN h = 1 .. Len(h) /\ Len(h) \in Nat /\ \A i \in DOMAIN h : h[i] \in Ops
    BY <2>1, ContentFacts
  <2>3. \A w \in Ops : w.id \in Nat \ {0}
    BY StoreAssumption DEF Ops
  <2> QED BY <2>1, <2>2, <2>3
<1>2. PICK m \in 0 .. Len(h) :
         /\ Begun(of, rows) = SubSeq(h, 1, m)
         /\ m = 0 \/ h[m].id \in ids
         /\ \A i \in 1 .. Len(h) : h[i].id \in ids => i <= m
  BY BegunType
<1>3. W \subseteq WritesOf(h) /\ Increasing(h) /\ \A r \in ids : \E key \in Keys : r = rows[key]
  OBVIOUS
<1>4. \A key \in Keys : rows[key] \in ids
  OBVIOUS
<1> HIDE DEF h, ids
<1>5. WritesOf(SubSeq(h, 1, m)) = {h[i] : i \in 1 .. m}
  BY <1>1, SubSeqFacts
<1>6. ASSUME NEW i \in 1 .. m 
      PROVE  h[i] \in WritesOf(h) /\ \E w \in W : h[i].id <= w.id
  <2>1. m \in 1 .. Len(h) /\ i \in 1 .. Len(h) /\ i <= m
    BY <1>1
  <2>2. PICK key \in Keys : h[m].id = rows[key]
    <3>1. m # 0
      BY <2>1
    <3>2. h[m].id \in ids
      BY <1>2, <3>1
    <3> QED BY <1>3, <3>2
  <2>3. PICK w \in W : w.id = h[m].id
    BY <1>1, <2>1, <2>2 DEF IsRow
  <2>4. h[i].id <= h[m].id
    <3>1. CASE i = m
      BY <1>1, <2>1, <3>1
    <3>2. CASE i < m
      BY <1>1, <1>3, <2>1, <3>2 DEF Increasing
    <3> QED BY <2>1, <3>1, <3>2
  <2>5. h[i] \in WritesOf(h)
    BY <1>1, <2>1 DEF WritesOf
  <2> QED BY <2>3, <2>4, <2>5
<1>7. ASSUME NEW v \in WritesOf(h), NEW w \in W, v.id <= w.id
      PROVE  v \in {h[i] : i \in 1 .. m}
  <2>1. PICK i \in 1 .. Len(h) : v = h[i]
    BY <1>1 DEF WritesOf
  <2>2. w \in Ops /\ v.id \in Nat /\ w.id \in Nat /\ \E key \in Keys : Touches(w, key)
    <3>1. w \in Ops
      BY <1>1, <1>3 DEF WritesOf
    <3> QED BY <1>1, <2>1, <3>1, IdsAreNumbers, SomeKey
  <2>3. PICK key \in Keys : Touches(w, key)
    BY <2>2
  <2>4. PICK u \in W : u.id = rows[key] /\ w.id <= u.id
    BY <2>3 DEF IsRow
  <2>5. PICK j \in 1 .. Len(h) : u = h[j]
    BY <1>1, <1>3 DEF WritesOf
  <2>6. j <= m
    BY <1>2, <1>4, <2>4, <2>5
  <2>7. i <= j
    <3>1. ~(j < i)
      <4>1. h[i].id \in Nat /\ h[j].id \in Nat /\ h[i].id <= h[j].id
        BY <1>1, <1>7, <2>1, <2>2, <2>4, <2>5
      <4> QED BY <1>1, <1>3, <4>1 DEF Increasing
    <3> QED BY <1>1, <3>1
  <2>8. i \in 1 .. m
    BY <1>1, <2>6, <2>7
  <2> QED BY <2>1, <2>8
<1>8. WritesOf(SubSeq(h, 1, m)) = {v \in WritesOf(h) : \E w \in W : v.id <= w.id}
  BY <1>5, <1>6, <1>7
<1>9. SubSeq(h, 1, m) \in Content /\ Increasing(SubSeq(h, 1, m))
  BY <1>1, <1>3, SubSeqFacts
<1> QED BY <1>2, <1>8, <1>9 DEF h

\* Of an initial part these are its writes.
LEMMA BegunIsSaved ==
  ASSUME Shape, NEW of \in 0 .. MaxStarts, Increasing(timeline[of]),
         NEW W, InitialIn(W, timeline[of]),
         NEW rows, \A key \in Keys : IsRow(W, key, rows[key])
  PROVE  /\ Begun(of, rows) \in Content
         /\ WritesOf(Begun(of, rows)) = W
         /\ Increasing(Begun(of, rows))
<1>1. /\ Begun(of, rows) \in Content /\ Increasing(Begun(of, rows))
      /\ WritesOf(Begun(of, rows)) = {v \in WritesOf(timeline[of]) : \E w \in W : v.id <= w.id}
  BY BegunReaches DEF InitialIn
<1>2. \A w \in W : w \in WritesOf(timeline[of]) /\ w.id <= w.id
  <2>1. timeline[of] \in Content
    BY DEF Shape, CounterShape
  <2> QED BY <2>1, ContentFacts, IdsAreNumbers DEF InitialIn
<1>3. {v \in WritesOf(timeline[of]) : \E w \in W : v.id <= w.id} = W
  BY <1>2 DEF InitialIn
<1> QED BY <1>1, <1>3

-----------------------------------------------------------------------------
(* Histories                                                               *)

\* The writes of a process have growing ids, and the clients truncate only where
\* truncates are.
Timelines ==
  \A n \in 0 .. starts :
    /\ Increasing(timeline[n])
    /\ \A w \in WritesOf(timeline[n]) :
         w.id <= written /\ ("truncate" \notin Faults => w.op = "put")

\* What the steps do to the histories: a process begins one, or writes.
Begins(begun) ==
  /\ begun \in Content /\ starts < MaxStarts
  /\ starts' = starts + 1 /\ timeline' = [timeline EXCEPT ![starts + 1] = begun]
  /\ process.phase = "down"
  /\ UNCHANGED <<remote, clock, written, upload>>

\* Each of the three ways to start begins a history.
LEMMA StartBegins ==
  ASSUME Shape
  PROVE  /\ StartFromScratch => Begins(<<>>)
         /\ StartFromDisk => Begins(timeline[starts])
         /\ StartFromRemote => Begins(Begun(snapshot[current].of, Loaded))
<1>1. ASSUME StartFromScratch PROVE Begins(<<>>)
  BY <1>1, EmptyContent DEF StartFromScratch, Started, Begins, Open
<1>2. ASSUME StartFromDisk PROVE Begins(timeline[starts])
  <2>1. timeline[starts] \in Content
    BY DEF Shape, CounterShape
  <2> QED BY <1>2, <2>1 DEF StartFromDisk, Started, Begins, Open
<1>3. ASSUME StartFromRemote PROVE Begins(Begun(snapshot[current].of, Loaded))
  <2>1. snapshot[current].of \in 0 .. MaxStarts
    <3>1. current \in Nat /\ current <= clock /\ clock \in Nat /\ clock <= MaxTime
          /\ starts \in Nat /\ starts <= MaxStarts
      BY DEF Shape, SeqShape, CounterShape
    <3>2. MaxTime \in Nat /\ MaxStarts \in Nat /\ current # 0
      BY <1>3, StoreAssumption DEF StartFromRemote
    <3>3. current \in Times
      BY <3>1, <3>2 DEF Times
    <3>4. snapshot[current].of \in 0 .. starts
      BY <3>3 DEF Shape, SnapshotShape
    <3> QED BY <3>1, <3>2, <3>4
  <2>2. Begun(snapshot[current].of, Loaded) \in Content
    BY <2>1, BegunType
  <2> QED BY <1>3, <2>2 DEF StartFromRemote, Started, Begins
<1> QED BY <1>1, <1>2, <1>3

\* No other step than a start or a write touches the histories.
LEMMA HistorySteps ==
  ASSUME Shape, [Next]_vars
  PROVE  \/ UNCHANGED <<timeline, starts, written, db, process>>
         \/ UNCHANGED <<timeline, starts, written>> /\ (Load \/ Die)
         \/ StartFromScratch /\ Begins(<<>>)
         \/ StartFromDisk /\ Begins(timeline[starts])
         \/ StartFromRemote /\ Begins(Begun(snapshot[current].of, Loaded))
         \/ \E w \in Ops : /\ Commit(w) /\ w.id = written + 1 /\ written \in Nat
                           /\ "truncate" \notin Faults => w.op = "put"
<1>1. StartFromScratch => Begins(<<>>)
  BY StartBegins
<1>2. StartFromDisk => Begins(timeline[starts])
  BY StartBegins
<1>3. StartFromRemote => Begins(Begun(snapshot[current].of, Loaded))
  BY StartBegins
<1>4. CASE OpenFetched \/ LoadDone \/ \E n \in process.todo : ReplayLog(n)
  BY <1>4 DEF OpenFetched, LoadDone, ReplayLog, Load
<1>5. CASE Die
  BY <1>5 DEF Die
<1>6. CASE (\E key \in Keys : Write(key)) \/ Truncate
  BY <1>6, WriteIsCommit
<1>7. CASE Advance \/ SkipCheckpoint \/ BeginCheckpoint \/ WriteCurrent
             \/ UploadLog \/ UploadLogFails
  BY <1>7 DEF Advance, CollectLog, CreateCheckpoint, SkipCheckpoint, BeginCheckpoint,
              WriteCurrent, UploadLog, UploadLogFails, local
<1>8. CASE UploadFiles \/ FinishCheckpoint \/ CheckpointFails
             \/ (\E t \in Times : SetCurrentSnapshot(t))
  BY <1>8 DEF UploadFiles, FinishCheckpoint, CheckpointFails, SetCurrentSnapshot, local
<1>9. CASE UNCHANGED vars
  BY <1>9 DEF vars, local
<1> QED BY <1>1, <1>2, <1>3, <1>4, <1>5, <1>6, <1>7, <1>8, <1>9 DEF Next, Load

\* The history that a process begins with.
LEMMA BeginsTimelines ==
  ASSUME Shape, Timelines, NEW begun, Begins(begun), Increasing(begun),
         \E n \in 0 .. starts : WritesOf(begun) \subseteq WritesOf(timeline[n])
  PROVE  /\ Timelines'
         /\ timeline'[starts'] = begun /\ starts' \in 0 .. MaxStarts
         /\ \A n \in 0 .. starts : timeline'[n] = timeline[n]
<1>1. starts \in Nat /\ starts < MaxStarts /\ MaxStarts \in Nat
      /\ timeline \in [0 .. MaxStarts -> Content]
  BY StoreAssumption DEF Shape, CounterShape, Begins
<1>2. timeline'[starts + 1] = begun /\ starts' = starts + 1 /\ starts' \in 0 .. MaxStarts
  BY <1>1 DEF Begins
<1>3. \A n \in 0 .. starts : timeline'[n] = timeline[n]
  BY <1>1 DEF Begins
<1>4. \A n \in 0 .. starts' : n \in 0 .. starts \/ n = starts + 1
  BY <1>1, <1>2
<1>5. written' = written
  BY DEF Begins
<1>6. \A w \in WritesOf(begun) :
        w.id <= written /\ ("truncate" \notin Faults => w.op = "put")
  BY DEF Timelines
<1>7. Timelines'
  <2> SUFFICES ASSUME NEW n \in 0 .. starts'
               PROVE  /\ Increasing(timeline'[n])
                      /\ \A w \in WritesOf(timeline'[n]) :
                           w.id <= written' /\ ("truncate" \notin Faults => w.op = "put")
    BY DEF Timelines
  <2>1. CASE n \in 0 .. starts
    BY <1>3, <1>5, <2>1 DEF Timelines
  <2>2. CASE n = starts + 1
    BY <1>2, <1>5, <1>6, <2>2
  <2> QED BY <1>4, <2>1, <2>2
<1> QED BY <1>2, <1>3, <1>7

\* A write is later than all of the history that it is added to.
LEMMA CommitTimelines ==
  ASSUME Shape, Timelines, NEW w \in Ops, Commit(w), w.id = written + 1, written \in Nat,
         "truncate" \notin Faults => w.op = "put"
  PROVE  /\ Timelines'
         /\ starts' = starts /\ starts \in 0 .. MaxStarts
         /\ timeline[starts] \in Content
         /\ timeline'[starts] = Append(timeline[starts], w)
         /\ \A n \in 0 .. starts : n # starts => timeline'[n] = timeline[n]
         /\ \A v \in WritesOf(timeline[starts]) : v.id < w.id
<1>1. starts \in Nat /\ starts <= MaxStarts /\ MaxStarts \in Nat
      /\ timeline \in [0 .. MaxStarts -> Content]
  BY StoreAssumption DEF Shape, CounterShape
<1>2. timeline'[starts] = Append(timeline[starts], w) /\ timeline[starts] \in Content
  BY <1>1 DEF Commit
<1>3. \A n \in 0 .. starts : n # starts => timeline'[n] = timeline[n]
  BY <1>1 DEF Commit
<1>4. starts' = starts /\ written' = written + 1 /\ starts \in 0 .. starts
  BY <1>1 DEF Commit
<1>5. \A n \in 0 .. starts : \A v \in WritesOf(timeline[n]) : v.id \in Nat /\ v.id <= written
  <2>1. ASSUME NEW n \in 0 .. starts PROVE WritesOf(timeline[n]) \subseteq Ops
    <3>1. timeline[n] \in Content
      BY <1>1
    <3> QED BY <3>1, ContentFacts
  <2> QED BY <2>1, IdsAreNumbers DEF Timelines
<1>6. \A v \in WritesOf(timeline[starts]) : v.id < w.id
  BY <1>4, <1>5
<1>7. Timelines'
  <2> SUFFICES ASSUME NEW n \in 0 .. starts
               PROVE  /\ Increasing(timeline'[n])
                      /\ \A v \in WritesOf(timeline'[n]) :
                           v.id <= written + 1 /\ ("truncate" \notin Faults => v.op = "put")
    BY <1>4 DEF Timelines
  <2>1. CASE n # starts
    BY <1>3, <1>5, <2>1 DEF Timelines
  <2>2. CASE n = starts
    <3>1. Increasing(Append(timeline[starts], w))
      BY <1>2, <1>4, <1>6, AppendOrder DEF Timelines
    <3>2. WritesOf(Append(timeline[starts], w)) = WritesOf(timeline[starts]) \cup {w}
      BY <1>2, AppendFacts
    <3>3. \A v \in WritesOf(timeline[starts]) :
             v.id <= written + 1 /\ ("truncate" \notin Faults => v.op = "put")
      BY <1>4, <1>5 DEF Timelines
    <3>4. w.id <= written + 1
      OBVIOUS
    <3> QED BY <1>2, <2>2, <3>1, <3>2, <3>3, <3>4
  <2> QED BY <2>1, <2>2
<1> QED BY <1>1, <1>2, <1>3, <1>4, <1>6, <1>7

\* What a process begins with is a part of an earlier history.
LEMMA BegunPart ==
  ASSUME Shape, Timelines, current # 0, NEW rows
  PROVE  /\ snapshot[current].of \in 0 .. starts
         /\ Increasing(Begun(snapshot[current].of, rows))
         /\ WritesOf(Begun(snapshot[current].of, rows))
              \subseteq WritesOf(timeline[snapshot[current].of])
<1>1. /\ current \in Nat /\ current <= clock /\ clock \in Nat /\ clock <= MaxTime
      /\ starts \in Nat /\ starts <= MaxStarts
  BY DEF Shape, SeqShape, CounterShape
<1>2. MaxTime \in Nat /\ MaxStarts \in Nat
  BY StoreAssumption
<1>3. current \in Times
  BY <1>1, <1>2 DEF Times
<1>4. snapshot[current].of \in 0 .. starts
  BY <1>3 DEF Shape, SnapshotShape
<1>5. PICK of : of = snapshot[current].of
  OBVIOUS
<1>6. of \in 0 .. MaxStarts /\ of \in 0 .. starts
  BY <1>1, <1>2, <1>4, <1>5
<1>7. timeline[of] \in Content /\ Increasing(timeline[of])
  BY <1>6 DEF Shape, CounterShape, Timelines
<1>8. PICK m \in 0 .. Len(timeline[of]) : Begun(of, rows) = SubSeq(timeline[of], 1, m)
  BY <1>6, BegunType
<1>9. Increasing(SubSeq(timeline[of], 1, m))
  BY <1>7, SubSeqFacts
<1>10. WritesOf(SubSeq(timeline[of], 1, m)) \subseteq WritesOf(timeline[of])
  <2>1. WritesOf(SubSeq(timeline[of], 1, m)) = Batch(timeline[of], 1, m)
    BY <1>7, SubSeqFacts DEF Batch
  <2> QED BY <1>7, <2>1, BatchFacts
<1> QED BY <1>4, <1>5, <1>8, <1>9, <1>10

\* At first the histories are empty.
LEMMA TimelinesInit == Init => Timelines
<1> SUFFICES ASSUME Init PROVE Timelines
  OBVIOUS
<1>1. \A n \in 0 .. starts : timeline[n] = <<>>
  BY StoreAssumption DEF Init
<1> QED BY <1>1, EmptyContent DEF Timelines

\* Every step keeps the ids of the histories growing.
LEMMA TimelinesStep ==
  ASSUME Shape, Timelines, [Next]_vars
  PROVE  Timelines'
<1>1. CASE UNCHANGED <<timeline, starts, written>>
  BY <1>1 DEF Timelines
<1>2. starts \in 0 .. starts
  BY DEF Shape, CounterShape
<1>3. CASE Begins(<<>>)
  BY <1>2, <1>3, EmptyContent, BeginsTimelines
<1>4. CASE Begins(timeline[starts])
  BY <1>2, <1>4, BeginsTimelines DEF Timelines
<1>5. CASE StartFromRemote /\ Begins(Begun(snapshot[current].of, Loaded))
  <2>1. current # 0
    BY <1>5 DEF StartFromRemote
  <2> QED BY <1>5, <2>1, BegunPart, BeginsTimelines
<1>6. ASSUME NEW w \in Ops, Commit(w), w.id = written + 1, written \in Nat,
             "truncate" \notin Faults => w.op = "put"
      PROVE  Timelines'
  BY <1>6, CommitTimelines
<1> QED BY <1>1, <1>3, <1>4, <1>5, <1>6, HistorySteps

-----------------------------------------------------------------------------
(* Logs and check points of the store                                      *)

\* Every check point with its logs, the current one or another, has an initial
\* part of the writes of its process.
RemoteIsSound ==
  \A t \in Times : /\ InOrder(snapshot[t], logs[t])
                   /\ InitialIn(SavedOf(snapshot[t], logs[t]), timeline[snapshot[t].of])

\* The store has the writes of the history; while a process loads, what it still
\* has to load completes them.
StoreIsTimeline ==
  /\ process.phase \in {"running", "down"} =>
       Ordered(db) /\ WritesOf(db) = WritesOf(timeline[starts])
  /\ process.phase = "fetching" =>
       WritesOf(timeline[starts]) = SavedOf(snapshot[current], logs[current])
  /\ process.phase = "replaying" =>
       /\ Ordered(db) /\ process.todo \subseteq ReadableOf(logs[current])
       /\ WritesOf(db) \cup UNION {LogOf(logs[current], n) : n \in process.todo}
            = WritesOf(timeline[starts])
       /\ \A n \in process.todo : Follow(WritesOf(db), LogOf(logs[current], n))
  /\ disk = "partial" => process.phase = "fetching"

\* The upload in flight has batches of the store.
UploadIsOfStore ==
  /\ upload.pc = "log" => /\ upload.from = Since /\ Ordered(upload.entries)
                          /\ WritesOf(upload.entries) = Batch(db, upload.from, upload.to)
  /\ upload.pc \in {"files", "pointer", "cleanup"} =>
       /\ upload.to \in 1 .. Len(db) /\ lastUploadSeq <= upload.to
       /\ Ordered(upload.entries)
       /\ WritesOf(upload.entries) = Batch(db, 1, upload.to)
  /\ upload.pc # "idle" => Len(db) >= 1

\* Once a check point was uploaded, it has with its logs what counts as uploaded.
LogsContinue ==
  snapshotUploaded /\ ~Uploading /\ process.phase = "running" =>
    /\ lastCheckpointTime \in Times /\ snapshot[lastCheckpointTime].of = starts
    /\ Chained(snapshot[lastCheckpointTime], logs[lastCheckpointTime], db, lastUploadSeq)
    /\ ~uploadStopped => current = lastCheckpointTime

UploadedIsSaved ==
  /\ process.phase = "replaying" => ~snapshotUploaded
  /\ snapshotUploaded /\ ~uploadStopped =>
       /\ current # 0
       /\ Batch(db, 1, lastUploadSeq) \subseteq SavedOf(snapshot[current], logs[current])

UploadInv == Timelines /\ RemoteIsSound /\ StoreIsTimeline /\ UploadIsOfStore
               /\ LogsContinue /\ UploadedIsSaved

\* The store of a process that runs or that has ended.
LEMMA StoreFacts ==
  ASSUME Shape, Timelines, StoreIsTimeline, process.phase \in {"running", "down"}
  PROVE  /\ db \in Content /\ Ordered(db) /\ Len(db) \in Nat
         /\ starts \in 0 .. starts /\ starts \in 0 .. MaxStarts
         /\ timeline[starts] \in Content /\ Increasing(timeline[starts])
         /\ WritesOf(db) = WritesOf(timeline[starts])
<1>1. starts \in 0 .. MaxStarts /\ starts \in 0 .. starts /\ timeline[starts] \in Content
  BY DEF Shape, CounterShape
<1> QED BY <1>1, ContentFacts DEF Shape, StoreShape, Timelines, StoreIsTimeline

\* The current check point is one that was begun.
LEMMA CurrentIsTime ==
  ASSUME Shape, current # 0
  PROVE  current \in Times /\ snapshot[current].of \in 0 .. starts
<1>1. /\ current \in Nat /\ current <= clock /\ clock \in Nat /\ clock <= MaxTime
  BY DEF Shape, SeqShape, CounterShape
<1>2. current \in Times
  BY <1>1, StoreAssumption DEF Times
<1> QED BY <1>2 DEF Shape, SnapshotShape

\* Only a process that runs uploads.
LEMMA UploadsRun ==
  ASSUME Shape, upload.pc # "idle"
  PROVE  process.phase = "running"
  BY DEF Shape, ProcessShape, NoUpload

\* A log that is uploaded continues the chain; one that is torn leaves it as far
\* as it counts.
LEMMA PutLogSound ==
  ASSUME Shape, InFlight, UploadInv, upload.pc = "log", snapshotUploaded,
         NEW log, log = Torn \/ log = [readable |-> TRUE, entries |-> upload.entries],
         PutLog(log), UNCHANGED <<snapshot, timeline, db>>
  PROVE  /\ lastCheckpointTime \in Times /\ snapshot[lastCheckpointTime].of = starts
         /\ \A u \in Times : u # lastCheckpointTime => logs'[u] = logs[u]
         /\ ~uploadStopped => current = lastCheckpointTime
         /\ log.readable =>
              Chained(snapshot[lastCheckpointTime], logs'[lastCheckpointTime], db, upload.to)
         /\ Batch(db, 1, lastUploadSeq)
              \subseteq SavedOf(snapshot[lastCheckpointTime], logs'[lastCheckpointTime])
         /\ RemoteIsSound'
<1> DEFINE t == lastCheckpointTime
           s == snapshot[t]
           l == logs[t]
           last == lastUploadSeq
           k == Put(l, last, log)
<1>1. process.phase = "running" /\ ~Uploading
  BY UploadsRun DEF Uploading
<1>2. /\ t \in Times /\ s.of = starts /\ Chained(s, l, db, last)
      /\ ~uploadStopped => current = t
  BY <1>1 DEF UploadInv, LogsContinue
<1>3. /\ db \in Content /\ Ordered(db) /\ Len(db) \in Nat
      /\ timeline[starts] \in Content /\ Increasing(timeline[starts])
      /\ WritesOf(db) = WritesOf(timeline[starts])
  BY <1>1, StoreFacts DEF UploadInv
<1>4. InOrder(s, l)
  BY <1>2 DEF UploadInv, RemoteIsSound
<1>5. last \in Nat \ {0} /\ last \in 1 .. Len(db)
  BY <1>2, <1>3, ChainIsBefore DEF Chained
<1>6. /\ upload.from = last /\ upload.to \in 1 .. Len(db) /\ last <= upload.to
      /\ Ordered(upload.entries)
      /\ WritesOf(upload.entries) = Batch(db, last, upload.to)
  <2>1. Since = last
    BY <1>5 DEF Since
  <2>2. /\ upload.from = last /\ Ordered(upload.entries)
        /\ WritesOf(upload.entries) = Batch(db, upload.from, upload.to)
    BY <2>1 DEF UploadInv, UploadIsOfStore
  <2>3. upload.to \in Nat /\ upload.to <= Len(db) /\ upload.from <= upload.to
    BY DEF Shape, UploadShape
  <2> QED BY <1>3, <1>5, <2>2, <2>3
<1>7. logs'[t] = k /\ \A u \in Times : u # t => logs'[u] = logs[u]
  BY <1>2, <1>6 DEF PutLog, Put, Shape, LogShape
<1> HIDE DEF k, s, l, last
<1>8. Ordered(log.entries)
  BY <1>6, EmptyContent DEF Torn
<1>9. log.readable => WritesOf(log.entries) = Batch(db, last, upload.to)
  BY <1>6 DEF Torn
<1>10. log.readable => Follow(Batch(db, 1, last), WritesOf(log.entries))
  <2>1. Follow(Batch(db, 1, last), Batch(db, last, upload.to))
    <3>1. upload.to \in 0 .. Len(db)
      BY <1>3, <1>6
    <3> QED BY <1>3, <1>5, <1>6, <3>1, BatchesFollow
  <2> QED BY <1>9, <2>1
<1>11. InOrder(s, k)
  BY <1>2, <1>3, <1>4, <1>8, <1>10, PutInOrder DEF k
<1>12. log.readable => Chained(s, k, db, upload.to)
  BY <1>2, <1>3, <1>6, <1>9, ChainExtends DEF k
<1>13. log.readable => SavedOf(s, k) = Batch(db, 1, upload.to)
  BY <1>12 DEF Chained
<1>14. ~log.readable => SavedOf(s, k) = Batch(db, 1, last)
  BY <1>2, <1>3, ChainTorn DEF k
<1>15. Batch(db, 1, last) \subseteq SavedOf(s, k)
  <2>1. Batch(db, 1, last) \subseteq Batch(db, 1, upload.to)
    BY <1>3, <1>5, <1>6 DEF Batch
  <2> QED BY <1>13, <1>14, <2>1
<1>16. InitialIn(SavedOf(s, k), timeline[starts])
  <2>1. upload.to \in 0 .. Len(db) /\ last \in 0 .. Len(db)
    BY <1>3, <1>5, <1>6
  <2> QED BY <1>3, <1>13, <1>14, <2>1, BatchIsInitial
<1>17. RemoteIsSound'
  <2> SUFFICES ASSUME NEW u \in Times
               PROVE  /\ InOrder(snapshot'[u], logs'[u])
                      /\ InitialIn(SavedOf(snapshot'[u], logs'[u]), timeline'[snapshot'[u].of])
    BY DEF RemoteIsSound
  <2>1. CASE u = t
    BY <1>2, <1>7, <1>11, <1>16, <2>1 DEF s
  <2>2. CASE u # t
    BY <1>7, <2>2 DEF UploadInv, RemoteIsSound
  <2> QED BY <2>1, <2>2
<1> QED BY <1>2, <1>7, <1>12, <1>15, <1>17 DEF s, last

\* The files of a check point are an initial part of the history, as the store
\* is at the time when they are taken.
LEMMA PutFilesSound ==
  ASSUME Shape, InFlight, UploadInv, upload.pc = "files", NEW f, PutFiles(f),
         UNCHANGED <<logs, timeline>>
  PROVE  RemoteIsSound'
<1>1. process.phase = "running" /\ Uploading
  BY UploadsRun DEF Uploading
<1>2. /\ db \in Content /\ Ordered(db) /\ Len(db) \in Nat
      /\ timeline[starts] \in Content /\ Increasing(timeline[starts])
      /\ WritesOf(db) = WritesOf(timeline[starts])
  BY <1>1, StoreFacts DEF UploadInv
<1>3. lastCheckpointTime = clock /\ clock \in Times /\ DOMAIN logs[clock] = {}
  BY <1>1 DEF InFlight
<1>4. /\ upload.to \in 0 .. Len(db) /\ upload.entries \in Content
      /\ Ordered(upload.entries)
      /\ WritesOf(upload.entries) = Batch(db, 1, upload.to)
  BY <1>2 DEF UploadInv, UploadIsOfStore, Shape, UploadShape
<1>5. /\ snapshot'[clock] = [files |-> f, db |-> upload.entries, of |-> starts]
      /\ \A u \in Times : u # clock => snapshot'[u] = snapshot[u]
  BY <1>3 DEF PutFiles, Shape, SnapshotShape
<1>6. InOrder(snapshot'[clock], logs[clock])
      /\ SavedOf(snapshot'[clock], logs[clock]) = WritesOf(upload.entries)
  <2>1. snapshot'[clock].db = upload.entries
    BY <1>5
  <2> QED BY <1>3, <1>4, <2>1, SnapshotAlone
<1>7. InitialIn(Batch(db, 1, upload.to), timeline[starts])
  BY <1>2, <1>4, BatchIsInitial
<1> SUFFICES ASSUME NEW u \in Times
             PROVE  /\ InOrder(snapshot'[u], logs'[u])
                    /\ InitialIn(SavedOf(snapshot'[u], logs'[u]), timeline'[snapshot'[u].of])
  BY DEF RemoteIsSound
<1>8. CASE u = clock
  BY <1>4, <1>5, <1>6, <1>7, <1>8
<1>9. CASE u # clock
  BY <1>5, <1>9 DEF UploadInv, RemoteIsSound
<1> QED BY <1>8, <1>9

\* A check point that is deleted has nothing.
LEMMA DeleteSound ==
  ASSUME RemoteIsSound, NEW times, Delete(times), UNCHANGED timeline
  PROVE  RemoteIsSound'
<1> SUFFICES ASSUME NEW u \in Times
             PROVE  /\ InOrder(snapshot'[u], logs'[u])
                    /\ InitialIn(SavedOf(snapshot'[u], logs'[u]), timeline'[snapshot'[u].of])
  BY DEF RemoteIsSound
<1>1. CASE u \in times
  <2>1. snapshot'[u] = NoFiles /\ logs'[u] = <<>>
    BY <1>1 DEF Delete
  <2>2. NoFiles.db = <<>> /\ DOMAIN <<>> = {}
    BY DEF NoFiles
  <2>3. InOrder(NoFiles, <<>>) /\ SavedOf(NoFiles, <<>>) = {}
    BY <2>2, EmptyContent, SnapshotAlone
  <2> QED BY <2>1, <2>3 DEF InitialIn
<1>2. CASE u \notin times
  BY <1>2 DEF RemoteIsSound, Delete
<1> QED BY <1>1, <1>2

\* While a process loads, nothing in the remote file system changes.
LEMMA LoadsAlone ==
  ASSUME Load
  PROVE  UNCHANGED <<current, snapshot, logs>>
  BY DEF Load, StartFromScratch, StartFromDisk, StartFromRemote, OpenFetched, ReplayLog,
         LoadDone, remote

\* A start: the history continues what was saved.
LEMMA StartKeeps ==
  ASSUME Shape, UploadInv, NEW begun, Begins(begun), Increasing(begun),
         \E n \in 0 .. starts : WritesOf(begun) \subseteq WritesOf(timeline[n])
  PROVE  /\ Timelines' /\ RemoteIsSound'
         /\ timeline'[starts'] = begun
         /\ UNCHANGED <<current, snapshot, logs, upload>> /\ upload.pc = "idle"
<1>1. /\ Timelines' /\ timeline'[starts'] = begun
      /\ \A n \in 0 .. starts : timeline'[n] = timeline[n]
  BY BeginsTimelines DEF UploadInv
<1>2. UNCHANGED <<current, snapshot, logs, upload>>
  BY DEF Begins, remote
<1>3. \A t \in Times : snapshot[t].of \in 0 .. starts
  BY DEF Shape, SnapshotShape
<1>4. RemoteIsSound'
  BY <1>1, <1>2, <1>3 DEF UploadInv, RemoteIsSound
<1>5. upload.pc = "idle"
  BY DEF Begins, Shape, ProcessShape, NoUpload
<1> QED BY <1>1, <1>2, <1>4, <1>5

\* A store that was just opened counts nothing as uploaded.
LEMMA OpenKeeps ==
  ASSUME upload.pc = "idle", upload' = upload, ~snapshotUploaded'
  PROVE  UploadIsOfStore' /\ LogsContinue'
  BY DEF UploadIsOfStore, LogsContinue

\* A start without a check point has nothing to continue.
LEMMA ScratchKeeps ==
  ASSUME Shape, UploadInv, StartFromScratch, Begins(<<>>)
  PROVE  UploadInv'
<1>1. starts \in 0 .. starts
  BY DEF Shape, CounterShape
<1>2. /\ Timelines' /\ RemoteIsSound' /\ timeline'[starts'] = <<>>
      /\ upload' = upload /\ upload.pc = "idle"
  BY <1>1, EmptyContent, StartKeeps
<1>3. /\ db' = <<>> /\ disk' = "store" /\ ~snapshotUploaded' /\ process'.phase = "running"
  BY DEF StartFromScratch, Open, Running
<1>4. UploadIsOfStore' /\ LogsContinue'
  BY <1>2, <1>3, OpenKeeps
<1>5. StoreIsTimeline'
  BY <1>2, <1>3, EmptyContent DEF StoreIsTimeline
<1>6. UploadedIsSaved'
  BY <1>3 DEF UploadedIsSaved
<1> QED BY <1>2, <1>4, <1>5, <1>6 DEF UploadInv

\* A start with the local directory continues the history of the store in it.
LEMMA DiskKeeps ==
  ASSUME Shape, UploadInv, StartFromDisk, Begins(timeline[starts])
  PROVE  UploadInv'
<1>1. starts \in 0 .. starts /\ process.phase = "down" /\ disk # "partial"
  BY DEF Shape, CounterShape, StartFromDisk, UploadInv, StoreIsTimeline
<1>2. Ordered(db) /\ Increasing(timeline[starts]) /\ WritesOf(db) = WritesOf(timeline[starts])
  BY <1>1, StoreFacts DEF UploadInv
<1>3. /\ Timelines' /\ RemoteIsSound' /\ timeline'[starts'] = timeline[starts]
      /\ upload' = upload /\ upload.pc = "idle"
  BY <1>1, <1>2, StartKeeps
<1>4. /\ db' = db /\ disk' = "store" /\ ~snapshotUploaded' /\ process'.phase = "running"
  BY <1>1 DEF StartFromDisk, Open, Running
<1>5. UploadIsOfStore' /\ LogsContinue'
  BY <1>3, <1>4, OpenKeeps
<1>6. StoreIsTimeline'
  BY <1>2, <1>3, <1>4 DEF StoreIsTimeline
<1>7. UploadedIsSaved'
  BY <1>4 DEF UploadedIsSaved
<1> QED BY <1>3, <1>5, <1>6, <1>7 DEF UploadInv

\* What can be loaded, as the rows of the writes that are saved.
LEMMA LoadedRows ==
  ASSUME Shape, RemoteIsSound, current # 0
  PROVE  /\ current \in Times
         /\ \A key \in Keys :
              IsRow(SavedOf(snapshot[current], logs[current]), key, Loaded[key])
         /\ InitialIn(SavedOf(snapshot[current], logs[current]),
                      timeline[snapshot[current].of])
<1>1. current \in Times
  BY CurrentIsTime
<1>2. InOrder(snapshot[current], logs[current])
  BY <1>1 DEF RemoteIsSound
<1>3. \A key \in Keys :
        IsRow(SavedOf(snapshot[current], logs[current]), key, LoadedFrom(current)[key])
  BY <1>1, <1>2, LoadedIsRow
<1> QED BY <1>1, <1>3 DEF Loaded, RemoteIsSound

\* A start from the remote file system continues the history of what is saved
\* there.
LEMMA FetchKeeps ==
  ASSUME Shape, UploadInv, StartFromRemote, Begins(Begun(snapshot[current].of, Loaded))
  PROVE  UploadInv'
<1>1. current # 0 /\ process.phase = "down"
  BY DEF StartFromRemote
<1>2. /\ snapshot[current].of \in 0 .. starts
      /\ WritesOf(Begun(snapshot[current].of, Loaded))
           \subseteq WritesOf(timeline[snapshot[current].of])
      /\ Increasing(Begun(snapshot[current].of, Loaded))
  BY <1>1, BegunPart DEF UploadInv
<1>3. WritesOf(Begun(snapshot[current].of, Loaded))
        = SavedOf(snapshot[current], logs[current])
  <2>1. PICK of : of = snapshot[current].of
    OBVIOUS
  <2>2. PICK W : W = SavedOf(snapshot[current], logs[current])
    OBVIOUS
  <2>3. PICK rows : rows = Loaded
    OBVIOUS
  <2>4. (\A key \in Keys : IsRow(W, key, rows[key])) /\ InitialIn(W, timeline[of])
    BY <1>1, <2>1, <2>2, <2>3, LoadedRows DEF UploadInv
  <2>5. of \in 0 .. starts /\ of \in 0 .. MaxStarts
    <3>1. starts \in Nat /\ MaxStarts \in Nat /\ starts <= MaxStarts
      BY StoreAssumption DEF Shape, CounterShape
    <3> QED BY <1>2, <2>1, <3>1
  <2>6. Increasing(timeline[of])
    BY <2>5 DEF UploadInv, Timelines
  <2>7. WritesOf(Begun(of, rows)) = W
    BY <2>4, <2>5, <2>6, BegunIsSaved
  <2> QED BY <2>1, <2>2, <2>3, <2>7
<1>4. /\ Timelines' /\ RemoteIsSound'
      /\ timeline'[starts'] = Begun(snapshot[current].of, Loaded)
      /\ UNCHANGED <<current, snapshot, logs, upload>> /\ upload.pc = "idle"
  BY <1>2, StartKeeps
<1>5. /\ db' = db /\ disk' = "partial" /\ process'.phase = "fetching"
      /\ UNCHANGED <<lastUploadSeq, snapshotUploaded, uploadStopped>>
  BY DEF StartFromRemote, seqs
<1>6. UploadIsOfStore' /\ LogsContinue'
  BY <1>4, <1>5 DEF UploadIsOfStore, LogsContinue
<1>7. StoreIsTimeline'
  BY <1>3, <1>4, <1>5 DEF StoreIsTimeline
<1>8. UploadedIsSaved'
  BY <1>4, <1>5 DEF UploadInv, UploadedIsSaved
<1> QED BY <1>4, <1>6, <1>7, <1>8 DEF UploadInv

\* The snapshot is opened, the logs are to be replayed.
LEMMA OpenFetchedKeeps ==
  ASSUME Shape, UploadInv, OpenFetched
  PROVE  UploadInv'
<1>1. /\ process.phase = "fetching" /\ Open(snapshot[current].db)
      /\ process' = [phase |-> "replaying", todo |-> Readable(current)]
      /\ UNCHANGED <<current, snapshot, logs, written, starts, timeline>>
  BY DEF OpenFetched, remote
<1>2. current \in Times /\ upload.pc = "idle"
  BY <1>1, CurrentIsTime DEF Shape, ProcessShape, NoUpload
<1>3. /\ db' = snapshot[current].db /\ disk' = "store" /\ ~snapshotUploaded'
      /\ upload' = upload
  BY <1>1 DEF Open
<1>4. Timelines' /\ RemoteIsSound'
  BY <1>1 DEF UploadInv, Timelines, RemoteIsSound
<1>5. UploadIsOfStore' /\ LogsContinue'
  BY <1>2, <1>3, OpenKeeps
<1>6. InOrder(snapshot[current], logs[current])
  BY <1>2 DEF UploadInv, RemoteIsSound
<1>7. WritesOf(timeline[starts]) = SavedOf(snapshot[current], logs[current])
  BY <1>1 DEF UploadInv, StoreIsTimeline
<1>8. process'.todo = ReadableOf(logs[current]) /\ process'.phase = "replaying"
  BY <1>1 DEF Readable, ReadableOf
<1>9. /\ Ordered(db')
      /\ \A n \in process'.todo : Follow(WritesOf(db'), LogOf(logs[current], n))
      /\ WritesOf(db') \cup UNION {LogOf(logs[current], n) : n \in process'.todo}
           = WritesOf(timeline[starts])
  BY <1>3, <1>6, <1>7, <1>8 DEF InOrder, SavedOf
<1>10. StoreIsTimeline'
  BY <1>1, <1>3, <1>8, <1>9 DEF StoreIsTimeline
<1>11. UploadedIsSaved'
  BY <1>3 DEF UploadedIsSaved
<1> QED BY <1>4, <1>5, <1>10, <1>11 DEF UploadInv

\* A log is replayed: the next one follows it.
LEMMA ReplayKeeps ==
  ASSUME Shape, UploadInv, NEW n \in process.todo, ReplayLog(n)
  PROVE  UploadInv'
<1>1. /\ process.phase = "replaying" /\ \A m \in process.todo : n <= m
      /\ db' = db \o logs[current][n].entries
      /\ process' = [process EXCEPT !.todo = @ \ {n}]
      /\ UNCHANGED <<disk, upload, seqs, uploadStopped, current, snapshot, logs, written,
                     starts, timeline>>
  BY DEF ReplayLog, remote
<1>2. current \in Times /\ upload.pc = "idle" /\ process \in [phase : Phases, todo : SUBSET Nat]
  BY <1>1, CurrentIsTime DEF Shape, ProcessShape, NoUpload
<1>3. process'.phase = "replaying" /\ process'.todo = process.todo \ {n}
  BY <1>1, <1>2
<1>4. Timelines' /\ RemoteIsSound'
  BY <1>1 DEF UploadInv, Timelines, RemoteIsSound
<1>5. UploadIsOfStore' /\ LogsContinue' /\ UploadedIsSaved'
  BY <1>1, <1>2, <1>3 DEF UploadInv, UploadedIsSaved, UploadIsOfStore, LogsContinue, seqs
<1>6. InOrder(snapshot[current], logs[current])
  BY <1>2 DEF UploadInv, RemoteIsSound
<1>7. /\ Ordered(db) /\ process.todo \subseteq ReadableOf(logs[current])
      /\ WritesOf(db) \cup UNION {LogOf(logs[current], m) : m \in process.todo}
           = WritesOf(timeline[starts])
      /\ \A m \in process.todo : Follow(WritesOf(db), LogOf(logs[current], m))
      /\ disk # "partial"
  BY <1>1 DEF UploadInv, StoreIsTimeline
<1>8. db \in Content /\ logs[current][n].entries \in Content /\ Ordered(logs[current][n].entries)
  BY <1>2, <1>6, <1>7 DEF Shape, StoreShape, LogShape, Log, ReadableOf, InOrder
<1>9. /\ WritesOf(db') = WritesOf(db) \cup LogOf(logs[current], n)
      /\ Ordered(db')
  <2>1. Follow(WritesOf(db), WritesOf(logs[current][n].entries))
    BY <1>7 DEF LogOf
  <2> QED BY <1>1, <1>7, <1>8, <2>1, ConcatFacts DEF LogOf, Follow
<1>10. ASSUME NEW m \in process.todo \ {n}
       PROVE  Follow(WritesOf(db'), LogOf(logs[current], m))
  <2>1. n < m
    BY <1>1, <1>2
  <2>2. Follow(LogOf(logs[current], n), LogOf(logs[current], m))
    BY <1>6, <1>7, <2>1 DEF InOrder
  <2>3. Follow(WritesOf(db), LogOf(logs[current], m))
    BY <1>7
  <2> QED BY <1>9, <2>2, <2>3 DEF Follow
<1>11. WritesOf(db') \cup UNION {LogOf(logs[current], m) : m \in process.todo \ {n}}
         = WritesOf(timeline[starts])
  <2>1. \A v : v \in WritesOf(timeline[starts])
               <=> v \in WritesOf(db) \/ \E m \in process.todo : v \in LogOf(logs[current], m)
    BY <1>7
  <2>2. \A v : v \in WritesOf(timeline[starts])
               <=> \/ v \in WritesOf(db) \/ v \in LogOf(logs[current], n)
                   \/ \E m \in process.todo \ {n} : v \in LogOf(logs[current], m)
    BY <2>1
  <2> QED BY <1>9, <2>2
<1>12. StoreIsTimeline'
  BY <1>1, <1>3, <1>7, <1>9, <1>10, <1>11 DEF StoreIsTimeline
<1> QED BY <1>4, <1>5, <1>12 DEF UploadInv

\* Once all logs are replayed the store has the writes of the history.
LEMMA LoadDoneKeeps ==
  ASSUME Shape, UploadInv, LoadDone
  PROVE  UploadInv'
<1>1. /\ process.phase = "replaying" /\ process.todo = {} /\ process'.phase = "running"
      /\ UNCHANGED <<db, disk, upload, seqs, uploadStopped, current, snapshot, logs, written,
                     starts, timeline>>
  BY DEF LoadDone, remote, Running
<1>2. upload.pc = "idle"
  BY <1>1 DEF Shape, ProcessShape, NoUpload
<1>3. Timelines' /\ RemoteIsSound'
  BY <1>1 DEF UploadInv, Timelines, RemoteIsSound
<1>4. ~snapshotUploaded /\ snapshotUploaded' = snapshotUploaded
  BY <1>1 DEF UploadInv, UploadedIsSaved, seqs
<1>5. UploadIsOfStore' /\ LogsContinue' /\ UploadedIsSaved'
  BY <1>1, <1>2, <1>4 DEF UploadIsOfStore, LogsContinue, UploadedIsSaved
<1>6. Ordered(db) /\ WritesOf(db) = WritesOf(timeline[starts]) /\ disk # "partial"
  <2>1. UNION {LogOf(logs[current], m) : m \in {}} = {}
    OBVIOUS
  <2> QED BY <1>1, <2>1 DEF UploadInv, StoreIsTimeline
<1>7. StoreIsTimeline'
  BY <1>1, <1>6 DEF StoreIsTimeline
<1> QED BY <1>3, <1>5, <1>7 DEF UploadInv

\* A process that ends while it runs: a log or files that it was uploading are
\* torn, or done, or not there.
LEMMA DieKeeps ==
  ASSUME "interrupt" \notin Faults, Shape, InFlight, UploadInv, Die
  PROVE  UploadInv'
<1>1. /\ process.phase = "running" /\ process'.phase = "down" /\ upload'.pc = "idle"
      /\ disk' = disk \/ disk' = "absent"
      /\ UNCHANGED <<db, lastCheckpointTime, lastUploadSeq, snapshotUploaded, uploadStopped,
                     current, written, starts, timeline>>
  BY DEF Die, NoUpload, seqs
<1>2. disk' # "partial"
  BY <1>1 DEF UploadInv, StoreIsTimeline
<1>3. Timelines'
  BY <1>1 DEF UploadInv, Timelines
<1>4. StoreIsTimeline'
  BY <1>1, <1>2 DEF UploadInv, StoreIsTimeline
<1>5. UploadIsOfStore' /\ LogsContinue'
  BY <1>1 DEF UploadIsOfStore, LogsContinue
<1>6. \/ UNCHANGED <<logs, snapshot>>
      \/ upload.pc = "log" /\ snapshotUploaded /\ PutLog(Torn) /\ UNCHANGED snapshot
      \/ upload.pc = "files" /\ PutFiles("partial") /\ UNCHANGED logs
  BY DEF Die
<1>7. RemoteIsSound' /\ UploadedIsSaved'
  <2>1. CASE UNCHANGED <<logs, snapshot>>
    BY <1>1, <2>1 DEF UploadInv, RemoteIsSound, UploadedIsSaved
  <2>2. CASE upload.pc = "log" /\ snapshotUploaded /\ PutLog(Torn) /\ UNCHANGED snapshot
    <3>1. /\ RemoteIsSound'
          /\ ~uploadStopped => current = lastCheckpointTime
          /\ lastCheckpointTime \in Times
          /\ Batch(db, 1, lastUploadSeq)
               \subseteq SavedOf(snapshot[lastCheckpointTime], logs'[lastCheckpointTime])
      BY <1>1, <2>2, PutLogSound
    <3>2. current # 0 \/ uploadStopped
      BY <2>2 DEF UploadInv, UploadedIsSaved
    <3> QED BY <1>1, <2>2, <3>1, <3>2 DEF UploadedIsSaved
  <2>3. CASE upload.pc = "files" /\ PutFiles("partial") /\ UNCHANGED logs
    <3>1. RemoteIsSound'
      BY <1>1, <2>3, PutFilesSound
    <3>2. current # lastCheckpointTime
      BY <2>3 DEF InFlight, Uploading
    <3>3. current # 0 => snapshot'[current] = snapshot[current]
      <4>1. current # 0 => current \in DOMAIN snapshot
        BY CurrentIsTime DEF Shape, SnapshotShape
      <4> QED BY <2>3, <3>2, <4>1 DEF PutFiles
    <3> QED BY <1>1, <2>3, <3>1, <3>3 DEF UploadInv, UploadedIsSaved
  <2> QED BY <1>6, <2>1, <2>2, <2>3
<1> QED BY <1>3, <1>4, <1>5, <1>7 DEF UploadInv

\* A write follows all others, also while an upload is in flight.
LEMMA CommitKeeps ==
  ASSUME Shape, InFlight, UploadInv,
         NEW w \in Ops, Commit(w), w.id = written + 1, written \in Nat,
         "truncate" \notin Faults => w.op = "put"
  PROVE  UploadInv'
<1>1. /\ process.phase = "running" /\ db' = Append(db, w)
      /\ UNCHANGED <<disk, process, upload, lastCheckpointTime, lastUploadSeq, snapshotUploaded,
                     uploadStopped, current, snapshot, logs, starts>>
  BY DEF Commit, seqs, remote
<1>2. /\ db \in Content /\ Ordered(db) /\ Len(db) \in Nat
      /\ timeline[starts] \in Content /\ WritesOf(db) = WritesOf(timeline[starts])
  BY <1>1, StoreFacts DEF UploadInv
<1>3. /\ Timelines' /\ timeline'[starts] = Append(timeline[starts], w)
      /\ \A n \in 0 .. starts : n # starts => timeline'[n] = timeline[n]
      /\ \A v \in WritesOf(timeline[starts]) : v.id < w.id
  BY CommitTimelines DEF UploadInv
<1>4. \A v \in WritesOf(db) : v.id <= w.id
  <2>1. \A v \in WritesOf(db) : v.id \in Nat
    BY <1>2, ContentFacts, IdsAreNumbers
  <2> QED BY <1>2, <1>3, <2>1, IdsAreNumbers
<1>5. RemoteIsSound'
  <2> SUFFICES ASSUME NEW t \in Times
               PROVE  InitialIn(SavedOf(snapshot[t], logs[t]), timeline'[snapshot[t].of])
    BY <1>1 DEF UploadInv, RemoteIsSound
  <2>1. InitialIn(SavedOf(snapshot[t], logs[t]), timeline[snapshot[t].of])
    BY DEF UploadInv, RemoteIsSound
  <2>2. snapshot[t].of \in 0 .. starts
    BY DEF Shape, SnapshotShape
  <2>3. CASE snapshot[t].of = starts
    BY <1>2, <1>3, <2>1, <2>3, InitialGrows
  <2>4. CASE snapshot[t].of # starts
    BY <1>3, <2>1, <2>2, <2>4
  <2> QED BY <2>3, <2>4
<1>6. StoreIsTimeline'
  <2>1. Ordered(db') /\ WritesOf(db') = WritesOf(db) \cup {w}
    BY <1>1, <1>2, <1>4, AppendOrder, AppendFacts
  <2>2. WritesOf(timeline'[starts]) = WritesOf(timeline[starts]) \cup {w}
    BY <1>2, <1>3, AppendFacts
  <2>3. disk # "partial"
    BY <1>1 DEF UploadInv, StoreIsTimeline
  <2> QED BY <1>1, <1>2, <2>1, <2>2, <2>3 DEF StoreIsTimeline
<1>7. \A a \in Nat \ {0}, b \in 0 .. Len(db) : Batch(db', a, b) = Batch(db, a, b)
  BY <1>1, <1>2, BatchGrows
<1>8. Len(db') = Len(db) + 1
  BY <1>1, <1>2, AppendFacts
<1>9. UploadIsOfStore'
  <2>1. upload.pc = "log" =>
          Batch(db', upload.from, upload.to) = Batch(db, upload.from, upload.to)
    BY <1>2, <1>7 DEF Shape, UploadShape
  <2>2. upload.to \in 0 .. Len(db)
    BY <1>2 DEF Shape, UploadShape
  <2>3. Batch(db', 1, upload.to) = Batch(db, 1, upload.to)
    BY <1>7, <2>2
  <2>4. upload.to \in 1 .. Len(db) => upload.to \in 1 .. Len(db')
    BY <1>2, <1>8
  <2>5. Len(db) >= 1 => Len(db') >= 1
    BY <1>2, <1>8
  <2> QED BY <1>1, <2>1, <2>3, <2>4, <2>5 DEF UploadInv, UploadIsOfStore, Since
<1>10. LogsContinue'
  BY <1>1, <1>2, ChainKept DEF UploadInv, LogsContinue, Uploading
<1>11. UploadedIsSaved'
  <2>1. lastUploadSeq \in 0 .. Len(db)
    BY DEF Shape, SeqShape
  <2>2. Batch(db', 1, lastUploadSeq) = Batch(db, 1, lastUploadSeq)
    BY <1>7, <2>1
  <2> QED BY <1>1, <2>2 DEF UploadInv, UploadedIsSaved
<1> QED BY <1>3, <1>5, <1>6, <1>9, <1>10, <1>11 DEF UploadInv

\* A step of the upload loop leaves the store and its history.
LEMMA LoopKeeps ==
  ASSUME UploadInv, process.phase = "running",
         UNCHANGED <<local, written, starts, timeline>>
  PROVE  Timelines' /\ StoreIsTimeline'
<1>1. UNCHANGED <<db, disk, process, written, starts, timeline>>
  BY DEF local
<1> QED BY <1>1 DEF UploadInv, Timelines, StoreIsTimeline

\* The remote file system when nothing is put there.
LEMMA RemoteKept ==
  ASSUME UploadInv, UNCHANGED <<snapshot, logs, timeline>>
  PROVE  RemoteIsSound'
  BY DEF UploadInv, RemoteIsSound

\* The log that is collected has the batches from the last one that was uploaded.
LEMMA CollectKeeps ==
  ASSUME "truncate" \notin Faults, Shape, UploadInv, CollectLog
  PROVE  UploadInv'
<1>1. /\ process.phase = "running" /\ upload.pc = "idle"
      /\ UNCHANGED <<local, db, process, lastCheckpointTime, lastUploadSeq, snapshotUploaded,
                     uploadStopped, current, snapshot, logs, written, starts, timeline>>
  BY DEF CollectLog, At, local, seqs, remote
<1>2. Timelines' /\ StoreIsTimeline' /\ RemoteIsSound'
  BY <1>1, LoopKeeps, RemoteKept
<1>3. PICK to : to = IF Since + LogLimit - 1 < Len(db) THEN Since + LogLimit - 1 ELSE Len(db)
  OBVIOUS
<1>4. /\ Since \in Nat \ {0} /\ to \in 0 .. Len(db) /\ Since <= to
      /\ Len(db) \in Nat \ {0}
  BY <1>3, CollectRange DEF CollectLog
<1>5. IF LogEnabled
      THEN upload' = [pc |-> "log", from |-> Since, to |-> to,
                      entries |-> Logged(SubSeq(db, Since, to))]
      ELSE Go("logged")
  BY <1>3 DEF CollectLog
<1>6. upload'.pc \in {"log", "logged"}
  BY <1>5 DEF Go, NoUpload
<1>7. /\ db \in Content /\ Ordered(db)
      /\ starts \in 0 .. starts /\ WritesOf(db) = WritesOf(timeline[starts])
  BY <1>1, StoreFacts DEF UploadInv
<1>8. /\ SubSeq(db, Since, to) \in Content /\ Ordered(SubSeq(db, Since, to))
      /\ WritesOf(SubSeq(db, Since, to)) = Batch(db, Since, to)
  BY <1>4, <1>7, SubSeqFacts DEF Batch
<1>9. Logged(SubSeq(db, Since, to)) = SubSeq(db, Since, to)
  <2>1. \A w \in WritesOf(db) : w.op # "truncate"
    BY <1>7 DEF UploadInv, Timelines
  <2>2. Batch(db, Since, to) \subseteq WritesOf(db)
    BY <1>4, <1>7, BatchFacts
  <2> QED BY <1>8, <2>1, <2>2, LoggedPuts
<1>10. upload'.pc = "log" =>
         /\ upload'.from = Since /\ Ordered(upload'.entries)
         /\ WritesOf(upload'.entries) = Batch(db, upload'.from, upload'.to)
  <2>1. CASE LogEnabled
    <3>1. upload' = [pc |-> "log", from |-> Since, to |-> to,
                     entries |-> Logged(SubSeq(db, Since, to))]
      BY <1>5, <2>1
    <3> QED BY <1>8, <1>9, <3>1
  <2>2. CASE ~LogEnabled
    BY <1>5, <2>2 DEF Go, NoUpload
  <2> QED BY <2>1, <2>2
<1>11. Since' = Since
  BY <1>1 DEF Since
<1>12. UploadIsOfStore'
  BY <1>1, <1>4, <1>6, <1>10, <1>11 DEF UploadIsOfStore
<1>13. LogsContinue' /\ UploadedIsSaved'
  BY <1>1, <1>6 DEF UploadInv, LogsContinue, UploadedIsSaved, Uploading
<1> QED BY <1>2, <1>12, <1>13 DEF UploadInv

\* A run that uploads no check point leaves everything.
LEMMA SkipKeeps ==
  ASSUME Shape, UploadInv, SkipCheckpoint
  PROVE  UploadInv'
<1>1. /\ process.phase = "running" /\ upload.pc = "logged" /\ upload'.pc = "idle"
      /\ UNCHANGED <<local, db, process, lastCheckpointTime, lastUploadSeq, snapshotUploaded,
                     uploadStopped, current, snapshot, logs, written, starts, timeline>>
  BY DEF SkipCheckpoint, At, Go, NoUpload, local, seqs, remote
<1>2. Timelines' /\ StoreIsTimeline' /\ RemoteIsSound'
  BY <1>1, LoopKeeps, RemoteKept
<1>3. UploadIsOfStore'
  BY <1>1 DEF UploadIsOfStore
<1>4. LogsContinue' /\ UploadedIsSaved'
  BY <1>1 DEF UploadInv, LogsContinue, UploadedIsSaved, Uploading
<1> QED BY <1>2, <1>3, <1>4 DEF UploadInv

\* Once a log is uploaded the chain ends at its last batch.
LEMMA UploadLogKeeps ==
  ASSUME Shape, InFlight, UploadInv, UploadLog
  PROVE  UploadInv'
<1>1. /\ process.phase = "running" /\ upload.pc = "log" /\ upload'.pc = "logged"
      /\ lastUploadSeq' = upload.to
      /\ UNCHANGED <<local, db, process, lastCheckpointTime, snapshotUploaded,
                     uploadStopped, current, snapshot, written, starts, timeline>>
  BY DEF UploadLog, At, Go, NoUpload, local
<1>2. Timelines' /\ StoreIsTimeline'
  BY <1>1, LoopKeeps
<1>3. UploadIsOfStore'
  BY <1>1 DEF UploadInv, UploadIsOfStore
<1>4. CASE ~snapshotUploaded
  <2>1. UNCHANGED logs
    BY <1>4 DEF UploadLog
  <2>2. RemoteIsSound'
    BY <1>1, <2>1, RemoteKept
  <2>3. LogsContinue' /\ UploadedIsSaved'
    BY <1>1, <1>4 DEF LogsContinue, UploadedIsSaved
  <2> QED BY <1>2, <1>3, <2>2, <2>3 DEF UploadInv
<1>5. CASE snapshotUploaded
  <2>1. PICK log : /\ log = [readable |-> TRUE, entries |-> upload.entries]
                   /\ PutLog(log)
    BY <1>5 DEF UploadLog
  <2>2. log.readable
    BY <2>1
  <2>3. /\ lastCheckpointTime \in Times /\ snapshot[lastCheckpointTime].of = starts
        /\ ~uploadStopped => current = lastCheckpointTime
        /\ Chained(snapshot[lastCheckpointTime], logs'[lastCheckpointTime], db, upload.to)
        /\ RemoteIsSound'
    BY <1>1, <1>5, <2>1, <2>2, PutLogSound
  <2>4. LogsContinue'
    BY <1>1, <2>3 DEF LogsContinue
  <2>5. process.phase # "replaying" /\ (~uploadStopped => current # 0)
    BY <1>1, <1>5 DEF UploadInv, UploadedIsSaved
  <2>6. SavedOf(snapshot[lastCheckpointTime], logs'[lastCheckpointTime])
          = Batch(db, 1, upload.to)
    BY <2>3 DEF Chained
  <2>7. UploadedIsSaved'
    BY <1>1, <2>3, <2>5, <2>6 DEF UploadedIsSaved
  <2> QED BY <1>2, <1>3, <2>3, <2>4, <2>7 DEF UploadInv
<1> QED BY <1>4, <1>5

\* A check point that begins ends the chain of logs.
LEMMA BeginCheckpointKeeps ==
  ASSUME Shape, UploadInv, BeginCheckpoint
  PROVE  UploadInv'
<1>1. /\ process.phase = "running" /\ upload.pc = "logged" /\ upload'.pc = "checkpoint"
      /\ UNCHANGED <<local, db, process, lastUploadSeq, snapshotUploaded,
                     uploadStopped, current, snapshot, logs, written, starts, timeline>>
  BY DEF BeginCheckpoint, At, Go, NoUpload, local, remote
<1>2. Timelines' /\ StoreIsTimeline' /\ RemoteIsSound'
  BY <1>1, LoopKeeps, RemoteKept
<1>3. UploadIsOfStore'
  BY <1>1 DEF UploadInv, UploadIsOfStore
<1>4. LogsContinue'
  BY <1>1 DEF LogsContinue, Uploading
<1>5. UploadedIsSaved'
  BY <1>1 DEF UploadInv, UploadedIsSaved
<1> QED BY <1>2, <1>3, <1>4, <1>5 DEF UploadInv

\* The check point has the writes of the store at this moment.
LEMMA CreateCheckpointKeeps ==
  ASSUME Shape, UploadInv, CreateCheckpoint
  PROVE  UploadInv'
<1>1. /\ process.phase = "running" /\ upload.pc = "checkpoint"
      /\ upload' = [pc |-> "files", from |-> 0, to |-> Len(db), entries |-> db]
      /\ UNCHANGED <<local, db, process, lastUploadSeq, snapshotUploaded,
                     uploadStopped, current, snapshot, logs, written, starts, timeline>>
  BY DEF CreateCheckpoint, At, local, seqs, remote
<1>2. Timelines' /\ StoreIsTimeline' /\ RemoteIsSound'
  BY <1>1, LoopKeeps, RemoteKept
<1>3. db \in Content /\ Ordered(db) /\ Len(db) \in Nat /\ Len(db) >= 1
  BY <1>1, StoreFacts DEF UploadInv, UploadIsOfStore
<1>4. lastUploadSeq <= Len(db) /\ Batch(db, 1, Len(db)) = WritesOf(db)
  <2>1. 1 \in Nat \ {0} /\ Len(db) \in 0 .. Len(db)
    BY <1>3
  <2> QED BY <1>3, <2>1, BatchFacts DEF Shape, SeqShape
<1>5. UploadIsOfStore'
  BY <1>1, <1>3, <1>4 DEF UploadIsOfStore
<1>6. LogsContinue'
  BY <1>1 DEF LogsContinue, Uploading
<1>7. UploadedIsSaved'
  BY <1>1 DEF UploadInv, UploadedIsSaved
<1> QED BY <1>2, <1>5, <1>6, <1>7 DEF UploadInv

\* The files that are uploaded are an initial part of the history.
LEMMA UploadFilesKeeps ==
  ASSUME Shape, InFlight, UploadInv, UploadFiles
  PROVE  UploadInv'
<1>0. upload \in [pc : Steps, from : Nat, to : Nat, entries : Content]
  BY DEF Shape, UploadShape
<1>1. /\ process.phase = "running" /\ upload.pc = "files" /\ PutFiles("complete")
      /\ upload'.pc = "pointer" /\ upload'.to = upload.to /\ upload'.entries = upload.entries
      /\ UNCHANGED <<local, db, process, lastUploadSeq, snapshotUploaded,
                     uploadStopped, current, logs, written, starts, timeline>>
  BY <1>0 DEF UploadFiles, At, local, seqs
<1>2. Timelines' /\ StoreIsTimeline'
  BY <1>1, LoopKeeps
<1>3. RemoteIsSound'
  BY <1>1, PutFilesSound
<1>4. UploadIsOfStore'
  BY <1>1 DEF UploadInv, UploadIsOfStore
<1>5. LogsContinue'
  BY <1>1 DEF LogsContinue, Uploading
<1>6. current # lastCheckpointTime
  BY <1>1 DEF InFlight, Uploading
<1>7. current # 0 => snapshot'[current] = snapshot[current]
  <2>1. current # 0 => current \in DOMAIN snapshot
    BY CurrentIsTime DEF Shape, SnapshotShape
  <2> QED BY <1>1, <1>6, <2>1 DEF PutFiles
<1>8. UploadedIsSaved'
  BY <1>1, <1>7 DEF UploadInv, UploadedIsSaved
<1> QED BY <1>2, <1>3, <1>4, <1>5, <1>8 DEF UploadInv

\* What a check point that is in flight has, once its files are there.
LEMMA CheckpointHas ==
  ASSUME Shape, InFlight, UploadInv, upload.pc \in {"pointer", "cleanup"}
  PROVE  /\ clock \in Times /\ clock # 0 /\ lastCheckpointTime = clock
         /\ snapshot[clock].db = upload.entries /\ snapshot[clock].of = starts
         /\ DOMAIN logs[clock] = {}
         /\ upload.to \in 1 .. Len(db) /\ lastUploadSeq <= upload.to
         /\ WritesOf(upload.entries) = Batch(db, 1, upload.to)
         /\ SavedOf(snapshot[clock], logs[clock]) = Batch(db, 1, upload.to)
         /\ Batch(db, 1, lastUploadSeq) \subseteq Batch(db, 1, upload.to)
<1>1. /\ clock \in Times /\ lastCheckpointTime = clock /\ DOMAIN logs[clock] = {}
      /\ snapshot[clock].db = upload.entries /\ snapshot[clock].of = starts
  BY DEF InFlight, Uploading
<1>2. /\ upload.to \in 1 .. Len(db) /\ lastUploadSeq <= upload.to
      /\ Ordered(upload.entries) /\ upload.entries \in Content
      /\ WritesOf(upload.entries) = Batch(db, 1, upload.to)
  BY DEF UploadInv, UploadIsOfStore, Shape, UploadShape
<1>3. SavedOf(snapshot[clock], logs[clock]) = Batch(db, 1, upload.to)
  BY <1>1, <1>2, SnapshotAlone
<1>4. Batch(db, 1, lastUploadSeq) \subseteq Batch(db, 1, upload.to)
  <2>1. \A i \in 1 .. lastUploadSeq : i \in 1 .. upload.to
    BY <1>2 DEF Shape, SeqShape
  <2> QED BY <2>1 DEF Batch
<1>5. clock # 0
  BY <1>1 DEF Times
<1> QED BY <1>1, <1>2, <1>3, <1>4, <1>5

\* The pointer moves to a check point with no fewer writes.
LEMMA WriteCurrentKeeps ==
  ASSUME Shape, InFlight, UploadInv, WriteCurrent
  PROVE  UploadInv'
<1>0. upload \in [pc : Steps, from : Nat, to : Nat, entries : Content]
  BY DEF Shape, UploadShape
<1>1. /\ process.phase = "running" /\ upload.pc = "pointer"
      /\ current' = lastCheckpointTime
      /\ upload'.pc = "cleanup" /\ upload'.to = upload.to /\ upload'.entries = upload.entries
      /\ UNCHANGED <<local, db, process, lastUploadSeq, snapshotUploaded,
                     uploadStopped, snapshot, logs, written, starts, timeline>>
  BY <1>0 DEF WriteCurrent, At, local, seqs
<1>2. Timelines' /\ StoreIsTimeline' /\ RemoteIsSound'
  BY <1>1, LoopKeeps, RemoteKept
<1>3. UploadIsOfStore'
  BY <1>1 DEF UploadInv, UploadIsOfStore
<1>4. LogsContinue'
  BY <1>1 DEF LogsContinue, Uploading
<1>5. current' = clock /\ clock # 0
      /\ Batch(db, 1, lastUploadSeq) \subseteq SavedOf(snapshot[clock], logs[clock])
  BY <1>1, CheckpointHas
<1>6. UploadedIsSaved'
  BY <1>1, <1>5 DEF UploadedIsSaved
<1> QED BY <1>2, <1>3, <1>4, <1>6 DEF UploadInv

\* The deletion of old check points spares the current one, and a chain begins.
LEMMA FinishKeeps ==
  ASSUME Shape, InFlight, UploadInv, FinishCheckpoint
  PROVE  UploadInv'
<1>1. /\ process.phase = "running" /\ upload.pc = "cleanup" /\ upload'.pc = "idle"
      /\ lastUploadSeq' = upload.to
      /\ UNCHANGED <<local, db, process, lastCheckpointTime, uploadStopped, current, written,
                     starts, timeline>>
  BY DEF FinishCheckpoint, At, Go, NoUpload, local
<1>2. Timelines' /\ StoreIsTimeline'
  BY <1>1, LoopKeeps
<1>3. OldDeleted
  <2>1. PICK cutoff \in 0 .. clock + 1 : Delete(Old(cutoff))
    BY DEF FinishCheckpoint
  <2>2. cutoff \in Nat
    OBVIOUS
  <2> QED BY <1>1, <2>1, <2>2 DEF OldDeleted
<1>4. RemoteIsSound'
  BY <1>1, <1>3, DeleteSound DEF OldDeleted, UploadInv
<1>5. UploadIsOfStore'
  <2>1. Len(db) >= 1
    BY <1>1 DEF UploadInv, UploadIsOfStore
  <2> QED BY <1>1 DEF UploadIsOfStore
<1>6. /\ current = clock /\ snapshot'[clock] = snapshot[clock] /\ logs'[clock] = logs[clock]
  BY <1>3, DeleteLeavesCurrent
<1>7. /\ clock \in Times /\ clock # 0 /\ lastCheckpointTime = clock
      /\ snapshot[clock].db = upload.entries /\ snapshot[clock].of = starts
      /\ DOMAIN logs[clock] = {} /\ upload.to \in 1 .. Len(db)
      /\ WritesOf(upload.entries) = Batch(db, 1, upload.to)
      /\ SavedOf(snapshot[clock], logs[clock]) = Batch(db, 1, upload.to)
  BY <1>1, CheckpointHas
<1>8. Chained(snapshot[clock], logs[clock], db, upload.to)
  BY <1>7, ChainBegins
<1>9. LogsContinue'
  BY <1>1, <1>6, <1>7, <1>8 DEF LogsContinue
<1>10. UploadedIsSaved'
  BY <1>1, <1>6, <1>7 DEF UploadedIsSaved
<1> QED BY <1>2, <1>4, <1>5, <1>9, <1>10 DEF UploadInv

\* An operator who moves the pointer stops the check points.
LEMMA OperatorKeeps ==
  ASSUME Shape, UploadInv, NEW t \in Times, SetCurrentSnapshot(t)
  PROVE  UploadInv'
<1>1. /\ process.phase = "running" /\ uploadStopped'
      /\ UNCHANGED <<local, db, process, upload, lastCheckpointTime, lastUploadSeq,
                     snapshotUploaded, snapshot, logs, written, starts, timeline>>
  BY DEF SetCurrentSnapshot, local, seqs
<1>2. Timelines' /\ StoreIsTimeline' /\ RemoteIsSound'
  BY <1>1, LoopKeeps, RemoteKept
<1>3. UploadIsOfStore'
  BY <1>1 DEF UploadInv, UploadIsOfStore, Since
<1>4. LogsContinue'
  BY <1>1 DEF UploadInv, LogsContinue, Uploading
<1>5. UploadedIsSaved'
  BY <1>1 DEF UploadedIsSaved
<1> QED BY <1>2, <1>3, <1>4, <1>5 DEF UploadInv

\* Nothing is saved at first.
LEMMA UploadInvInit == Init => UploadInv
<1> SUFFICES ASSUME Init PROVE UploadInv
  OBVIOUS
<1>1. Timelines
  BY TimelinesInit
<1>2. RemoteIsSound
  <2>1. NoFiles.db = <<>> /\ DOMAIN <<>> = {}
    BY DEF NoFiles
  <2>2. InOrder(NoFiles, <<>>) /\ SavedOf(NoFiles, <<>>) = {}
    BY <2>1, EmptyContent, SnapshotAlone
  <2>3. \A t \in Times : snapshot[t] = NoFiles /\ logs[t] = <<>>
    BY DEF Init
  <2> QED BY <2>2, <2>3 DEF RemoteIsSound, InitialIn
<1>3. StoreIsTimeline
  <2>1. timeline[0] = <<>> /\ starts = 0
    BY StoreAssumption DEF Init
  <2>2. db = <<>> /\ disk = "absent" /\ process.phase = "down"
    BY DEF Init
  <2> QED BY <2>1, <2>2, EmptyContent DEF StoreIsTimeline
<1>4. UploadIsOfStore /\ LogsContinue /\ UploadedIsSaved
  BY DEF Init, NoUpload, UploadIsOfStore, LogsContinue, UploadedIsSaved
<1> QED BY <1>1, <1>2, <1>3, <1>4 DEF UploadInv

\* The faults under which what is uploaded is never more, and never other, than
\* what the loop counts: uploads end in success unless the process is killed, no
\* truncate is missing from the logs, and a load is not cut short.
Losses == Faults \cap {"upload", "truncate", "interrupt"} = {}

\* Every step keeps the invariant, unless uploads fail, a truncate leaves no log
\* or a load is interrupted.
LEMMA UploadInvStep ==
  ASSUME Losses, Shape, InFlight, UploadInv, [Next]_vars
  PROVE  UploadInv'
<1>0. "upload" \notin Faults /\ "truncate" \notin Faults /\ "interrupt" \notin Faults
  BY DEF Losses
<1>1. CASE UNCHANGED vars
  BY <1>1 DEF vars, local, seqs, remote, UploadInv, Timelines, RemoteIsSound, StoreIsTimeline,
              UploadIsOfStore, LogsContinue, UploadedIsSaved, Uploading, Since
<1>2. CASE Load
  <2>1. StartFromScratch => UploadInv'
    BY StartBegins, ScratchKeeps
  <2>2. StartFromDisk => UploadInv'
    BY StartBegins, DiskKeeps
  <2>3. StartFromRemote => UploadInv'
    BY StartBegins, FetchKeeps
  <2>4. OpenFetched \/ LoadDone => UploadInv'
    BY OpenFetchedKeeps, LoadDoneKeeps
  <2>5. (\E n \in process.todo : ReplayLog(n)) => UploadInv'
    BY ReplayKeeps
  <2> QED BY <1>2, <2>1, <2>2, <2>3, <2>4, <2>5 DEF Load
<1>3. CASE Die
  BY <1>0, <1>3, DieKeeps
<1>4. CASE (\E key \in Keys : Write(key)) \/ Truncate
  BY <1>4, WriteIsCommit, CommitKeeps
<1>5. CASE Advance \/ SkipCheckpoint
  BY <1>0, <1>5, CollectKeeps, CreateCheckpointKeeps, SkipKeeps DEF Advance
<1>6. CASE UploadLog \/ BeginCheckpoint \/ UploadFiles
  BY <1>6, UploadLogKeeps, BeginCheckpointKeeps, UploadFilesKeeps
<1>7. CASE WriteCurrent \/ FinishCheckpoint
  BY <1>7, WriteCurrentKeeps, FinishKeeps
<1>8. CASE UploadLogFails \/ CheckpointFails
  BY <1>0, <1>8 DEF UploadLogFails, CheckpointFails
<1>9. CASE \E t \in Times : SetCurrentSnapshot(t)
  BY <1>9, OperatorKeeps
<1> QED BY <1>1, <1>2, <1>3, <1>4, <1>5, <1>6, <1>7, <1>8, <1>9 DEF Next

\* Rows of the writes of a content in order are its state.
LEMMA RowsAreState ==
  ASSUME NEW c \in Content, Ordered(c), NEW rows, rows = [key \in Keys |-> rows[key]],
         \A key \in Keys : IsRow(WritesOf(c), key, rows[key])
  PROVE  rows = StateOf(c)
<1>1. ASSUME NEW key \in Keys PROVE rows[key] = LastOf(c, key)
  <2>1. IsRow(WritesOf(c), key, LastOf(c, key)) /\ IsRow(WritesOf(c), key, rows[key])
    BY LastOfIsRow
  <2>2. WritesOf(c) \in SUBSET Ops
    BY ContentFacts
  <2> QED BY <2>1, <2>2, OneRow
<1> QED BY <1>1 DEF StateOf

\* The invariant of the uploads holds in every behaviour.
LEMMA UploadFlow ==
  ASSUME Losses
  PROVE  Spec => [](Shape /\ InFlight /\ UploadInv)
<1>1. Init => Shape /\ InFlight /\ UploadInv
  BY ShapeInit, InFlightInit, UploadInvInit
<1>2. Shape /\ InFlight /\ UploadInv /\ [Next]_vars => (Shape /\ InFlight /\ UploadInv)'
  BY ShapeStep, InFlightStep, UploadInvStep
<1> QED BY <1>1, <1>2, PTL DEF Spec

\* What is loaded is a prefix of the history when its rows are those of an initial
\* part of it.
LEMMA LoadedIsPrefix ==
  ASSUME Shape, Timelines,
         current # 0 => \E W : /\ \A key \in Keys : IsRow(W, key, Loaded[key])
                               /\ InitialIn(W, timeline[snapshot[current].of])
  PROVE  RestoredIsPrefix
<1>1. CASE current = 0
  <2>1. Loaded = StateOf(<<>>) /\ Acknowledged = timeline[0]
    BY <1>1 DEF Loaded, Acknowledged
  <2>2. timeline[0] \in Content
    BY StoreAssumption DEF Shape, CounterShape
  <2>3. /\ Len(timeline[0]) \in Nat /\ 0 \in 0 .. Len(timeline[0])
        /\ 1 .. 0 = {}
    BY <2>2, ContentFacts
  <2>4. /\ SubSeq(timeline[0], 1, 0) \in Content
        /\ WritesOf(SubSeq(timeline[0], 1, 0)) = {timeline[0][i] : i \in 1 .. 0}
    BY <2>2, <2>3, SubSeqFacts
  <2>5. WritesOf(SubSeq(timeline[0], 1, 0)) = {}
    BY <2>3, <2>4
  <2>6. Ordered(SubSeq(timeline[0], 1, 0))
    BY <2>5 DEF Ordered, WritesOf
  <2>7. StateOf(SubSeq(timeline[0], 1, 0)) = StateOf(<<>>)
    BY <2>4, <2>5, <2>6, EmptyContent, SameWritesSameState
  <2> QED BY <2>1, <2>3, <2>7 DEF RestoredIsPrefix
<1>2. CASE current # 0
  <2>1. PICK of : of = snapshot[current].of
    OBVIOUS
  <2>2. of \in 0 .. MaxStarts /\ of \in 0 .. starts
    <3>1. starts \in Nat /\ MaxStarts \in Nat /\ starts <= MaxStarts
      BY StoreAssumption DEF Shape, CounterShape
    <3> QED BY <1>2, <2>1, <3>1, CurrentIsTime
  <2>3. timeline[of] \in Content /\ Increasing(timeline[of])
    BY <2>2 DEF Shape, CounterShape, Timelines
  <2>4. PICK W : /\ \A key \in Keys : IsRow(W, key, Loaded[key])
                 /\ InitialIn(W, timeline[of])
    BY <1>2, <2>1
  <2>5. PICK n \in 0 .. Len(timeline[of]) : W = WritesOf(SubSeq(timeline[of], 1, n))
    BY <2>3, <2>4, InitialIsPrefix
  <2>6. SubSeq(timeline[of], 1, n) \in Content /\ Increasing(SubSeq(timeline[of], 1, n))
    BY <2>3, SubSeqFacts
  <2>7. Ordered(SubSeq(timeline[of], 1, n))
    BY <2>6, IncreasingIsOrdered
  <2>8. Loaded = [key \in Keys |-> Loaded[key]]
    BY <1>2 DEF Loaded, LoadedFrom
  <2>9. Loaded = StateOf(SubSeq(timeline[of], 1, n))
    <3>1. PICK rows : rows = Loaded
      OBVIOUS
    <3> QED BY <2>4, <2>5, <2>6, <2>7, <2>8, <3>1, RowsAreState
  <2> QED BY <1>2, <2>1, <2>9 DEF RestoredIsPrefix, Acknowledged
<1> QED BY <1>1, <1>2

\* What a new process loads is the state after some prefix of the writes,
\* whatever was written while logs and check points were uploaded and wherever
\* the process was killed (run_upload, upload_check_point, load_metastore_logs).
THEOREM RestoredStaysPrefix ==
  ASSUME Losses
  PROVE  Spec => []RestoredIsPrefix
<1>1. ASSUME Shape, UploadInv PROVE RestoredIsPrefix
  <2>1. ASSUME current # 0
        PROVE  \E W : /\ \A key \in Keys : IsRow(W, key, Loaded[key])
                      /\ InitialIn(W, timeline[snapshot[current].of])
    BY <1>1, <2>1, LoadedRows DEF UploadInv
  <2> QED BY <1>1, <2>1, LoadedIsPrefix DEF UploadInv
<1> QED BY <1>1, UploadFlow, PTL

\* What the upload loop counts as uploaded, and announces, can be loaded
\* (last_upload_seq, write_completed_notify).
THEOREM UploadedStaysRestorable ==
  ASSUME Losses
  PROVE  Spec => []UploadedIsRestorable
<1>1. ASSUME Shape, UploadInv PROVE UploadedIsRestorable
  <2> SUFFICES ASSUME snapshotUploaded, ~uploadStopped, lastUploadSeq \in DOMAIN db
               PROVE  \E key \in Keys : Loaded[key] >= db[lastUploadSeq].id
    BY DEF UploadedIsRestorable
  <2>1. /\ current # 0
        /\ Batch(db, 1, lastUploadSeq) \subseteq SavedOf(snapshot[current], logs[current])
    BY <1>1 DEF UploadInv, UploadedIsSaved
  <2>2. PICK w : w = db[lastUploadSeq]
    OBVIOUS
  <2>3. PICK W : W = SavedOf(snapshot[current], logs[current])
    OBVIOUS
  <2>4. db \in Content /\ DOMAIN db = 1 .. Len(db) /\ Len(db) \in Nat /\ w \in Ops
    BY <1>1, <2>2, ContentFacts DEF Shape, StoreShape
  <2>5. w \in W
    <3>1. lastUploadSeq \in 1 .. lastUploadSeq
      BY <2>4
    <3> QED BY <2>1, <2>2, <2>3, <3>1 DEF Batch
  <2>6. PICK key \in Keys : Touches(w, key)
    BY <2>4, SomeKey
  <2>7. IsRow(W, key, Loaded[key])
    BY <1>1, <2>1, <2>3, LoadedRows DEF UploadInv
  <2>8. \E u \in W : u.id = Loaded[key] /\ w.id <= u.id
    BY <2>5, <2>6, <2>7 DEF IsRow
  <2>9. \A u \in W : u.id \in Nat
    <3>1. W \subseteq WritesOf(timeline[snapshot[current].of])
      BY <1>1, <2>1, <2>3, LoadedRows DEF UploadInv, InitialIn
    <3>2. PICK of \in 0 .. MaxStarts : of = snapshot[current].of
      <4>1. starts \in Nat /\ MaxStarts \in Nat /\ starts <= MaxStarts
        BY <1>1, StoreAssumption DEF Shape, CounterShape
      <4>2. snapshot[current].of \in 0 .. starts
        BY <1>1, <2>1, CurrentIsTime
      <4> QED BY <4>1, <4>2
    <3>3. timeline[of] \in Content
      BY <1>1 DEF Shape, CounterShape
    <3> QED BY <3>1, <3>2, <3>3, ContentFacts, IdsAreNumbers
  <2>10. w.id \in Nat
    BY <2>4, IdsAreNumbers
  <2> QED BY <2>2, <2>8, <2>9, <2>10
<1> QED BY <1>1, UploadFlow, PTL

\* A process that runs has the rows of every write that was acknowledged before,
\* as far as they were saved when the local files were lost (load_from_remote).
THEOREM StoreKeepsItsWrites ==
  ASSUME Losses
  PROVE  Spec => []StoreHasItsWrites
<1>1. ASSUME Shape, UploadInv PROVE StoreHasItsWrites
  <2> SUFFICES ASSUME process.phase = "running" PROVE StateOf(db) = StateOf(timeline[starts])
    BY DEF StoreHasItsWrites
  <2>1. /\ db \in Content /\ Ordered(db)
        /\ timeline[starts] \in Content /\ Increasing(timeline[starts])
        /\ WritesOf(db) = WritesOf(timeline[starts])
    BY <1>1, StoreFacts DEF UploadInv
  <2>2. Ordered(timeline[starts])
    BY <2>1, IncreasingIsOrdered
  <2> QED BY <2>1, <2>2, SameWritesSameState
<1> QED BY <1>1, UploadFlow, PTL

-----------------------------------------------------------------------------
(* The contract                                                            *)

\* The writes that the current check point has with its logs.
SavedWrites == IF current = 0 THEN {} ELSE SavedOf(snapshot[current], logs[current])

\* The position of a write is the number of those up to it.
LEMMA PositionIsCount ==
  ASSUME NEW c \in Content, Increasing(c), NEW i \in 1 .. Len(c)
  PROVE  Cardinality({w \in WritesOf(c) : w.id <= c[i].id}) = i
<1> DEFINE T == {w \in WritesOf(c) : w.id <= c[i].id}
           f == [k \in 1 .. i |-> c[k]]
<1>1. /\ DOMAIN c = 1 .. Len(c) /\ Len(c) \in Nat /\ \A k \in 1 .. Len(c) : c[k].id \in Nat
      /\ \A k \in 1 .. i : k \in 1 .. Len(c)
  BY ContentFacts
<1>2. \A k, l \in 1 .. Len(c) : k < l => c[k].id < c[l].id
  BY <1>1 DEF Increasing
<1>3. ASSUME NEW k \in 1 .. i PROVE c[k] \in T
  <2>1. k = i \/ k < i
    OBVIOUS
  <2>2. c[k].id <= c[i].id /\ c[k] \in WritesOf(c)
    BY <1>1, <1>2, <2>1 DEF WritesOf
  <2> QED BY <2>2
<1>4. ASSUME NEW w \in T PROVE \E k \in 1 .. i : w = c[k]
  <2>1. PICK k \in 1 .. Len(c) : w = c[k] /\ c[k].id <= c[i].id
    BY <1>1 DEF WritesOf
  <2>2. ~(i < k)
    BY <1>1, <1>2, <2>1
  <2>3. k \in 1 .. i
    BY <1>1, <2>1, <2>2
  <2> QED BY <2>1, <2>3
<1>5. ASSUME NEW k \in 1 .. i, NEW l \in 1 .. i, c[k] = c[l] PROVE k = l
  <2>1. ~(k < l) /\ ~(l < k)
    BY <1>1, <1>2, <1>5
  <2> QED BY <2>1
<1> HIDE DEF T
<1>6. f \in Bijection(1 .. i, T)
  <2>1. f \in [1 .. i -> T] /\ \A k \in 1 .. i : f[k] = c[k]
    BY <1>3
  <2>2. f \in Injection(1 .. i, T)
    BY <1>5, <2>1 DEF Injection, IsInjective
  <2>3. f \in Surjection(1 .. i, T)
    BY <1>4, <2>1 DEF Surjection
  <2> QED BY <2>2, <2>3 DEF Bijection
<1>7. IsFiniteSet(1 .. i) /\ Cardinality(1 .. i) = i
  <2>1. i \in Nat
    OBVIOUS
  <2> QED BY <2>1, FirstNumbers
<1>8. ExistsBijection(1 .. i, T)
  BY <1>6 DEF ExistsBijection
<1>9. Cardinality(T) = Cardinality(1 .. i)
  BY <1>7, <1>8, FS_Bijection
<1> QED BY <1>7, <1>9 DEF T

\* A write of two histories of the same writes has one position.
LEMMA SamePosition ==
  ASSUME NEW c \in Content, NEW d \in Content, Increasing(c), Increasing(d),
         WritesOf(c) = WritesOf(d), NEW i \in 1 .. Len(c)
  PROVE  i \in 1 .. Len(d) /\ d[i] = c[i]
<1>1. DOMAIN c = 1 .. Len(c) /\ DOMAIN d = 1 .. Len(d)
  BY ContentFacts
<1>2. PICK j \in 1 .. Len(d) : c[i] = d[j]
  BY <1>1 DEF WritesOf
<1>3. Cardinality({w \in WritesOf(c) : w.id <= c[i].id}) = i
  BY PositionIsCount
<1>4. Cardinality({w \in WritesOf(d) : w.id <= d[j].id}) = j
  BY PositionIsCount
<1>5. i = j
  BY <1>2, <1>3, <1>4
<1> QED BY <1>2, <1>5

\* Growing contents of the same writes are the same.
LEMMA SameWritesSameHistory ==
  ASSUME NEW c \in Content, NEW d \in Content, Increasing(c), Increasing(d),
         WritesOf(c) = WritesOf(d)
  PROVE  c = d
<1>1. \A i \in 1 .. Len(c) : i \in 1 .. Len(d) /\ d[i] = c[i]
  BY SamePosition
<1>2. \A i \in 1 .. Len(d) : i \in 1 .. Len(c)
  BY SamePosition
<1>3. Len(c) \in Nat /\ Len(d) \in Nat
  BY ContentFacts
<1>4. Len(c) = Len(d)
  <2>1. Len(c) = 0 \/ Len(c) \in 1 .. Len(c)
    BY <1>3
  <2>2. Len(d) = 0 \/ Len(d) \in 1 .. Len(d)
    BY <1>3
  <2>3. Len(c) <= Len(d)
    BY <1>1, <1>3, <2>1
  <2>4. Len(d) <= Len(c)
    BY <1>2, <1>3, <2>2
  <2> QED BY <1>3, <2>3, <2>4
<1>5. c \in Seq(Ops) /\ d \in Seq(Ops)
  BY DEF Content
<1> QED BY <1>1, <1>4, <1>5

\* Of two prefixes the one with more writes is the longer one.
LEMMA LongerPrefix ==
  ASSUME NEW h \in Content, Increasing(h), NEW n \in 0 .. Len(h), NEW m \in 0 .. Len(h),
         WritesOf(SubSeq(h, 1, n)) \subseteq WritesOf(SubSeq(h, 1, m))
  PROVE  n <= m
<1> SUFFICES ASSUME m < n PROVE FALSE
  BY ContentFacts
<1>1. DOMAIN h = 1 .. Len(h) /\ Len(h) \in Nat /\ \A i \in DOMAIN h : h[i].id \in Nat
  BY ContentFacts
<1>2. /\ WritesOf(SubSeq(h, 1, n)) = {h[i] : i \in 1 .. n}
      /\ WritesOf(SubSeq(h, 1, m)) = {h[i] : i \in 1 .. m}
  BY SubSeqFacts
<1>3. n \in 1 .. n
  BY <1>1
<1>4. PICK i \in 1 .. m : h[n] = h[i]
  <2>1. {h[i] : i \in 1 .. n} \subseteq {h[i] : i \in 1 .. m}
    BY <1>2
  <2>2. h[n] \in {h[i] : i \in 1 .. n}
    BY <1>3
  <2> QED BY <2>1, <2>2
<1>5. i \in DOMAIN h /\ n \in DOMAIN h /\ i < n
  BY <1>1
<1>6. h[i].id < h[n].id
  BY <1>5 DEF Increasing
<1> QED BY <1>1, <1>4, <1>5, <1>6

\* What is saved is a prefix of the history, and Saved is its length.
SavedIsOfStore ==
  /\ InitialIn(SavedWrites, timeline[starts])
  /\ upload.pc \in {"files", "pointer"} => SavedWrites \subseteq WritesOf(upload.entries)

SavedCounts ==
  /\ timeline[starts] \in Content /\ Increasing(timeline[starts])
  /\ Saved \in 0 .. Len(timeline[starts])
  /\ WritesOf(SubSeq(timeline[starts], 1, Saved)) = SavedWrites

\* The rows that can be loaded, whether there is a check point or not.
LEMMA SavedRows ==
  ASSUME Shape, UploadInv
  PROVE  \A key \in Keys : IsRow(SavedWrites, key, Loaded[key])
<1>1. CASE current = 0
  <2>1. Loaded = StateOf(<<>>) /\ SavedWrites = WritesOf(<<>>)
    BY <1>1, EmptyContent DEF Loaded, SavedWrites
  <2>2. \A key \in Keys : IsRow(WritesOf(<<>>), key, LastOf(<<>>, key))
    BY EmptyContent, LastOfIsRow
  <2> QED BY <2>1, <2>2 DEF StateOf
<1>2. CASE current # 0
  BY <1>2, LoadedRows DEF SavedWrites, UploadInv
<1> QED BY <1>1, <1>2

\* Saved finds the prefix that has the writes saved.
LEMMA SavedIsCounted ==
  ASSUME Shape, UploadInv, SavedIsOfStore
  PROVE  SavedCounts
<1>1. PICK h : h = timeline[starts]
  OBVIOUS
<1>2. PICK W : W = SavedWrites
  OBVIOUS
<1>3. PICK rows : rows = Loaded
  OBVIOUS
<1>4. starts \in 0 .. MaxStarts /\ h \in Content /\ Increasing(h) /\ Len(h) \in Nat
  <2>1. starts \in 0 .. MaxStarts /\ starts \in 0 .. starts /\ h \in Content
    BY <1>1 DEF Shape, CounterShape
  <2> QED BY <1>1, <2>1, ContentFacts DEF UploadInv, Timelines
<1>5. InitialIn(W, h) /\ \A key \in Keys : IsRow(W, key, rows[key])
  BY <1>1, <1>2, <1>3, SavedRows DEF SavedIsOfStore
<1> DEFINE Fits(n) == \A key \in Keys : rows[key] = LastOf(SubSeq(h, 1, n), key)
<1>6. Saved = IF \E n \in 0 .. Len(h) : Fits(n) THEN CHOOSE n \in 0 .. Len(h) : Fits(n)
              ELSE Len(h) + 1
  BY <1>1, <1>3 DEF Saved
<1>7. ASSUME NEW n \in 0 .. Len(h)
      PROVE  /\ SubSeq(h, 1, n) \in Content /\ Ordered(SubSeq(h, 1, n))
             /\ \A key \in Keys :
                  IsRow(WritesOf(SubSeq(h, 1, n)), key, LastOf(SubSeq(h, 1, n), key))
             /\ InitialIn(WritesOf(SubSeq(h, 1, n)), h)
  <2>1. SubSeq(h, 1, n) \in Content /\ Increasing(SubSeq(h, 1, n))
    BY <1>4, SubSeqFacts
  <2>2. Ordered(SubSeq(h, 1, n)) /\ Ordered(h)
    BY <1>4, <2>1, IncreasingIsOrdered
  <2>3. WritesOf(SubSeq(h, 1, n)) = Batch(h, 1, n)
    BY <1>4, SubSeqFacts DEF Batch
  <2>4. InitialIn(Batch(h, 1, n), h)
    BY <1>4, <2>2, BatchIsInitial
  <2> QED BY <2>1, <2>2, <2>3, <2>4, LastOfIsRow
<1>8. \E n \in 0 .. Len(h) : Fits(n)
  <2>1. PICK n \in 0 .. Len(h) : W = WritesOf(SubSeq(h, 1, n))
    BY <1>4, <1>5, InitialIsPrefix
  <2>2. WritesOf(SubSeq(h, 1, n)) \in SUBSET Ops
    BY <1>7, ContentFacts
  <2>3. Fits(n)
    BY <1>5, <1>7, <2>1, <2>2, OneRow
  <2> QED BY <2>3
<1>9. PICK m \in 0 .. Len(h) : Saved = m /\ Fits(m)
  <2> HIDE DEF Fits
  <2> QED BY <1>6, <1>8
<1>10. WritesOf(SubSeq(h, 1, m)) = W
  <2>1. \A key \in Keys : IsRow(WritesOf(SubSeq(h, 1, m)), key, rows[key])
    BY <1>7, <1>9
  <2>2. InitialIn(WritesOf(SubSeq(h, 1, m)), h)
    BY <1>7
  <2>3. WritesOf(Begun(starts, rows)) = WritesOf(SubSeq(h, 1, m))
    BY <1>1, <1>4, <2>1, <2>2, BegunIsSaved
  <2>4. WritesOf(Begun(starts, rows)) = W
    BY <1>1, <1>4, <1>5, BegunIsSaved
  <2> QED BY <2>3, <2>4
<1> QED BY <1>1, <1>2, <1>4, <1>9, <1>10 DEF SavedCounts

\* Without an operator the check points are never stopped.
NotStopped == ~uploadStopped

\* No step but an operator's stops the check points.
LEMMA NotStoppedStep ==
  ASSUME "rewind" \notin Faults, NotStopped, [Next]_vars
  PROVE  NotStopped'
<1>1. Load => NotStopped'
  BY DEF Load, StartFromScratch, StartFromDisk, StartFromRemote, OpenFetched, ReplayLog,
         LoadDone, Open, NotStopped
<1>2. (\E key \in Keys : Write(key)) \/ Truncate \/ Die => NotStopped'
  BY DEF Write, Truncate, Commit, Die, NotStopped
<1>3. Advance \/ SkipCheckpoint \/ BeginCheckpoint \/ WriteCurrent => NotStopped'
  BY DEF Advance, CollectLog, CreateCheckpoint, SkipCheckpoint, BeginCheckpoint, WriteCurrent,
         NotStopped
<1>4. UploadLog \/ UploadLogFails \/ UploadFiles \/ FinishCheckpoint \/ CheckpointFails
        => NotStopped'
  BY DEF UploadLog, UploadLogFails, UploadFiles, FinishCheckpoint, CheckpointFails, NotStopped
<1>5. ~\E t \in Times : SetCurrentSnapshot(t)
  BY DEF SetCurrentSnapshot
<1>6. UNCHANGED vars => NotStopped'
  BY DEF vars, NotStopped
<1> QED BY <1>1, <1>2, <1>3, <1>4, <1>5, <1>6 DEF Next

\* A step of the store, seen from its contract.
StepOfContract ==
  \/ timeline'[starts'] = timeline[starts] /\ SavedWrites \subseteq SavedWrites'
  \/ /\ \E w \in Ops : timeline'[starts'] = Append(timeline[starts], w)
     /\ SavedWrites' = SavedWrites
  \/ WritesOf(timeline'[starts']) = SavedWrites /\ SavedWrites' = SavedWrites

\* What does not change.
LEMMA NothingSaved ==
  ASSUME SavedIsOfStore, UNCHANGED <<current, snapshot, logs, timeline, starts>>,
         upload'.pc \in {"files", "pointer"} => SavedWrites \subseteq WritesOf(upload'.entries)
  PROVE  SavedIsOfStore' /\ StepOfContract
<1>1. SavedWrites' = SavedWrites
  BY DEF SavedWrites
<1> QED BY <1>1 DEF SavedIsOfStore, StepOfContract

\* A log that is put beside the current check point.
LEMMA LogIsSaved ==
  ASSUME Shape, InFlight, UploadInv, NotStopped, upload.pc = "log", snapshotUploaded,
         NEW log, log = Torn \/ log = [readable |-> TRUE, entries |-> upload.entries],
         PutLog(log), UNCHANGED <<snapshot, timeline, starts, db, current>>,
         upload'.pc \notin {"files", "pointer"}
  PROVE  SavedIsOfStore' /\ StepOfContract
<1>1. process.phase = "running" /\ ~Uploading
  BY UploadsRun DEF Uploading
<1>2. /\ current = lastCheckpointTime
      /\ Chained(snapshot[current], logs[current], db, lastUploadSeq)
  BY <1>1 DEF NotStopped, UploadInv, LogsContinue
<1>3. /\ current \in Times /\ snapshot[current].of = starts
      /\ Batch(db, 1, lastUploadSeq) \subseteq SavedOf(snapshot[current], logs'[current])
      /\ RemoteIsSound'
  BY <1>2, PutLogSound
<1>4. current # 0
  BY <1>3 DEF Times
<1>5. /\ SavedWrites = SavedOf(snapshot[current], logs[current])
      /\ SavedWrites' = SavedOf(snapshot[current], logs'[current])
  BY <1>4 DEF SavedWrites
<1>6. SavedWrites \subseteq SavedWrites'
  BY <1>2, <1>3, <1>5 DEF Chained
<1>7. InitialIn(SavedWrites', timeline[starts])
  BY <1>3, <1>5 DEF RemoteIsSound
<1> QED BY <1>6, <1>7 DEF SavedIsOfStore, StepOfContract

\* A process that loads begins with what is saved.
LEMMA StartSteps ==
  ASSUME Shape, UploadInv, SavedIsOfStore, Load
  PROVE  SavedIsOfStore' /\ StepOfContract
<1>0. UNCHANGED <<current, snapshot, logs>> /\ SavedWrites' = SavedWrites
  BY LoadsAlone DEF SavedWrites
<1>1. CASE StartFromScratch
  <2>1. current = 0 /\ Begins(<<>>)
    BY <1>1, StartBegins DEF StartFromScratch
  <2>2. starts \in 0 .. starts
    BY DEF Shape, CounterShape
  <2>3. timeline'[starts'] = <<>> /\ upload' = upload /\ upload.pc = "idle"
    BY <2>1, <2>2, EmptyContent, StartKeeps
  <2>4. SavedWrites = {} /\ WritesOf(<<>>) = {}
    BY <2>1, EmptyContent DEF SavedWrites
  <2> QED BY <1>0, <2>3, <2>4 DEF SavedIsOfStore, StepOfContract, InitialIn
<1>2. CASE StartFromDisk
  <2>1. Begins(timeline[starts])
    BY <1>2, StartBegins
  <2>2. starts \in 0 .. starts
    BY DEF Shape, CounterShape
  <2>3. timeline'[starts'] = timeline[starts] /\ upload' = upload /\ upload.pc = "idle"
    BY <2>1, <2>2, StartKeeps DEF UploadInv, Timelines
  <2> QED BY <1>0, <2>3 DEF SavedIsOfStore, StepOfContract
<1>3. CASE StartFromRemote
  <2>1. current # 0 /\ Begins(Begun(snapshot[current].of, Loaded))
    BY <1>3, StartBegins DEF StartFromRemote
  <2>2. /\ snapshot[current].of \in 0 .. starts
        /\ WritesOf(Begun(snapshot[current].of, Loaded))
             \subseteq WritesOf(timeline[snapshot[current].of])
        /\ Increasing(Begun(snapshot[current].of, Loaded))
    BY <2>1, BegunPart DEF UploadInv
  <2>3. /\ timeline'[starts'] = Begun(snapshot[current].of, Loaded)
        /\ upload' = upload /\ upload.pc = "idle"
    BY <2>1, <2>2, StartKeeps
  <2>4. WritesOf(Begun(snapshot[current].of, Loaded)) = SavedWrites
    <3>1. UploadInv' /\ process'.phase = "fetching"
      BY <1>3, <2>1, FetchKeeps DEF StartFromRemote
    <3>2. WritesOf(timeline'[starts']) = SavedOf(snapshot'[current'], logs'[current'])
      BY <3>1 DEF UploadInv, StoreIsTimeline
    <3> QED BY <1>0, <2>1, <2>3, <3>2 DEF SavedWrites
  <2> QED BY <1>0, <2>3, <2>4 DEF SavedIsOfStore, StepOfContract, InitialIn
<1>4. CASE OpenFetched \/ LoadDone \/ \E n \in process.todo : ReplayLog(n)
  <2>1. UNCHANGED <<timeline, starts, upload>>
    BY <1>4 DEF OpenFetched, LoadDone, ReplayLog, Open
  <2> QED BY <1>0, <2>1, NothingSaved DEF SavedIsOfStore
<1> QED BY <1>1, <1>2, <1>3, <1>4 DEF Load

\* The loop: what is saved grows with a log and when the pointer is written.
LEMMA LoopSteps ==
  ASSUME Losses, Shape, InFlight, UploadInv, NotStopped, SavedIsOfStore,
         \/ Advance \/ UploadLog \/ SkipCheckpoint \/ BeginCheckpoint
         \/ UploadFiles \/ WriteCurrent \/ FinishCheckpoint
  PROVE  SavedIsOfStore' /\ StepOfContract
<1>0. upload \in [pc : Steps, from : Nat, to : Nat, entries : Content]
  BY DEF Shape, UploadShape
<1>1. CASE CollectLog
  <2>1. upload'.pc \in {"log", "logged"}
    BY <1>1 DEF CollectLog, Go, NoUpload
  <2> QED BY <1>1, <2>1, NothingSaved DEF CollectLog, remote
<1>2. CASE CreateCheckpoint
  <2>1. process.phase = "running" /\ upload'.entries = db
    BY <1>2 DEF CreateCheckpoint, At
  <2>2. WritesOf(db) = WritesOf(timeline[starts])
    BY <2>1, StoreFacts DEF UploadInv
  <2>3. SavedWrites \subseteq WritesOf(db)
    BY <2>2 DEF SavedIsOfStore, InitialIn
  <2>4. UNCHANGED <<current, snapshot, logs, timeline, starts>>
    BY <1>2 DEF CreateCheckpoint, remote
  <2> QED BY <2>1, <2>3, <2>4, NothingSaved
<1>3. CASE UploadLog
  <2>1. /\ upload.pc = "log" /\ upload'.pc = "logged"
        /\ UNCHANGED <<snapshot, timeline, starts, db, current>>
    BY <1>3 DEF UploadLog, At, Go, NoUpload, local
  <2>2. CASE snapshotUploaded
    <3>1. PICK log : log = [readable |-> TRUE, entries |-> upload.entries] /\ PutLog(log)
      BY <1>3, <2>2 DEF UploadLog
    <3> QED BY <2>1, <2>2, <3>1, LogIsSaved
  <2>3. CASE ~snapshotUploaded
    <3>1. UNCHANGED logs
      BY <1>3, <2>3 DEF UploadLog
    <3> QED BY <2>1, <3>1, NothingSaved
  <2> QED BY <2>2, <2>3
<1>4. CASE SkipCheckpoint \/ BeginCheckpoint
  <2>1. upload'.pc \in {"idle", "checkpoint"}
    BY <1>4 DEF SkipCheckpoint, BeginCheckpoint, Go, NoUpload
  <2>2. UNCHANGED <<current, snapshot, logs, timeline, starts>>
    BY <1>4 DEF SkipCheckpoint, BeginCheckpoint, remote
  <2> QED BY <2>1, <2>2, NothingSaved
<1>5. CASE UploadFiles
  <2>1. /\ upload.pc = "files" /\ upload'.entries = upload.entries /\ PutFiles("complete")
        /\ UNCHANGED <<current, logs, timeline, starts>>
    BY <1>0, <1>5 DEF UploadFiles, At
  <2>2. current # lastCheckpointTime
    BY <2>1 DEF InFlight, Uploading
  <2>3. current # 0 => snapshot'[current] = snapshot[current]
    <3>1. current # 0 => current \in DOMAIN snapshot
      BY CurrentIsTime DEF Shape, SnapshotShape
    <3> QED BY <2>1, <2>2, <3>1 DEF PutFiles
  <2>4. SavedWrites' = SavedWrites
    BY <2>1, <2>3 DEF SavedWrites
  <2> QED BY <2>1, <2>4 DEF SavedIsOfStore, StepOfContract
<1>6. CASE WriteCurrent
  <2>1. /\ upload.pc = "pointer" /\ upload'.pc = "cleanup" /\ current' = lastCheckpointTime
        /\ UNCHANGED <<snapshot, logs, timeline, starts>>
    BY <1>0, <1>6 DEF WriteCurrent, At
  <2>2. /\ clock \in Times /\ clock # 0 /\ lastCheckpointTime = clock
        /\ snapshot[clock].of = starts
        /\ SavedOf(snapshot[clock], logs[clock]) = WritesOf(upload.entries)
    BY <2>1, CheckpointHas
  <2>3. SavedWrites' = SavedOf(snapshot[clock], logs[clock])
    BY <2>1, <2>2 DEF SavedWrites
  <2>4. SavedWrites \subseteq SavedWrites'
    BY <2>1, <2>2, <2>3 DEF SavedIsOfStore
  <2>5. InitialIn(SavedWrites', timeline[starts])
    BY <2>2, <2>3 DEF UploadInv, RemoteIsSound
  <2> QED BY <2>1, <2>4, <2>5 DEF SavedIsOfStore, StepOfContract
<1>7. CASE FinishCheckpoint
  <2>1. /\ upload.pc = "cleanup" /\ upload'.pc = "idle"
        /\ UNCHANGED <<current, timeline, starts>>
    BY <1>7 DEF FinishCheckpoint, At, Go, NoUpload
  <2>2. OldDeleted
    <3>1. PICK cutoff \in 0 .. clock + 1 : Delete(Old(cutoff))
      BY <1>7 DEF FinishCheckpoint
    <3>2. cutoff \in Nat
      OBVIOUS
    <3> QED BY <2>1, <3>1, <3>2 DEF OldDeleted
  <2>3. SavedWrites' = SavedWrites
    BY <2>1, <2>2, DeleteLeavesCurrent DEF SavedWrites
  <2> QED BY <2>1, <2>3 DEF SavedIsOfStore, StepOfContract
<1> QED BY <1>1, <1>2, <1>3, <1>4, <1>5, <1>6, <1>7 DEF Advance

\* Every step is one of the contract.
LEMMA SavedSteps ==
  ASSUME Losses, "rewind" \notin Faults,
         Shape, InFlight, UploadInv, NotStopped, SavedIsOfStore, [Next]_vars
  PROVE  SavedIsOfStore' /\ StepOfContract
<1>1. CASE Load
  BY <1>1, StartSteps
<1>2. CASE Die
  <2>1. /\ upload'.pc = "idle" /\ UNCHANGED <<db, current, timeline, starts>>
    BY <1>2 DEF Die, NoUpload
  <2>2. \/ UNCHANGED <<logs, snapshot>>
        \/ upload.pc = "log" /\ snapshotUploaded /\ PutLog(Torn) /\ UNCHANGED snapshot
        \/ upload.pc = "files" /\ PutFiles("partial") /\ UNCHANGED logs
    BY <1>2 DEF Die
  <2>3. CASE UNCHANGED <<logs, snapshot>>
    BY <2>1, <2>3, NothingSaved
  <2>4. CASE upload.pc = "log" /\ snapshotUploaded /\ PutLog(Torn) /\ UNCHANGED snapshot
    BY <2>1, <2>4, LogIsSaved
  <2>5. CASE upload.pc = "files" /\ PutFiles("partial") /\ UNCHANGED logs
    <3>1. current # lastCheckpointTime
      BY <2>5 DEF InFlight, Uploading
    <3>2. current # 0 => snapshot'[current] = snapshot[current]
      <4>1. current # 0 => current \in DOMAIN snapshot
        BY CurrentIsTime DEF Shape, SnapshotShape
      <4> QED BY <2>5, <3>1, <4>1 DEF PutFiles
    <3>3. SavedWrites' = SavedWrites
      BY <2>1, <2>5, <3>2 DEF SavedWrites
    <3> QED BY <2>1, <3>3 DEF SavedIsOfStore, StepOfContract
  <2> QED BY <2>2, <2>3, <2>4, <2>5
<1>3. CASE (\E key \in Keys : Write(key)) \/ Truncate
  <2>1. PICK w \in Ops : /\ Commit(w) /\ w.id = written + 1 /\ written \in Nat
                         /\ "truncate" \notin Faults => w.op = "put"
    BY <1>3, WriteIsCommit
  <2>2. /\ starts' = starts /\ timeline[starts] \in Content
        /\ timeline'[starts] = Append(timeline[starts], w)
        /\ \A v \in WritesOf(timeline[starts]) : v.id < w.id
    BY <2>1, CommitTimelines DEF UploadInv
  <2>3. UNCHANGED <<current, snapshot, logs, upload>> /\ SavedWrites' = SavedWrites
    BY <2>1 DEF Commit, remote, SavedWrites
  <2>4. InitialIn(SavedWrites, Append(timeline[starts], w))
    BY <2>2, InitialGrows DEF SavedIsOfStore
  <2> QED BY <2>2, <2>3, <2>4 DEF SavedIsOfStore, StepOfContract
<1>4. CASE \/ Advance \/ UploadLog \/ SkipCheckpoint \/ BeginCheckpoint
           \/ UploadFiles \/ WriteCurrent \/ FinishCheckpoint
  BY <1>4, LoopSteps
<1>5. ~(UploadLogFails \/ CheckpointFails)
  BY DEF Losses, UploadLogFails, CheckpointFails
<1>6. ~\E t \in Times : SetCurrentSnapshot(t)
  BY DEF SetCurrentSnapshot
<1>7. CASE UNCHANGED vars
  BY <1>7, NothingSaved DEF vars, remote, SavedIsOfStore
<1> QED BY <1>1, <1>2, <1>3, <1>4, <1>5, <1>6, <1>7 DEF Next

\* Two histories with what is saved of each: the contract allows every step
\* that keeps the history and saves no less, adds a write, or goes back to what
\* is saved.
LEMMA StepIsAllowed ==
  ASSUME NEW h \in Content, NEW n \in 0 .. Len(h), NEW g \in Content, NEW m \in 0 .. Len(g),
         Increasing(h), Increasing(g)
  PROVE  /\ /\ g = h
            /\ WritesOf(SubSeq(h, 1, n)) \subseteq WritesOf(SubSeq(h, 1, m))
            => m \in n .. Len(h)
         /\ \A w \in Ops : /\ g = Append(h, w)
                           /\ WritesOf(SubSeq(g, 1, m)) = WritesOf(SubSeq(h, 1, n))
                           => m = n
         /\ /\ WritesOf(g) = WritesOf(SubSeq(h, 1, n))
            /\ WritesOf(SubSeq(g, 1, m)) = WritesOf(SubSeq(h, 1, n))
            => g = SubSeq(h, 1, n) /\ m = n
<1>0. Len(h) \in Nat /\ Len(g) \in Nat /\ n \in Nat /\ m \in Nat
  BY ContentFacts
<1>1. ASSUME g = h, WritesOf(SubSeq(h, 1, n)) \subseteq WritesOf(SubSeq(h, 1, m))
      PROVE  m \in n .. Len(h)
  <2>1. n <= m
    BY <1>1, LongerPrefix
  <2> QED BY <1>0, <1>1, <2>1
<1>2. ASSUME NEW w \in Ops, g = Append(h, w),
             WritesOf(SubSeq(g, 1, m)) = WritesOf(SubSeq(h, 1, n))
      PROVE  m = n
  <2>1. Len(g) = Len(h) + 1 /\ n \in 0 .. Len(g)
    BY <1>0, <1>2 DEF Content
  <2>2. WritesOf(SubSeq(g, 1, n)) = Batch(g, 1, n) /\ WritesOf(SubSeq(h, 1, n)) = Batch(h, 1, n)
    <3>1. WritesOf(SubSeq(g, 1, n)) = {g[i] : i \in 1 .. n}
      BY <2>1, SubSeqFacts
    <3>2. WritesOf(SubSeq(h, 1, n)) = {h[i] : i \in 1 .. n}
      BY SubSeqFacts
    <3> QED BY <3>1, <3>2 DEF Batch
  <2>3. Batch(Append(h, w), 1, n) = Batch(h, 1, n)
    BY BatchGrows
  <2>4. WritesOf(SubSeq(g, 1, n)) = WritesOf(SubSeq(g, 1, m))
    BY <1>2, <2>2, <2>3
  <2>5. n <= m /\ m <= n
    BY <2>1, <2>4, LongerPrefix
  <2> QED BY <1>0, <2>5
<1>3. ASSUME WritesOf(g) = WritesOf(SubSeq(h, 1, n)),
             WritesOf(SubSeq(g, 1, m)) = WritesOf(SubSeq(h, 1, n))
      PROVE  g = SubSeq(h, 1, n) /\ m = n
  <2>1. SubSeq(h, 1, n) \in Content /\ Increasing(SubSeq(h, 1, n))
    BY SubSeqFacts
  <2>2. g = SubSeq(h, 1, n)
    BY <1>3, <2>1, SameWritesSameHistory
  <2>3. Len(g) = n
    BY <1>0, <2>2 DEF Content
  <2>4. n \in 0 .. Len(g)
    BY <1>0, <2>3
  <2>5. WritesOf(SubSeq(g, 1, n)) = WritesOf(g)
    <3>1. WritesOf(SubSeq(g, 1, n)) = {g[i] : i \in 1 .. n}
      BY <2>4, SubSeqFacts
    <3>2. DOMAIN g = 1 .. n
      BY <2>3, ContentFacts
    <3> QED BY <3>1, <3>2 DEF WritesOf
  <2>6. n <= m /\ m <= n
    BY <1>3, <2>4, <2>5, LongerPrefix
  <2> QED BY <1>0, <2>2, <2>6
<1> QED BY <1>1, <1>2, <1>3

\* The store implements its contract: what a process without local files would
\* find is a prefix of the writes of the store, it only grows, and such a
\* process continues from it (RocksStore::load_from_remote, run_upload).
THEOREM StoreImplementsContract ==
  ASSUME Losses, "rewind" \notin Faults
  PROVE  Spec => ContractHolds
<1> DEFINE I == Shape /\ InFlight /\ UploadInv /\ NotStopped /\ SavedIsOfStore
<1>1. Init => I
  <2>1. ASSUME Init PROVE NotStopped /\ SavedIsOfStore
    <3>1. /\ current = 0 /\ upload.pc = "idle" /\ ~uploadStopped
          /\ timeline[starts] = <<>>
      BY <2>1, StoreAssumption DEF Init, NoUpload
    <3>2. SavedWrites = {}
      BY <3>1 DEF SavedWrites
    <3> QED BY <3>1, <3>2 DEF NotStopped, SavedIsOfStore, InitialIn
  <2> QED BY <2>1, ShapeInit, InFlightInit, UploadInvInit
<1>2. I /\ [Next]_vars => I'
  BY ShapeStep, InFlightStep, UploadInvStep, NotStoppedStep, SavedSteps
<1>3. I => SavedCounts
  BY SavedIsCounted
<1>4. I /\ [Next]_vars => StepOfContract
  BY SavedSteps
<1>5. Init /\ SavedCounts => Contract!Init
  <2>1. ASSUME Init, SavedCounts PROVE timeline[starts] = <<>> /\ Saved = 0
    <3>1. timeline[starts] = <<>>
      BY <2>1, StoreAssumption DEF Init
    <3>2. Saved \in 0 .. 0
      BY <2>1, <3>1, EmptyContent DEF SavedCounts
    <3> QED BY <3>1, <3>2
  <2> QED BY <2>1 DEF Contract!Init
<1>6. SavedCounts /\ SavedCounts' /\ StepOfContract => [Contract!Next]_<<timeline[starts], Saved>>
  <2> SUFFICES ASSUME SavedCounts, SavedCounts', StepOfContract PROVE Contract!Next
    OBVIOUS
  <2>1. PICK h : h = timeline[starts]
    OBVIOUS
  <2>2. PICK g : g = timeline'[starts']
    OBVIOUS
  <2>3. PICK n : n = Saved
    OBVIOUS
  <2>4. PICK m : m = Saved'
    OBVIOUS
  <2>5. /\ h \in Content /\ n \in 0 .. Len(h) /\ Increasing(h)
        /\ SavedWrites = WritesOf(SubSeq(h, 1, n))
    BY <2>1, <2>3 DEF SavedCounts
  <2>6. /\ g \in Content /\ m \in 0 .. Len(g) /\ Increasing(g)
        /\ SavedWrites' = WritesOf(SubSeq(g, 1, m))
    BY <2>2, <2>4 DEF SavedCounts
  <2>7. CASE g = h /\ SavedWrites \subseteq SavedWrites'
    <3>1. m \in n .. Len(h)
      BY <2>5, <2>6, <2>7, StepIsAllowed
    <3>2. Contract!Save
      BY <2>1, <2>2, <2>3, <2>4, <2>7, <3>1 DEF Contract!Save
    <3> QED BY <3>2 DEF Contract!Next
  <2>8. CASE (\E w \in Ops : g = Append(h, w)) /\ SavedWrites' = SavedWrites
    <3>1. PICK w \in Ops : g = Append(h, w)
      BY <2>8
    <3>2. m = n
      BY <2>5, <2>6, <2>8, <3>1, StepIsAllowed
    <3>3. Contract!Write
      BY <2>1, <2>2, <2>3, <2>4, <3>1, <3>2 DEF Contract!Write
    <3> QED BY <3>3 DEF Contract!Next
  <2>9. CASE WritesOf(g) = SavedWrites /\ SavedWrites' = SavedWrites
    <3>1. g = SubSeq(h, 1, n) /\ m = n
      BY <2>5, <2>6, <2>9, StepIsAllowed
    <3>2. Contract!Recover
      BY <2>1, <2>2, <2>3, <2>4, <3>1 DEF Contract!Recover
    <3> QED BY <3>2 DEF Contract!Next
  <2> QED BY <2>1, <2>2, <2>7, <2>8, <2>9 DEF StepOfContract
<1> QED BY <1>1, <1>2, <1>3, <1>4, <1>5, <1>6, PTL DEF Spec, ContractHolds, Contract!Spec

-----------------------------------------------------------------------------
(* Truncates, without logs.  Whatever fails, a check point has the writes   *)
(* that the store had since it was opened, and no gap among them.           *)

\* W has no gap in the history; W has all of the history since some write.
ConvexIn(W, history) ==
  /\ W \subseteq WritesOf(history)
  /\ \A u \in W, w \in W : \A v \in WritesOf(history) :
       u.id <= v.id /\ v.id <= w.id => v \in W

LateIn(W, history) ==
  /\ W \subseteq WritesOf(history)
  /\ \A u \in W : \A v \in WritesOf(history) : u.id <= v.id => v \in W

NoLogs == upload.pc # "log" /\ \A t \in Times : DOMAIN logs[t] = {}

\* Every check point is a part of the writes of its process without gaps.
RemoteIsConvex ==
  \A t \in Times : /\ Ordered(snapshot[t].db)
                   /\ ConvexIn(WritesOf(snapshot[t].db), timeline[snapshot[t].of])

UploadIsConvex ==
  upload.pc \in {"files", "pointer", "cleanup"} =>
    Ordered(upload.entries) /\ ConvexIn(WritesOf(upload.entries), timeline[starts])

\* The store has the latest writes of the history, if not all: a load that was
\* interrupted leaves a directory that is opened as an empty store.
StoreIsLate ==
  /\ \/ process.phase \in {"running", "replaying"}
     \/ process.phase = "down" /\ disk = "store"
     => Ordered(db) /\ LateIn(WritesOf(db), timeline[starts])
  /\ process.phase = "fetching" =>
       disk = "partial" /\ LateIn(WritesOf(snapshot[current].db), timeline[starts])

ConvexInv == Timelines /\ NoLogs /\ RemoteIsConvex /\ UploadIsConvex /\ StoreIsLate

\* What has all writes since some has no gap.
LEMMA LateIsConvex ==
  ASSUME NEW W, NEW h, LateIn(W, h)
  PROVE  ConvexIn(W, h)
  BY DEF LateIn, ConvexIn

\* A later write is added to the history alone, or to both.
LEMMA PartsGrow ==
  ASSUME NEW h \in Content, NEW w \in Ops, \A v \in WritesOf(h) : v.id < w.id, NEW W
  PROVE  /\ ConvexIn(W, h) => ConvexIn(W, Append(h, w))
         /\ LateIn(W, h) => LateIn(W \cup {w}, Append(h, w))
<1>1. WritesOf(Append(h, w)) = WritesOf(h) \cup {w}
  BY AppendFacts
<1>2. w.id \in Nat /\ \A v \in WritesOf(h) : v.id \in Nat /\ ~(w.id <= v.id)
  <2>1. \A v \in WritesOf(h) : v \in Ops
    BY ContentFacts
  <2> QED BY <2>1, IdsAreNumbers
<1>3. ASSUME ConvexIn(W, h) PROVE ConvexIn(W, Append(h, w))
  <2>1. \A u \in W : u \in WritesOf(h)
    BY <1>3 DEF ConvexIn
  <2>2. ASSUME NEW u \in W, NEW x \in W, NEW v \in WritesOf(h) \cup {w},
               u.id <= v.id, v.id <= x.id
        PROVE  v \in W
    <3>1. v # w
      BY <1>2, <2>1, <2>2
    <3> QED BY <1>3, <2>2, <3>1 DEF ConvexIn
  <2> QED BY <1>1, <2>1, <2>2 DEF ConvexIn
<1>4. ASSUME LateIn(W, h) PROVE LateIn(W \cup {w}, Append(h, w))
  <2>1. ASSUME NEW u \in W \cup {w}, NEW v \in WritesOf(h) \cup {w}, u.id <= v.id
        PROVE  v \in W \cup {w}
    <3>1. CASE v = w
      BY <3>1
    <3>2. CASE v # w
      <4>1. u # w
        BY <1>2, <2>1, <3>2
      <4> QED BY <1>4, <2>1, <3>2, <4>1 DEF LateIn
    <3> QED BY <3>1, <3>2
  <2> QED BY <1>1, <1>4, <2>1 DEF LateIn
<1> QED BY <1>3, <1>4

\* A part without gaps is late in the history up to its last write.
LEMMA ConvexIsLateBefore ==
  ASSUME NEW W, NEW h, NEW g, ConvexIn(W, h), \A w \in W : w.id <= w.id,
         WritesOf(g) = {v \in WritesOf(h) : \E w \in W : v.id <= w.id}
  PROVE  LateIn(W, g)
  BY DEF ConvexIn, LateIn

\* Logs are not collected, so there are none.
LEMMA NoLogsStep ==
  ASSUME ~LogEnabled, Shape, NoLogs, [Next]_vars
  PROVE  NoLogs'
<1>0. upload \in [pc : Steps, from : Nat, to : Nat, entries : Content]
  BY DEF Shape, UploadShape
<1>1. upload'.pc # "log"
  <2>1. Load => upload'.pc # "log"
    BY DEF Load, StartFromScratch, StartFromDisk, StartFromRemote, OpenFetched, ReplayLog,
           LoadDone, Open, NoLogs
  <2>2. (\E key \in Keys : Write(key)) \/ Truncate \/ Die => upload'.pc # "log"
    <3>1. Die => upload'.pc # "log"
      BY DEF Die, NoUpload
    <3>2. (\E key \in Keys : Write(key)) \/ Truncate => upload' = upload
      BY DEF Write, Truncate, Commit
    <3> QED BY <3>1, <3>2 DEF NoLogs
  <2>3. Advance => upload'.pc # "log"
    BY DEF Advance, CollectLog, CreateCheckpoint, Go, NoUpload
  <2>4. SkipCheckpoint \/ BeginCheckpoint \/ UploadLog \/ UploadLogFails => upload'.pc # "log"
    BY DEF SkipCheckpoint, BeginCheckpoint, UploadLog, UploadLogFails, Go, NoUpload
  <2>5. UploadFiles \/ WriteCurrent => upload'.pc # "log"
    BY <1>0 DEF UploadFiles, WriteCurrent
  <2>6. FinishCheckpoint \/ CheckpointFails => upload'.pc # "log"
    BY DEF FinishCheckpoint, CheckpointFails, Go, NoUpload
  <2>7. (\E t \in Times : SetCurrentSnapshot(t)) \/ UNCHANGED vars => upload'.pc # "log"
    BY DEF SetCurrentSnapshot, vars, NoLogs
  <2> QED BY <2>1, <2>2, <2>3, <2>4, <2>5, <2>6, <2>7 DEF Next
<1>2. \A t \in Times : DOMAIN logs'[t] = {}
  <2>1. UNCHANGED logs \/ OldDeleted
    BY RemoteSteps DEF LogPut, NoLogs
  <2>2. ASSUME NEW times, Delete(times), NEW t \in Times PROVE DOMAIN logs'[t] = {}
    BY <2>2 DEF Delete, NoLogs
  <2> QED BY <2>1, <2>2 DEF OldDeleted, NoLogs
<1> QED BY <1>1, <1>2 DEF NoLogs

\* The history of a process is fixed but for the writes it adds: what has no
\* gaps in it has none afterwards.
LEMMA PartsStayConvex ==
  ASSUME Shape, Timelines, [Next]_vars, NEW n \in 0 .. starts, NEW W, ConvexIn(W, timeline[n])
  PROVE  ConvexIn(W, timeline'[n])
<1>1. ASSUME NEW begun, Begins(begun) PROVE timeline'[n] = timeline[n]
  <2>1. starts \in Nat /\ starts < MaxStarts /\ MaxStarts \in Nat
        /\ timeline \in [0 .. MaxStarts -> Content]
    BY <1>1, StoreAssumption DEF Shape, CounterShape, Begins
  <2> QED BY <1>1, <2>1 DEF Begins
<1>2. ASSUME NEW w \in Ops, Commit(w), w.id = written + 1, written \in Nat,
             "truncate" \notin Faults => w.op = "put"
      PROVE  ConvexIn(W, timeline'[n])
  <2>1. /\ timeline[starts] \in Content
        /\ timeline'[starts] = Append(timeline[starts], w)
        /\ n # starts => timeline'[n] = timeline[n]
        /\ \A v \in WritesOf(timeline[starts]) : v.id < w.id
    BY <1>2, CommitTimelines
  <2>2. CASE n = starts
    BY <2>1, <2>2, PartsGrow
  <2> QED BY <2>1, <2>2
<1>3. \/ timeline' = timeline
      \/ \E begun : Begins(begun)
      \/ \E w \in Ops : /\ Commit(w) /\ w.id = written + 1 /\ written \in Nat
                        /\ "truncate" \notin Faults => w.op = "put"
  BY HistorySteps
<1> QED BY <1>1, <1>2, <1>3

\* The upload in flight: the check point that is created is the store.
LEMMA UploadConvexStep ==
  ASSUME Shape, ConvexInv, [Next]_vars
  PROVE  UploadIsConvex'
<1>0. /\ upload \in [pc : Steps, from : Nat, to : Nat, entries : Content]
      /\ starts \in 0 .. starts
  BY DEF Shape, UploadShape, CounterShape
<1>1. CASE UNCHANGED <<upload, starts>> \/ UploadFiles \/ WriteCurrent
  <2>1. /\ upload'.entries = upload.entries /\ starts' = starts
        /\ upload'.pc \in {"files", "pointer", "cleanup"}
             => upload.pc \in {"files", "pointer", "cleanup"}
    BY <1>0, <1>1 DEF UploadFiles, WriteCurrent, At
  <2>2. ConvexIn(WritesOf(upload.entries), timeline[starts])
          => ConvexIn(WritesOf(upload.entries), timeline'[starts])
    BY <1>0, PartsStayConvex DEF ConvexInv
  <2> QED BY <2>1, <2>2 DEF ConvexInv, UploadIsConvex
<1>2. CASE CreateCheckpoint
  <2>1. /\ process.phase = "running" /\ upload'.entries = db
        /\ UNCHANGED <<timeline, starts>>
    BY <1>2 DEF CreateCheckpoint, At
  <2>2. Ordered(db) /\ ConvexIn(WritesOf(db), timeline[starts])
    BY <2>1, LateIsConvex DEF ConvexInv, StoreIsLate
  <2> QED BY <2>1, <2>2 DEF UploadIsConvex
<1>3. CASE upload'.pc \notin {"files", "pointer", "cleanup"}
  BY <1>3 DEF UploadIsConvex
<1>4. CASE Load
  <2>1. CASE upload.pc = "idle"
    <3>1. upload' = upload
      BY <1>4 DEF Load, StartFromScratch, StartFromDisk, StartFromRemote, OpenFetched,
                  ReplayLog, LoadDone, Open
    <3> QED BY <1>3, <2>1, <3>1
  <2>2. CASE upload.pc # "idle"
    <3>1. process.phase = "running"
      BY <2>2, UploadsRun
    <3> QED BY <1>4, <3>1 DEF Load, StartFromScratch, StartFromDisk, StartFromRemote,
                              OpenFetched, ReplayLog, LoadDone
  <2> QED BY <2>1, <2>2
<1>5. CASE Die \/ (\E key \in Keys : Write(key)) \/ Truncate
  <2>1. Die => upload'.pc = "idle"
    BY DEF Die, NoUpload
  <2>2. (\E key \in Keys : Write(key)) \/ Truncate => UNCHANGED <<upload, starts>>
    BY DEF Write, Truncate, Commit
  <2> QED BY <1>1, <1>3, <1>5, <2>1, <2>2
<1>6. CASE CollectLog \/ SkipCheckpoint \/ BeginCheckpoint \/ UploadLog \/ UploadLogFails
  <2>1. upload'.pc \notin {"files", "pointer", "cleanup"}
    BY <1>6 DEF CollectLog, SkipCheckpoint, BeginCheckpoint, UploadLog, UploadLogFails, Go,
                NoUpload
  <2> QED BY <1>3, <2>1
<1>7. CASE FinishCheckpoint \/ CheckpointFails
  <2>1. upload'.pc \notin {"files", "pointer", "cleanup"}
    BY <1>7 DEF FinishCheckpoint, CheckpointFails, Go, NoUpload
  <2> QED BY <1>3, <2>1
<1>8. CASE (\E t \in Times : SetCurrentSnapshot(t)) \/ UNCHANGED vars
  BY <1>1, <1>8 DEF SetCurrentSnapshot, vars
<1> QED BY <1>1, <1>2, <1>4, <1>5, <1>6, <1>7, <1>8 DEF Next, Advance

\* The remote file system: the files that are put there are those of the upload.
LEMMA RemoteConvexStep ==
  ASSUME Shape, ConvexInv, [Next]_vars
  PROVE  RemoteIsConvex'
<1>0. /\ \A t \in Times : snapshot[t].of \in 0 .. starts
      /\ snapshot \in [Times -> [files : {"absent", "partial", "complete"},
                                 db : Content, of : 0 .. starts]]
      /\ starts \in 0 .. starts
  BY DEF Shape, SnapshotShape, CounterShape
<1>1. ASSUME NEW t \in Times
      PROVE  Ordered(snapshot[t].db)
             /\ ConvexIn(WritesOf(snapshot[t].db), timeline'[snapshot[t].of])
  BY <1>0, PartsStayConvex DEF ConvexInv, RemoteIsConvex
<1>2. CASE UNCHANGED snapshot
  BY <1>1, <1>2 DEF RemoteIsConvex
<1>3. CASE FilesPut
  <2>1. PICK f : PutFiles(f)
    BY <1>3 DEF FilesPut
  <2>2. /\ Ordered(upload.entries)
        /\ ConvexIn(WritesOf(upload.entries), timeline[starts])
    BY <1>3 DEF FilesPut, ConvexInv, UploadIsConvex
  <2>3. ConvexIn(WritesOf(upload.entries), timeline'[starts])
    BY <1>0, <2>2, PartsStayConvex DEF ConvexInv
  <2>4. ASSUME NEW t \in Times
        PROVE  \/ snapshot'[t] = snapshot[t]
               \/ snapshot'[t] = [files |-> f, db |-> upload.entries, of |-> starts]
    BY <1>0, <2>1 DEF PutFiles
  <2>5. ASSUME NEW t \in Times
        PROVE  Ordered(snapshot'[t].db)
               /\ ConvexIn(WritesOf(snapshot'[t].db), timeline'[snapshot'[t].of])
    <3>1. CASE snapshot'[t] = snapshot[t]
      BY <1>1, <3>1
    <3>2. CASE snapshot'[t] = [files |-> f, db |-> upload.entries, of |-> starts]
      BY <2>2, <2>3, <3>2
    <3> QED BY <2>4, <3>1, <3>2
  <2> QED BY <2>5 DEF RemoteIsConvex
<1>4. CASE OldDeleted
  <2>1. PICK times : Delete(times)
    BY <1>4 DEF OldDeleted
  <2>2. ASSUME NEW t \in Times
        PROVE  Ordered(snapshot'[t].db)
               /\ ConvexIn(WritesOf(snapshot'[t].db), timeline'[snapshot'[t].of])
    <3>1. CASE t \in times
      <4>1. snapshot'[t].db = <<>>
        BY <2>1, <3>1 DEF Delete, NoFiles
      <4> QED BY <4>1, EmptyContent DEF ConvexIn
    <3>2. CASE t \notin times
      <4>1. snapshot'[t] = snapshot[t]
        BY <2>1, <3>2 DEF Delete
      <4> QED BY <1>1, <4>1
    <3> QED BY <3>1, <3>2
  <2> QED BY <2>2 DEF RemoteIsConvex
<1> QED BY <1>2, <1>3, <1>4, RemoteSteps

\* Without logs what is loaded is the current snapshot.
LEMMA LoadedWithoutLogs ==
  ASSUME Shape, NoLogs, current # 0
  PROVE  \A key \in Keys : Loaded[key] = LastOf(snapshot[current].db, key)
<1>1. current \in Times /\ DOMAIN logs[current] = {}
  BY CurrentIsTime DEF NoLogs
<1>2. Loaded = LoadedFrom(current)
  BY DEF Loaded
<1>3. \A key \in Keys : LoadedFrom(current)[key] = LastOf(snapshot[current].db, key)
  BY <1>1 DEF LoadedFrom
<1> QED BY <1>2, <1>3

\* A process that loads without its local files: what it loads is late in the
\* history that it begins with.
LEMMA FetchIsLate ==
  ASSUME Shape, ConvexInv, StartFromRemote, Begins(Begun(snapshot[current].of, Loaded))
  PROVE  LateIn(WritesOf(snapshot[current].db), timeline'[starts'])
<1>1. current \in Times /\ snapshot[current].of \in 0 .. starts /\ current # 0
  BY CurrentIsTime DEF StartFromRemote
<1>2. PICK of : of = snapshot[current].of
  OBVIOUS
<1>3. PICK c : c = snapshot[current].db
  OBVIOUS
<1>4. PICK rows : rows = Loaded
  OBVIOUS
<1>5. c \in Content /\ Ordered(c) /\ ConvexIn(WritesOf(c), timeline[of])
  BY <1>1, <1>2, <1>3 DEF Shape, SnapshotShape, ConvexInv, RemoteIsConvex
<1>6. of \in 0 .. starts /\ of \in 0 .. MaxStarts /\ Increasing(timeline[of])
  <2>1. starts \in Nat /\ MaxStarts \in Nat /\ starts <= MaxStarts
    BY StoreAssumption DEF Shape, CounterShape
  <2> QED BY <1>1, <1>2, <2>1 DEF ConvexInv, Timelines
<1>7. \A key \in Keys : rows[key] = LastOf(c, key)
  BY <1>1, <1>3, <1>4, LoadedWithoutLogs DEF ConvexInv
<1>8. \A key \in Keys : IsRow(WritesOf(c), key, rows[key])
  BY <1>5, <1>7, LastOfIsRow
<1>9. /\ WritesOf(Begun(of, rows))
           = {v \in WritesOf(timeline[of]) : \E w \in WritesOf(c) : v.id <= w.id}
      /\ Increasing(Begun(of, rows))
  BY <1>5, <1>6, <1>8, BegunReaches DEF ConvexIn
<1>10. \A w \in WritesOf(c) : w.id <= w.id
  BY <1>5, ContentFacts, IdsAreNumbers
<1>11. LateIn(WritesOf(c), Begun(of, rows))
  BY <1>5, <1>9, <1>10, ConvexIsLateBefore
<1>12. timeline'[starts'] = Begun(of, rows)
  <2>1. \E n \in 0 .. starts : WritesOf(Begun(of, rows)) \subseteq WritesOf(timeline[n])
    BY <1>6, <1>9
  <2> QED BY <1>2, <1>4, <1>9, <2>1, BeginsTimelines DEF ConvexInv
<1> QED BY <1>3, <1>11, <1>12

\* The store has the latest writes: it is opened with a check point without gaps,
\* or as an empty store, and then it gets every write.
LEMMA StoreLateStep ==
  ASSUME Shape, ConvexInv, [Next]_vars
  PROVE  StoreIsLate'
<1>0. starts \in 0 .. starts /\ StoreIsLate
  BY DEF Shape, CounterShape, ConvexInv
<1>1. ASSUME Ordered(db'), LateIn(WritesOf(db'), timeline'[starts']), process'.phase # "fetching"
      PROVE  StoreIsLate'
  BY <1>1 DEF StoreIsLate
<1>2. CASE UNCHANGED <<process, db, disk, snapshot, current, timeline, starts>>
  BY <1>0, <1>2 DEF StoreIsLate
<1>3. CASE StartFromScratch
  <2>1. db' = <<>> /\ process'.phase = "running"
    BY <1>3 DEF StartFromScratch, Open, Running
  <2> QED BY <1>1, <2>1, EmptyContent DEF LateIn
<1>4. CASE StartFromDisk
  <2>1. /\ process.phase = "down" /\ disk \in {"partial", "store"}
        /\ db' = (IF disk = "partial" THEN <<>> ELSE db)
        /\ process'.phase = "running"
    BY <1>4 DEF StartFromDisk, Open, Running, Shape, StoreShape
  <2>2. CASE disk = "partial"
    BY <1>1, <2>1, <2>2, EmptyContent DEF LateIn
  <2>3. CASE disk = "store"
    <3>1. db' = db /\ Ordered(db) /\ LateIn(WritesOf(db), timeline[starts])
      BY <1>0, <2>1, <2>3 DEF StoreIsLate
    <3>2. timeline'[starts'] = timeline[starts]
      BY <1>0, <1>4, StartBegins, BeginsTimelines DEF ConvexInv, Timelines
    <3> QED BY <1>1, <2>1, <3>1, <3>2
  <2> QED BY <2>1, <2>2, <2>3
<1>5. CASE StartFromRemote
  <2>1. LateIn(WritesOf(snapshot[current].db), timeline'[starts'])
    BY <1>5, StartBegins, FetchIsLate
  <2>2. /\ process'.phase = "fetching" /\ disk' = "partial"
        /\ UNCHANGED <<snapshot, current>>
    BY <1>5 DEF StartFromRemote, remote
  <2> QED BY <2>1, <2>2 DEF StoreIsLate
<1>6. CASE OpenFetched
  <2>1. /\ process.phase = "fetching" /\ process'.phase = "replaying"
        /\ db' = snapshot[current].db /\ UNCHANGED <<timeline, starts>>
    BY <1>6 DEF OpenFetched, Open
  <2>2. current \in Times
    BY <2>1, CurrentIsTime DEF Shape, ProcessShape
  <2>3. Ordered(db') /\ LateIn(WritesOf(db'), timeline[starts])
    BY <1>0, <2>1, <2>2 DEF StoreIsLate, ConvexInv, RemoteIsConvex
  <2> QED BY <1>1, <2>1, <2>3
<1>7. CASE \E n \in process.todo : ReplayLog(n)
  <2>1. process.phase = "replaying" /\ process.todo # {}
    BY <1>7 DEF ReplayLog
  <2>2. current \in Times /\ process.todo \subseteq DOMAIN logs[current]
    BY <2>1, CurrentIsTime DEF Shape, ProcessShape
  <2> QED BY <2>1, <2>2 DEF ConvexInv, NoLogs
<1>8. CASE LoadDone
  <2>1. /\ process.phase = "replaying" /\ process'.phase = "running"
        /\ UNCHANGED <<db, timeline, starts>>
    BY <1>8 DEF LoadDone, Running
  <2> QED BY <1>0, <1>1, <2>1 DEF StoreIsLate
<1>9. CASE Die
  <2>1. /\ process'.phase = "down" /\ UNCHANGED <<db, timeline, starts>>
        /\ disk' = "store" => disk = "store" /\ process.phase # "down"
    BY <1>9 DEF Die
  <2>2. disk' = "store" => Ordered(db) /\ LateIn(WritesOf(db), timeline[starts])
    BY <1>0, <2>1 DEF StoreIsLate, Shape, ProcessShape, Phases
  <2> QED BY <2>1, <2>2 DEF StoreIsLate
<1>10. CASE (\E key \in Keys : Write(key)) \/ Truncate
  <2>1. PICK w \in Ops : /\ Commit(w) /\ w.id = written + 1 /\ written \in Nat
                         /\ "truncate" \notin Faults => w.op = "put"
    BY <1>10, WriteIsCommit
  <2>2. /\ starts' = starts /\ timeline[starts] \in Content
        /\ timeline'[starts] = Append(timeline[starts], w)
        /\ \A v \in WritesOf(timeline[starts]) : v.id < w.id
    BY <2>1, CommitTimelines DEF ConvexInv
  <2>3. /\ process.phase = "running" /\ process' = process /\ db' = Append(db, w)
        /\ db \in Content
    BY <2>1 DEF Commit, Shape, StoreShape
  <2>4. Ordered(db) /\ LateIn(WritesOf(db), timeline[starts])
    BY <1>0, <2>3 DEF StoreIsLate
  <2>5. WritesOf(db') = WritesOf(db) \cup {w}
    BY <2>3, AppendFacts
  <2>6. LateIn(WritesOf(db'), timeline'[starts'])
    BY <2>2, <2>4, <2>5, PartsGrow
  <2>7. Ordered(db')
    <3>1. \A v \in WritesOf(db) : v.id <= w.id
      <4>1. \A v \in WritesOf(db) : v \in Ops /\ v.id < w.id
        BY <2>2, <2>3, <2>4, ContentFacts DEF LateIn
      <4> QED BY <4>1, IdsAreNumbers
    <3> QED BY <2>3, <2>4, <3>1, AppendOrder
  <2> QED BY <1>1, <2>3, <2>6, <2>7
<1>11. CASE process.phase = "running"
            /\ UNCHANGED <<process, db, disk, timeline, starts>>
  BY <1>0, <1>1, <1>11 DEF StoreIsLate
<1>12. CASE Advance \/ SkipCheckpoint \/ BeginCheckpoint \/ WriteCurrent
             \/ UploadLog \/ UploadLogFails
  BY <1>11, <1>12 DEF Advance, CollectLog, CreateCheckpoint, SkipCheckpoint, BeginCheckpoint,
                      WriteCurrent, UploadLog, UploadLogFails, At, local
<1>13. CASE UploadFiles \/ FinishCheckpoint \/ CheckpointFails
              \/ (\E t \in Times : SetCurrentSnapshot(t))
  BY <1>11, <1>13 DEF UploadFiles, FinishCheckpoint, CheckpointFails, SetCurrentSnapshot, At,
                      local
<1>14. CASE UNCHANGED vars
  BY <1>2, <1>14 DEF vars, local, remote
<1> QED BY <1>3, <1>4, <1>5, <1>6, <1>7, <1>8, <1>9, <1>10, <1>12, <1>13, <1>14 DEF Next, Load

\* The invariant holds in every behaviour of a store without logs.
LEMMA ConvexFlow ==
  ASSUME ~LogEnabled
  PROVE  Spec => [](Shape /\ ConvexInv)
<1>1. Init => Shape /\ ConvexInv
  <2>1. ASSUME Init PROVE ConvexInv
    <3>1. /\ \A t \in Times : snapshot[t].db = <<>> /\ logs[t] = <<>>
          /\ upload.pc = "idle" /\ process.phase = "down" /\ disk = "absent"
      BY <2>1 DEF Init, NoFiles, NoUpload
    <3>2. NoLogs
      BY <3>1 DEF NoLogs
    <3>3. RemoteIsConvex /\ UploadIsConvex /\ StoreIsLate
      BY <3>1, EmptyContent DEF RemoteIsConvex, ConvexIn, UploadIsConvex, StoreIsLate
    <3> QED BY <2>1, <3>2, <3>3, TimelinesInit DEF ConvexInv
  <2> QED BY <2>1, ShapeInit
<1>2. Shape /\ ConvexInv /\ [Next]_vars => (Shape /\ ConvexInv)'
  <2> SUFFICES ASSUME Shape, ConvexInv, [Next]_vars PROVE (Shape /\ ConvexInv)'
    OBVIOUS
  <2>1. Timelines'
    BY TimelinesStep DEF ConvexInv
  <2>2. NoLogs'
    BY NoLogsStep DEF ConvexInv
  <2>3. RemoteIsConvex' /\ UploadIsConvex' /\ StoreIsLate'
    BY RemoteConvexStep, UploadConvexStep, StoreLateStep
  <2> QED BY <2>1, <2>2, <2>3, ShapeStep DEF ConvexInv
<1> QED BY <1>1, <1>2, PTL DEF Spec

\* Without logs a truncate cannot be undone, whatever fails: no check point has
\* writes from before it and from after it without the truncate between them
\* (RocksTable::truncate, upload_check_point, load_from_remote).
THEOREM TruncatesAreFinal ==
  ASSUME ~LogEnabled
  PROVE  Spec => []TruncateIsFinal
<1>1. ASSUME Shape, ConvexInv PROVE TruncateIsFinal
  <2>1. PICK h : h = Acknowledged
    OBVIOUS
  <2>2. PICK rows : rows = Loaded
    OBVIOUS
  <2>3. PICK c \in Content : /\ Ordered(c) /\ ConvexIn(WritesOf(c), h)
                             /\ \A key \in Keys : rows[key] = LastOf(c, key)
    <3>1. CASE current = 0
      <4>1. rows = StateOf(<<>>)
        BY <2>2, <3>1 DEF Loaded
      <4>2. ConvexIn(WritesOf(<<>>), h)
        BY EmptyContent DEF ConvexIn
      <4> QED BY <4>1, <4>2, EmptyContent DEF StateOf
    <3>2. CASE current # 0
      <4>1. current \in Times /\ h = timeline[snapshot[current].of]
        BY <2>1, <3>2, CurrentIsTime, <1>1 DEF Acknowledged
      <4>2. /\ snapshot[current].db \in Content /\ Ordered(snapshot[current].db)
            /\ ConvexIn(WritesOf(snapshot[current].db), h)
        BY <1>1, <4>1 DEF Shape, SnapshotShape, ConvexInv, RemoteIsConvex
      <4>3. \A key \in Keys : rows[key] = LastOf(snapshot[current].db, key)
        BY <1>1, <2>2, <3>2, LoadedWithoutLogs DEF ConvexInv
      <4> QED BY <4>2, <4>3
    <3> QED BY <3>1, <3>2
  <2>4. /\ WritesOf(c) \subseteq Ops /\ \A w \in WritesOf(c) : w.id \in Nat
        /\ \A key \in Keys : IsRow(WritesOf(c), key, rows[key])
    BY <2>3, ContentFacts, IdsAreNumbers, LastOfIsRow
  <2>5. ASSUME NEW i \in DOMAIN h, h[i].op = "truncate",
               NEW later \in Keys, rows[later] > h[i].id,
               NEW key \in Keys
        PROVE  rows[key] \notin 1 .. h[i].id - 1
    <3> SUFFICES ASSUME rows[key] \in 1 .. h[i].id - 1 PROVE FALSE
      OBVIOUS
    <3>0. h[i].id \in Nat /\ h[i] \in WritesOf(h)
      <4>1. starts \in Nat /\ MaxStarts \in Nat /\ starts <= MaxStarts
        BY <1>1, StoreAssumption DEF Shape, CounterShape
      <4>2. h \in Content
        <5>1. CASE current = 0
          BY <1>1, <2>1, <4>1, <5>1 DEF Acknowledged, Shape, CounterShape
        <5>2. CASE current # 0
          BY <1>1, <2>1, <4>1, <5>2, CurrentIsTime DEF Acknowledged, Shape, CounterShape
        <5> QED BY <5>1, <5>2
      <4> QED BY <4>2, ContentFacts DEF WritesOf
    <3>1. rows[later] # 0 /\ rows[key] # 0
      BY <2>5, <3>0
    <3>2. PICK u \in WritesOf(c) : u.id = rows[later]
      BY <2>4, <3>1 DEF IsRow
    <3>3. PICK v \in WritesOf(c) : v.id = rows[key]
      BY <2>4, <3>1 DEF IsRow
    <3>4. v.id <= h[i].id /\ h[i].id <= u.id /\ ~(h[i].id <= v.id)
      BY <2>4, <2>5, <3>0, <3>2, <3>3
    <3>5. h[i] \in WritesOf(c)
      BY <2>3, <3>0, <3>4 DEF ConvexIn
    <3>6. Touches(h[i], key)
      BY <2>5 DEF Touches
    <3>7. h[i].id <= rows[key]
      BY <2>4, <3>5, <3>6 DEF IsRow
    <3> QED BY <3>3, <3>4, <3>7
  <2> QED BY <2>1, <2>2, <2>5 DEF TruncateIsFinal
<1> QED BY <1>1, ConvexFlow, PTL

-----------------------------------------------------------------------------
(* The store without logs: every check point is whole                      *)

RemoteIsInitial ==
  \A t \in Times : InitialIn(WritesOf(snapshot[t].db), timeline[snapshot[t].of])

UploadIsInitial ==
  upload.pc \in {"files", "pointer", "cleanup"} =>
    InitialIn(WritesOf(upload.entries), timeline[starts])

\* No load is interrupted, so that a local directory is the whole store.
StoreIsWhole ==
  /\ process.phase # "fetching" => WritesOf(db) = WritesOf(timeline[starts])
  /\ process.phase = "fetching" => WritesOf(snapshot[current].db) = WritesOf(timeline[starts])
  /\ disk = "partial" => process.phase = "fetching"

WholeInv == RemoteIsInitial /\ UploadIsInitial /\ StoreIsWhole

\* All of the history is an initial part of it, and so is nothing.
LEMMA AllIsInitial ==
  ASSUME NEW h
  PROVE  InitialIn(WritesOf(h), h) /\ InitialIn({}, h)
  BY DEF InitialIn

\* An initial part of a history stays one.
LEMMA PartsStayInitial ==
  ASSUME Shape, Timelines, [Next]_vars, NEW n \in 0 .. starts, NEW W, InitialIn(W, timeline[n])
  PROVE  InitialIn(W, timeline'[n])
<1>1. ASSUME NEW begun, Begins(begun) PROVE timeline'[n] = timeline[n]
  <2>1. starts \in Nat /\ starts < MaxStarts /\ MaxStarts \in Nat
        /\ timeline \in [0 .. MaxStarts -> Content]
    BY <1>1, StoreAssumption DEF Shape, CounterShape, Begins
  <2> QED BY <1>1, <2>1 DEF Begins
<1>2. ASSUME NEW w \in Ops, Commit(w), w.id = written + 1, written \in Nat,
             "truncate" \notin Faults => w.op = "put"
      PROVE  InitialIn(W, timeline'[n])
  <2>1. /\ timeline[starts] \in Content
        /\ timeline'[starts] = Append(timeline[starts], w)
        /\ n # starts => timeline'[n] = timeline[n]
        /\ \A v \in WritesOf(timeline[starts]) : v.id < w.id
    BY <1>2, CommitTimelines
  <2>2. CASE n = starts
    BY <2>1, <2>2, InitialGrows
  <2> QED BY <2>1, <2>2
<1>3. \/ timeline' = timeline
      \/ \E begun : Begins(begun)
      \/ \E w \in Ops : /\ Commit(w) /\ w.id = written + 1 /\ written \in Nat
                        /\ "truncate" \notin Faults => w.op = "put"
  BY HistorySteps
<1> QED BY <1>1, <1>2, <1>3

\* A check point in flight is the whole store that it was created from.
LEMMA UploadInitialStep ==
  ASSUME Shape, Timelines, WholeInv, [Next]_vars
  PROVE  UploadIsInitial'
<1>0. /\ upload \in [pc : Steps, from : Nat, to : Nat, entries : Content]
      /\ starts \in 0 .. starts
  BY DEF Shape, UploadShape, CounterShape
<1>1. CASE UNCHANGED <<upload, starts>> \/ UploadFiles \/ WriteCurrent
  <2>1. /\ upload'.entries = upload.entries /\ starts' = starts
        /\ upload'.pc \in {"files", "pointer", "cleanup"}
             => upload.pc \in {"files", "pointer", "cleanup"}
    BY <1>0, <1>1 DEF UploadFiles, WriteCurrent, At
  <2>2. InitialIn(WritesOf(upload.entries), timeline[starts])
          => InitialIn(WritesOf(upload.entries), timeline'[starts])
    BY <1>0, PartsStayInitial
  <2> QED BY <2>1, <2>2 DEF WholeInv, UploadIsInitial
<1>2. CASE CreateCheckpoint
  <2>1. /\ process.phase = "running" /\ upload'.entries = db
        /\ UNCHANGED <<timeline, starts>>
    BY <1>2 DEF CreateCheckpoint, At
  <2>2. WritesOf(db) = WritesOf(timeline[starts])
    BY <2>1 DEF WholeInv, StoreIsWhole
  <2>3. InitialIn(WritesOf(db), timeline[starts])
    BY <2>2, AllIsInitial
  <2> QED BY <2>1, <2>3 DEF UploadIsInitial
<1>3. CASE upload'.pc \notin {"files", "pointer", "cleanup"}
  BY <1>3 DEF UploadIsInitial
<1>4. CASE Load
  <2>1. CASE upload.pc = "idle"
    <3>1. upload' = upload
      BY <1>4 DEF Load, StartFromScratch, StartFromDisk, StartFromRemote, OpenFetched,
                  ReplayLog, LoadDone, Open
    <3> QED BY <1>3, <2>1, <3>1
  <2>2. CASE upload.pc # "idle"
    <3>1. process.phase = "running"
      BY <2>2, UploadsRun
    <3> QED BY <1>4, <3>1 DEF Load, StartFromScratch, StartFromDisk, StartFromRemote,
                              OpenFetched, ReplayLog, LoadDone
  <2> QED BY <2>1, <2>2
<1>5. CASE Die \/ (\E key \in Keys : Write(key)) \/ Truncate
  <2>1. Die => upload'.pc = "idle"
    BY DEF Die, NoUpload
  <2>2. (\E key \in Keys : Write(key)) \/ Truncate => UNCHANGED <<upload, starts>>
    BY DEF Write, Truncate, Commit
  <2> QED BY <1>1, <1>3, <1>5, <2>1, <2>2
<1>6. CASE CollectLog \/ SkipCheckpoint \/ BeginCheckpoint \/ UploadLog \/ UploadLogFails
  <2>1. upload'.pc \notin {"files", "pointer", "cleanup"}
    BY <1>6 DEF CollectLog, SkipCheckpoint, BeginCheckpoint, UploadLog, UploadLogFails, Go,
                NoUpload
  <2> QED BY <1>3, <2>1
<1>7. CASE FinishCheckpoint \/ CheckpointFails
  <2>1. upload'.pc \notin {"files", "pointer", "cleanup"}
    BY <1>7 DEF FinishCheckpoint, CheckpointFails, Go, NoUpload
  <2> QED BY <1>3, <2>1
<1>8. CASE (\E t \in Times : SetCurrentSnapshot(t)) \/ UNCHANGED vars
  BY <1>1, <1>8 DEF SetCurrentSnapshot, vars
<1> QED BY <1>1, <1>2, <1>4, <1>5, <1>6, <1>7, <1>8 DEF Next, Advance

\* Files that are put, completely or partly, are those of the upload.
LEMMA RemoteInitialStep ==
  ASSUME Shape, Timelines, WholeInv, [Next]_vars
  PROVE  RemoteIsInitial'
<1>0. /\ \A t \in Times : snapshot[t].of \in 0 .. starts
      /\ snapshot \in [Times -> [files : {"absent", "partial", "complete"},
                                 db : Content, of : 0 .. starts]]
      /\ starts \in 0 .. starts
  BY DEF Shape, SnapshotShape, CounterShape
<1>1. \A t \in Times : InitialIn(WritesOf(snapshot[t].db), timeline'[snapshot[t].of])
  BY <1>0, PartsStayInitial DEF WholeInv, RemoteIsInitial
<1>2. CASE UNCHANGED snapshot
  BY <1>1, <1>2 DEF RemoteIsInitial
<1>3. CASE FilesPut
  <2>1. PICK f : PutFiles(f)
    BY <1>3 DEF FilesPut
  <2>2. InitialIn(WritesOf(upload.entries), timeline[starts])
    BY <1>3 DEF FilesPut, WholeInv, UploadIsInitial
  <2>3. InitialIn(WritesOf(upload.entries), timeline'[starts])
    BY <1>0, <2>2, PartsStayInitial
  <2>4. ASSUME NEW t \in Times
        PROVE  \/ snapshot'[t] = snapshot[t]
               \/ snapshot'[t] = [files |-> f, db |-> upload.entries, of |-> starts]
    BY <1>0, <2>1 DEF PutFiles
  <2>5. ASSUME NEW t \in Times
        PROVE  InitialIn(WritesOf(snapshot'[t].db), timeline'[snapshot'[t].of])
    <3>1. CASE snapshot'[t] = snapshot[t]
      BY <1>1, <3>1
    <3>2. CASE snapshot'[t] = [files |-> f, db |-> upload.entries, of |-> starts]
      BY <2>3, <3>2
    <3> QED BY <2>4, <3>1, <3>2
  <2> QED BY <2>5 DEF RemoteIsInitial
<1>4. CASE OldDeleted
  <2>1. PICK times : Delete(times)
    BY <1>4 DEF OldDeleted
  <2>2. ASSUME NEW t \in Times
        PROVE  InitialIn(WritesOf(snapshot'[t].db), timeline'[snapshot'[t].of])
    <3>1. CASE t \in times
      <4>1. snapshot'[t].db = <<>>
        BY <2>1, <3>1 DEF Delete, NoFiles
      <4> QED BY <4>1, EmptyContent, AllIsInitial
    <3>2. CASE t \notin times
      <4>1. snapshot'[t] = snapshot[t]
        BY <2>1, <3>2 DEF Delete
      <4> QED BY <1>1, <4>1
    <3> QED BY <3>1, <3>2
  <2> QED BY <2>2 DEF RemoteIsInitial
<1> QED BY <1>2, <1>3, <1>4, RemoteSteps

\* A process that loads from a check point begins with the writes that it has.
LEMMA FetchIsWhole ==
  ASSUME Shape, Timelines, NoLogs, RemoteIsConvex, RemoteIsInitial, StartFromRemote,
         Begins(Begun(snapshot[current].of, Loaded))
  PROVE  WritesOf(snapshot[current].db) = WritesOf(timeline'[starts'])
<1>1. current \in Times /\ snapshot[current].of \in 0 .. starts /\ current # 0
  BY CurrentIsTime DEF StartFromRemote
<1>2. PICK of : of = snapshot[current].of
  OBVIOUS
<1>3. PICK c : c = snapshot[current].db
  OBVIOUS
<1>4. PICK rows : rows = Loaded
  OBVIOUS
<1>5. c \in Content /\ Ordered(c) /\ InitialIn(WritesOf(c), timeline[of])
  BY <1>1, <1>2, <1>3 DEF Shape, SnapshotShape, RemoteIsConvex, RemoteIsInitial
<1>6. of \in 0 .. starts /\ of \in 0 .. MaxStarts /\ Increasing(timeline[of])
  <2>1. starts \in Nat /\ MaxStarts \in Nat /\ starts <= MaxStarts
    BY StoreAssumption DEF Shape, CounterShape
  <2> QED BY <1>1, <1>2, <2>1 DEF Timelines
<1>7. \A key \in Keys : rows[key] = LastOf(c, key)
  BY <1>1, <1>3, <1>4, LoadedWithoutLogs
<1>8. \A key \in Keys : IsRow(WritesOf(c), key, rows[key])
  BY <1>5, <1>7, LastOfIsRow
<1>9. /\ WritesOf(Begun(of, rows))
           = {v \in WritesOf(timeline[of]) : \E w \in WritesOf(c) : v.id <= w.id}
      /\ Increasing(Begun(of, rows))
  BY <1>5, <1>6, <1>8, BegunReaches DEF InitialIn
<1>10. \A w \in WritesOf(c) : w.id <= w.id
  BY <1>5, ContentFacts, IdsAreNumbers
<1>11. WritesOf(c) = WritesOf(Begun(of, rows))
  BY <1>5, <1>9, <1>10 DEF InitialIn
<1>12. timeline'[starts'] = Begun(of, rows)
  <2>1. \E n \in 0 .. starts : WritesOf(Begun(of, rows)) \subseteq WritesOf(timeline[n])
    BY <1>6, <1>9
  <2> QED BY <1>2, <1>4, <1>9, <2>1, BeginsTimelines
<1> QED BY <1>3, <1>11, <1>12

\* The store has every write of its history.
LEMMA StoreWholeStep ==
  ASSUME "interrupt" \notin Faults, Shape, ConvexInv, WholeInv, [Next]_vars
  PROVE  StoreIsWhole'
<1>0. starts \in 0 .. starts /\ StoreIsWhole /\ Timelines
  BY DEF Shape, CounterShape, WholeInv, ConvexInv
<1>1. ASSUME WritesOf(db') = WritesOf(timeline'[starts']), process'.phase # "fetching",
             disk' # "partial"
      PROVE  StoreIsWhole'
  BY <1>1 DEF StoreIsWhole
<1>2. CASE UNCHANGED <<process, db, disk, snapshot, current, timeline, starts>>
  BY <1>0, <1>2 DEF StoreIsWhole
<1>3. CASE StartFromScratch
  <2>1. db' = <<>> /\ process'.phase = "running" /\ disk' = "store"
    BY <1>3 DEF StartFromScratch, Open, Running
  <2>2. timeline'[starts'] = <<>>
    <3>1. Begins(<<>>)
      BY <1>3, StartBegins
    <3>2. Increasing(<<>>) /\ \E n \in 0 .. starts : WritesOf(<<>>) \subseteq WritesOf(timeline[n])
      BY <1>0, EmptyContent
    <3> QED BY <1>0, <3>1, <3>2, BeginsTimelines
  <2> QED BY <1>1, <2>1, <2>2
<1>4. CASE StartFromDisk
  <2>1. disk # "partial"
    BY <1>0, <1>4 DEF StartFromDisk, StoreIsWhole
  <2>2. /\ process.phase = "down" /\ db' = db /\ disk' = "store"
        /\ process'.phase = "running"
    BY <1>4, <2>1 DEF StartFromDisk, Open, Running
  <2>3. WritesOf(db) = WritesOf(timeline[starts])
    BY <1>0, <2>2 DEF StoreIsWhole
  <2>4. timeline'[starts'] = timeline[starts]
    BY <1>0, <1>4, StartBegins, BeginsTimelines DEF Timelines
  <2> QED BY <1>1, <2>2, <2>3, <2>4
<1>5. CASE StartFromRemote
  <2>1. WritesOf(snapshot[current].db) = WritesOf(timeline'[starts'])
    BY <1>5, StartBegins, FetchIsWhole DEF ConvexInv, WholeInv
  <2>2. process'.phase = "fetching" /\ UNCHANGED <<snapshot, current>>
    BY <1>5 DEF StartFromRemote, remote
  <2> QED BY <2>1, <2>2 DEF StoreIsWhole
<1>6. CASE OpenFetched
  <2>1. /\ process.phase = "fetching" /\ process'.phase = "replaying"
        /\ db' = snapshot[current].db /\ disk' = "store" /\ UNCHANGED <<timeline, starts>>
    BY <1>6 DEF OpenFetched, Open
  <2> QED BY <1>0, <1>1, <2>1 DEF StoreIsWhole
<1>7. CASE \E n \in process.todo : ReplayLog(n)
  <2>1. process.phase = "replaying" /\ process.todo # {}
    BY <1>7 DEF ReplayLog
  <2>2. current \in Times /\ process.todo \subseteq DOMAIN logs[current]
    BY <2>1, CurrentIsTime DEF Shape, ProcessShape
  <2> QED BY <2>1, <2>2 DEF ConvexInv, NoLogs
<1>8. CASE LoadDone
  <2>1. /\ process.phase = "replaying" /\ process'.phase = "running"
        /\ UNCHANGED <<db, disk, timeline, starts>>
    BY <1>8 DEF LoadDone, Running
  <2> QED BY <1>0, <1>1, <2>1 DEF StoreIsWhole
<1>9. CASE Die
  <2>1. /\ process.phase = "running" /\ process'.phase = "down"
        /\ disk' = disk \/ disk' = "absent"
        /\ UNCHANGED <<db, timeline, starts>>
    BY <1>9 DEF Die
  <2> QED BY <1>0, <1>1, <2>1 DEF StoreIsWhole
<1>10. CASE (\E key \in Keys : Write(key)) \/ Truncate
  <2>1. PICK w \in Ops : /\ Commit(w) /\ w.id = written + 1 /\ written \in Nat
                         /\ "truncate" \notin Faults => w.op = "put"
    BY <1>10, WriteIsCommit
  <2>2. /\ starts' = starts /\ timeline[starts] \in Content
        /\ timeline'[starts] = Append(timeline[starts], w)
    BY <1>0, <2>1, CommitTimelines
  <2>3. /\ process.phase = "running" /\ process' = process /\ disk' = disk
        /\ db' = Append(db, w) /\ db \in Content
    BY <2>1 DEF Commit, Shape, StoreShape
  <2>4. /\ WritesOf(Append(db, w)) = WritesOf(db) \cup {w}
        /\ WritesOf(Append(timeline[starts], w)) = WritesOf(timeline[starts]) \cup {w}
    BY <2>2, <2>3, AppendFacts
  <2>5. WritesOf(db) = WritesOf(timeline[starts]) /\ disk # "partial"
    BY <1>0, <2>3 DEF StoreIsWhole
  <2> QED BY <1>1, <2>2, <2>3, <2>4, <2>5
<1>11. CASE process.phase = "running"
            /\ UNCHANGED <<process, db, disk, timeline, starts>>
  BY <1>0, <1>1, <1>11 DEF StoreIsWhole
<1>12. CASE Advance \/ SkipCheckpoint \/ BeginCheckpoint \/ WriteCurrent
             \/ UploadLog \/ UploadLogFails
  BY <1>11, <1>12 DEF Advance, CollectLog, CreateCheckpoint, SkipCheckpoint, BeginCheckpoint,
                      WriteCurrent, UploadLog, UploadLogFails, At, local
<1>13. CASE UploadFiles \/ FinishCheckpoint \/ CheckpointFails
              \/ (\E t \in Times : SetCurrentSnapshot(t))
  BY <1>11, <1>13 DEF UploadFiles, FinishCheckpoint, CheckpointFails, SetCurrentSnapshot, At,
                      local
<1>14. CASE UNCHANGED vars
  BY <1>2, <1>14 DEF vars, local, remote
<1> QED BY <1>3, <1>4, <1>5, <1>6, <1>7, <1>8, <1>9, <1>10, <1>12, <1>13, <1>14 DEF Next, Load

\* The invariant of the whole check points holds in every behaviour in which no
\* load is interrupted.
LEMMA WholeFlow ==
  ASSUME ~LogEnabled, "interrupt" \notin Faults
  PROVE  Spec => [](Shape /\ ConvexInv /\ WholeInv)
<1>1. Init => WholeInv
  <2>1. ASSUME Init PROVE WholeInv
    <3>1. /\ \A t \in Times : snapshot[t].db = <<>>
          /\ upload.pc = "idle" /\ process.phase = "down" /\ disk = "absent"
          /\ db = <<>> /\ timeline[starts] = <<>>
      BY <2>1, StoreAssumption DEF Init, NoFiles, NoUpload
    <3> QED BY <3>1, EmptyContent, AllIsInitial
            DEF WholeInv, RemoteIsInitial, UploadIsInitial, StoreIsWhole
  <2> QED BY <2>1
<1>2. Shape /\ ConvexInv /\ WholeInv /\ [Next]_vars => WholeInv'
  BY RemoteInitialStep, UploadInitialStep, StoreWholeStep DEF WholeInv, ConvexInv
<1>3. Spec => [](Shape /\ ConvexInv)
  BY ConvexFlow
<1> QED BY <1>1, <1>2, <1>3, PTL DEF Spec

\* Without logs, as for the cachestore, what a new process loads is the state
\* after some prefix of the writes also when uploads fail, an operator truncates
\* or chooses a snapshot (upload_check_point, load_from_remote).
THEOREM CheckPointsArePrefixes ==
  ASSUME ~LogEnabled, "interrupt" \notin Faults
  PROVE  Spec => []RestoredIsPrefix
<1>1. ASSUME Shape, ConvexInv, WholeInv PROVE RestoredIsPrefix
  <2>1. ASSUME current # 0
        PROVE  \E W : /\ \A key \in Keys : IsRow(W, key, Loaded[key])
                      /\ InitialIn(W, timeline[snapshot[current].of])
    <3>1. current \in Times
      BY <1>1, <2>1, CurrentIsTime
    <3>2. snapshot[current].db \in Content /\ Ordered(snapshot[current].db)
      BY <1>1, <3>1 DEF Shape, SnapshotShape, ConvexInv, RemoteIsConvex
    <3>3. InitialIn(WritesOf(snapshot[current].db), timeline[snapshot[current].of])
      BY <1>1, <3>1 DEF WholeInv, RemoteIsInitial
    <3>4. \A key \in Keys : Loaded[key] = LastOf(snapshot[current].db, key)
      BY <1>1, <2>1, LoadedWithoutLogs DEF ConvexInv
    <3>5. \A key \in Keys : IsRow(WritesOf(snapshot[current].db), key, Loaded[key])
      BY <3>2, <3>4, LastOfIsRow
    <3> QED BY <3>3, <3>5
  <2> QED BY <1>1, <2>1, LoadedIsPrefix DEF ConvexInv
<1> QED BY <1>1, WholeFlow, PTL

\* Without logs a process that runs has the rows of every write acknowledged
\* before, as far as they were saved, whatever fails but a load that is killed
\* (load_from_remote).
THEOREM StoreWithoutLogsIsWhole ==
  ASSUME ~LogEnabled, "interrupt" \notin Faults
  PROVE  Spec => []StoreHasItsWrites
<1>1. ASSUME Shape, ConvexInv, WholeInv PROVE StoreHasItsWrites
  <2> SUFFICES ASSUME process.phase = "running" PROVE StateOf(db) = StateOf(timeline[starts])
    BY DEF StoreHasItsWrites
  <2>1. db \in Content /\ Ordered(db) /\ WritesOf(db) = WritesOf(timeline[starts])
    BY <1>1 DEF Shape, StoreShape, ConvexInv, StoreIsLate, WholeInv, StoreIsWhole
  <2>2. timeline[starts] \in Content /\ Increasing(timeline[starts])
    <3>1. starts \in 0 .. MaxStarts /\ starts \in 0 .. starts
      BY <1>1, StoreAssumption DEF Shape, CounterShape
    <3> QED BY <1>1, <3>1 DEF Shape, CounterShape, ConvexInv, Timelines
  <2>3. Ordered(timeline[starts])
    BY <2>2, IncreasingIsOrdered
  <2> QED BY <2>1, <2>2, <2>3, SameWritesSameState
<1> QED BY <1>1, WholeFlow, PTL

-----------------------------------------------------------------------------
(* The store without logs: what counts as uploaded                         *)

\* A check point in flight has the batches of the store up to its last, and the
\* current one has those that count as uploaded.
CheckPointsCount ==
  /\ upload.pc \in {"files", "pointer", "cleanup"} =>
       /\ upload.to \in 0 .. Len(db) /\ lastUploadSeq <= upload.to
       /\ WritesOf(upload.entries) = Batch(db, 1, upload.to)
  /\ snapshotUploaded /\ ~uploadStopped =>
       current # 0 /\ Batch(db, 1, lastUploadSeq) \subseteq WritesOf(snapshot[current].db)

\* The snapshot that is current is left alone, but for the one that replaces it.
LEMMA CurrentIsLeft ==
  ASSUME Shape, InFlight, [Next]_vars, current # 0
  PROVE  snapshot'[current] = snapshot[current]
<1>1. current \in Times
  BY CurrentIsTime
<1>2. CASE UNCHANGED snapshot
  BY <1>2
<1>3. CASE FilesPut
  <2>1. current # lastCheckpointTime
    BY <1>3 DEF FilesPut, InFlight, Uploading
  <2>2. PICK f : PutFiles(f)
    BY <1>3 DEF FilesPut
  <2>3. DOMAIN snapshot = Times
    BY DEF Shape, SnapshotShape
  <2> QED BY <1>1, <2>1, <2>2, <2>3 DEF PutFiles
<1>4. CASE OldDeleted
  BY <1>4, DeleteLeavesCurrent
<1> QED BY <1>2, <1>3, <1>4, RemoteSteps

\* Steps that leave the store, the pointer and what is counted alone.
LEMMA CountedAlone ==
  ASSUME Shape, InFlight, [Next]_vars, CheckPointsCount,
         UNCHANGED <<db, lastUploadSeq, current>>,
         snapshotUploaded' /\ ~uploadStopped' => snapshotUploaded /\ ~uploadStopped,
         \/ upload'.pc \notin {"files", "pointer", "cleanup"}
         \/ /\ upload.pc \in {"files", "pointer", "cleanup"}
            /\ upload'.to = upload.to /\ upload'.entries = upload.entries
  PROVE  CheckPointsCount'
  BY CurrentIsLeft DEF CheckPointsCount

\* Without logs only a check point counts, and only when it is the current one.
LEMMA CountedStep ==
  ASSUME Shape, InFlight, NoLogs, CheckPointsCount, [Next]_vars
  PROVE  CheckPointsCount'
<1>0. /\ upload \in [pc : Steps, from : Nat, to : Nat, entries : Content]
      /\ db \in Content /\ Len(db) \in Nat /\ lastUploadSeq \in 0 .. Len(db)
  BY ContentFacts DEF Shape, UploadShape, StoreShape, SeqShape
<1>1. CASE StartFromScratch \/ StartFromDisk \/ OpenFetched
  <2>1. ~snapshotUploaded' /\ upload' = upload /\ process.phase # "running"
    BY <1>1 DEF StartFromScratch, StartFromDisk, OpenFetched, Open
  <2>2. upload.pc = "idle"
    BY <2>1, UploadsRun
  <2> QED BY <2>1, <2>2 DEF CheckPointsCount
<1>2. CASE StartFromRemote \/ LoadDone
  <2>1. /\ UNCHANGED <<db, lastUploadSeq, current, snapshotUploaded, uploadStopped, upload>>
        /\ process.phase # "running"
    BY <1>2 DEF StartFromRemote, LoadDone, seqs, remote
  <2>2. upload.pc = "idle"
    BY <2>1, UploadsRun
  <2> QED BY <2>1, <2>2, CountedAlone
<1>3. CASE \E n \in process.todo : ReplayLog(n)
  <2>1. process.phase = "replaying" /\ process.todo # {}
    BY <1>3 DEF ReplayLog
  <2>2. current \in Times /\ process.todo \subseteq DOMAIN logs[current]
    BY <2>1, CurrentIsTime DEF Shape, ProcessShape
  <2> QED BY <2>1, <2>2 DEF NoLogs
<1>4. CASE Die
  <2>1. /\ UNCHANGED <<db, lastUploadSeq, current, snapshotUploaded, uploadStopped>>
        /\ upload'.pc = "idle"
    BY <1>4 DEF Die, seqs, NoUpload
  <2> QED BY <2>1, CountedAlone
<1>5. CASE (\E key \in Keys : Write(key)) \/ Truncate
  <2>1. PICK w \in Ops : Commit(w)
    BY <1>5, WriteIsCommit
  <2>2. /\ db' = Append(db, w)
        /\ UNCHANGED <<upload, lastUploadSeq, snapshotUploaded, uploadStopped, current, snapshot>>
    BY <2>1 DEF Commit, seqs, remote
  <2>3. Len(db') = Len(db) + 1 /\ \A n \in 0 .. Len(db) : Batch(db', 1, n) = Batch(db, 1, n)
    BY <1>0, <2>2, AppendFacts, BatchGrows
  <2> QED BY <1>0, <2>2, <2>3 DEF CheckPointsCount
<1>6. CASE CollectLog \/ SkipCheckpoint \/ BeginCheckpoint
  <2>1. /\ UNCHANGED <<db, lastUploadSeq, current, snapshotUploaded, uploadStopped>>
        /\ upload'.pc \notin {"files", "pointer", "cleanup"}
    BY <1>6 DEF CollectLog, SkipCheckpoint, BeginCheckpoint, Go, NoUpload, local, seqs, remote
  <2> QED BY <2>1, CountedAlone
<1>7. CASE UploadLog \/ UploadLogFails
  BY <1>7 DEF UploadLog, UploadLogFails, At, NoLogs
<1>8. CASE CreateCheckpoint
  <2>1. /\ upload'.entries = db /\ upload'.to = Len(db)
        /\ UNCHANGED <<db, lastUploadSeq, current, snapshot, snapshotUploaded, uploadStopped>>
    BY <1>8 DEF CreateCheckpoint, local, seqs, remote
  <2>2. WritesOf(db) = Batch(db, 1, Len(db))
    BY <1>0, BatchFacts
  <2> QED BY <1>0, <2>1, <2>2 DEF CheckPointsCount
<1>9. CASE UploadFiles
  <2>1. /\ UNCHANGED <<db, lastUploadSeq, current, snapshotUploaded, uploadStopped>>
        /\ upload.pc = "files" /\ upload'.to = upload.to /\ upload'.entries = upload.entries
    BY <1>0, <1>9 DEF UploadFiles, At, local, seqs
  <2> QED BY <2>1, CountedAlone
<1>10. CASE WriteCurrent
  <2>1. /\ upload.pc = "pointer" /\ upload'.to = upload.to /\ upload'.entries = upload.entries
        /\ current' = lastCheckpointTime
        /\ UNCHANGED <<db, lastUploadSeq, snapshot>>
    BY <1>0, <1>10 DEF WriteCurrent, At, local, seqs
  <2>2. current' = clock /\ clock # 0 /\ snapshot[clock].db = upload.entries
    BY <2>1, StoreAssumption DEF InFlight, Uploading, Times
  <2>3. /\ upload.to \in 0 .. Len(db) /\ lastUploadSeq <= upload.to
        /\ WritesOf(upload.entries) = Batch(db, 1, upload.to)
    BY <2>1 DEF CheckPointsCount
  <2>4. Batch(db, 1, lastUploadSeq) \subseteq Batch(db, 1, upload.to)
    <3>1. 1 .. lastUploadSeq \subseteq 1 .. upload.to
      BY <1>0, <2>3
    <3> QED BY <3>1 DEF Batch
  <2> QED BY <2>1, <2>2, <2>3, <2>4 DEF CheckPointsCount
<1>11. CASE FinishCheckpoint
  <2>1. /\ upload.pc = "cleanup" /\ upload'.pc = "idle" /\ lastUploadSeq' = upload.to
        /\ UNCHANGED <<db, current>>
    BY <1>11 DEF FinishCheckpoint, At, Go, NoUpload, local
  <2>2. current = clock /\ clock # 0 /\ snapshot[clock].db = upload.entries
    BY <2>1, StoreAssumption DEF InFlight, Uploading, Times
  <2>3. snapshot'[current] = snapshot[current]
    BY <2>2, CurrentIsLeft
  <2>4. WritesOf(upload.entries) = Batch(db, 1, upload.to)
    BY <2>1 DEF CheckPointsCount
  <2> QED BY <2>1, <2>2, <2>3, <2>4 DEF CheckPointsCount
<1>12. CASE CheckpointFails
  <2>1. /\ UNCHANGED <<db, lastUploadSeq, current, snapshotUploaded, uploadStopped>>
        /\ upload'.pc = "idle"
    BY <1>12 DEF CheckpointFails, Go, NoUpload, local, seqs, remote
  <2> QED BY <2>1, CountedAlone
<1>13. CASE \E t \in Times : SetCurrentSnapshot(t)
  <2>1. uploadStopped' /\ ~Uploading /\ upload' = upload
    BY <1>13 DEF SetCurrentSnapshot
  <2> QED BY <2>1 DEF Uploading, CheckPointsCount
<1>14. CASE UNCHANGED vars
  BY <1>14 DEF vars, local, seqs, remote, CheckPointsCount
<1> QED BY <1>1, <1>2, <1>3, <1>4, <1>5, <1>6, <1>7, <1>8, <1>9, <1>10, <1>11, <1>12, <1>13,
           <1>14 DEF Next, Advance, Load

\* Without logs, what the loop counts as uploaded can be loaded, whatever fails
\* (last_upload_seq, upload_check_point, write_completed_notify).
THEOREM CheckPointsAreRestorable ==
  ASSUME ~LogEnabled
  PROVE  Spec => []UploadedIsRestorable
<1>1. Init => InFlight /\ CheckPointsCount
  BY InFlightInit DEF Init, CheckPointsCount, NoUpload
<1>2. Shape /\ ConvexInv /\ InFlight /\ CheckPointsCount /\ [Next]_vars
        => InFlight' /\ CheckPointsCount'
  BY InFlightStep, CountedStep DEF ConvexInv
<1>3. ASSUME Shape, ConvexInv, CheckPointsCount PROVE UploadedIsRestorable
  <2> SUFFICES ASSUME snapshotUploaded, ~uploadStopped, lastUploadSeq \in DOMAIN db
               PROVE  \E key \in Keys : Loaded[key] >= db[lastUploadSeq].id
    BY DEF UploadedIsRestorable
  <2>1. current # 0 /\ Batch(db, 1, lastUploadSeq) \subseteq WritesOf(snapshot[current].db)
    BY <1>3 DEF CheckPointsCount
  <2>2. PICK w : w = db[lastUploadSeq]
    OBVIOUS
  <2>3. PICK c : c = snapshot[current].db
    OBVIOUS
  <2>4. current \in Times /\ c \in Content /\ Ordered(c)
    BY <1>3, <2>1, <2>3, CurrentIsTime DEF Shape, SnapshotShape, ConvexInv, RemoteIsConvex
  <2>5. db \in Content /\ DOMAIN db = 1 .. Len(db) /\ Len(db) \in Nat /\ w \in Ops
    BY <1>3, <2>2, ContentFacts DEF Shape, StoreShape
  <2>6. w \in WritesOf(c)
    <3>1. lastUploadSeq \in 1 .. lastUploadSeq
      BY <2>5
    <3> QED BY <2>1, <2>2, <2>3, <3>1 DEF Batch
  <2>7. PICK key \in Keys : Touches(w, key)
    BY <2>5, SomeKey
  <2>8. Loaded[key] = LastOf(c, key)
    BY <1>3, <2>1, <2>3, LoadedWithoutLogs DEF ConvexInv
  <2>9. IsRow(WritesOf(c), key, LastOf(c, key))
    BY <2>4, LastOfIsRow
  <2>10. \E u \in WritesOf(c) : u.id = LastOf(c, key) /\ w.id <= u.id
    BY <2>6, <2>7, <2>9 DEF IsRow
  <2>11. w.id \in Nat /\ \A u \in WritesOf(c) : u.id \in Nat
    BY <2>4, <2>5, ContentFacts, IdsAreNumbers
  <2> QED BY <2>2, <2>8, <2>10, <2>11
<1>4. Spec => [](Shape /\ ConvexInv)
  BY ConvexFlow
<1> QED BY <1>1, <1>2, <1>3, <1>4, PTL DEF Spec
=============================================================================
