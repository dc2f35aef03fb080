-------------------------- MODULE SqlDocumentProofs -------------------------
(***************************************************************************)
(* What holds of the documents for every set of statements, schemas and    *)
(* slots, every cache size and every length of a document.                 *)
(*                                                                         *)
(* The constructor's loop is a recursive function, so what it builds is    *)
(* proved by induction on the statements built so far; Induction states    *)
(* that principle for a set of numbers, from the well-foundedness of <.    *)
(* BuildInvariant says what the loop promises to the document, and         *)
(* RecentInvariant what it leaves in the cache: while some texts and those *)
(* of the document fit in together, they are the last ones used, so the    *)
(* entry that is evicted is never one of them.                             *)
(***************************************************************************)
EXTENDS SqlDocument, TLAPS, FiniteSetTheorems, SequenceTheorems

-----------------------------------------------------------------------------
(* Numbers and sequences. *)

(* A set of naturals has a least element. *)
LEMMA Least ==
    ASSUME NEW T \in SUBSET Nat, T # {}
    PROVE  \E x \in T : \A y \in T : x <= y
<1> DEFINE R == OpToRel(<, Nat)
<1>1. IsWellFoundedOn(R, Nat)
  BY NatLessThanWellFounded
<1>2. \A x, y \in Nat : y < x => <<y, x>> \in R
  BY DEF OpToRel
<1> HIDE DEF R
<1>3. PICK x \in T : \A y \in T : ~(<<y, x>> \in R)
  BY <1>1, WFMin
<1>4. ASSUME NEW y \in T PROVE x <= y
  <2>1. x \in Nat /\ y \in Nat
    OBVIOUS
  <2>2. ~(y < x)
    BY <1>2, <1>3, <2>1
  <2> QED BY <2>1, <2>2
<1> QED BY <1>4

(* Induction, for a property given as the set of the numbers that have it. *)
LEMMA Induction ==
    ASSUME NEW T \in SUBSET Nat, 0 \in T, \A n \in T : n + 1 \in T
    PROVE  T = Nat
<1>1. SUFFICES ASSUME Nat \ T # {} PROVE FALSE
  OBVIOUS
<1>2. PICK m \in Nat \ T : \A y \in Nat \ T : m <= y
  BY <1>1, Least
<1>3. m # 0 /\ m - 1 \in Nat /\ m - 1 < m
  BY <1>2
<1>4. m - 1 \in T
  BY <1>2, <1>3
<1> QED BY <1>2, <1>3, <1>4

(* lru without its place k and with c at the end.  Touch() moves a place   *)
(* to the end, Insert() drops the first place or none: both are this.      *)
Moved(lru, k, c, r) ==
    LET n == IF k <= Len(lru) THEN Len(lru) ELSE Len(lru) + 1
    IN  /\ r \in Seq(Cells)
        /\ Len(r) = n
        /\ \A j \in 1..(n - 1) : r[j] = IF j < k THEN lru[j] ELSE lru[j + 1]
        /\ r[n] = c

LEMMA TouchMoves ==
    ASSUME NEW lru \in Seq(Cells), NEW i \in DOMAIN lru
    PROVE  Moved(lru, i, lru[i], Touch(lru, i))
<1> DEFINE n == Len(lru)
           l == SubSeq(lru, 1, i - 1)
           r == SubSeq(lru, i + 1, n)
<1>0. /\ n \in Nat /\ i \in 1..n /\ DOMAIN lru = 1..n
      /\ \A j \in 1..n : lru[j] \in Cells
  BY LenProperties, ElementOfSeq
<1>1. /\ l \in Seq(Cells) /\ Len(l) = i - 1
      /\ \A j \in 1..(i - 1) : l[j] = lru[j]
  <2>1. \A j \in 1..(i - 1) : lru[j] \in Cells
    BY <1>0
  <2>2. 1 \in Int /\ i - 1 \in Int
    BY <1>0
  <2>3. /\ l \in Seq(Cells)
        /\ Len(l) = IF 1 <= i - 1 THEN i - 1 - 1 + 1 ELSE 0
        /\ \A j \in 1..(i - 1 - 1 + 1) : l[j] = lru[1 + j - 1]
    BY <2>1, <2>2, SubSeqProperties
  <2> HIDE DEF l
  <2> QED BY <1>0, <2>3
<1>2. /\ r \in Seq(Cells) /\ Len(r) = n - i
      /\ \A j \in 1..(n - i) : r[j] = lru[i + j]
  <2>1. \A j \in (i + 1)..n : lru[j] \in Cells
    BY <1>0
  <2>2. i + 1 \in Int /\ n \in Int
    BY <1>0
  <2>3. /\ r \in Seq(Cells)
        /\ Len(r) = IF i + 1 <= n THEN n - (i + 1) + 1 ELSE 0
        /\ \A j \in 1..(n - (i + 1) + 1) : r[j] = lru[i + 1 + j - 1]
    BY <2>1, <2>2, SubSeqProperties
  <2> HIDE DEF r
  <2>4. ASSUME NEW j \in 1..(n - i)
        PROVE  r[j] = lru[i + j]
    <3>1. j \in 1..(n - (i + 1) + 1) /\ i + 1 + j - 1 = i + j
      BY <1>0
    <3> QED BY <2>3, <3>1
  <2>5. Len(r) = n - i
    BY <1>0, <2>3
  <2> QED BY <2>3, <2>4, <2>5
<1> HIDE DEF l, r
<1>3. /\ l \o r \in Seq(Cells) /\ Len(l \o r) = n - 1
      /\ \A j \in 1..(n - 1) : (l \o r)[j] = IF j < i THEN lru[j] ELSE lru[j + 1]
  <2>1. /\ l \o r \in Seq(Cells) /\ Len(l \o r) = Len(l) + Len(r)
        /\ \A j \in 1..(Len(l) + Len(r)) :
             (l \o r)[j] = IF j <= Len(l) THEN l[j] ELSE r[j - Len(l)]
    BY <1>1, <1>2, ConcatProperties
  <2>2. ASSUME NEW j \in 1..(n - 1)
        PROVE  (l \o r)[j] = IF j < i THEN lru[j] ELSE lru[j + 1]
    <3>1. CASE j < i
      BY <1>0, <1>1, <1>2, <2>1, <3>1
    <3>2. CASE ~(j < i)
      <4>1. j - (i - 1) \in 1..(n - i) /\ i + (j - (i - 1)) = j + 1
        BY <1>0, <3>2
      <4>2. (l \o r)[j] = r[j - (i - 1)]
        BY <1>0, <1>1, <1>2, <2>1, <3>2
      <4> QED BY <1>2, <3>2, <4>1, <4>2
    <3> QED BY <3>1, <3>2
  <2> QED BY <1>0, <1>1, <1>2, <2>1, <2>2
<1>4. Touch(lru, i) = Append(l \o r, lru[i])
  BY DEF Touch, RemoveAt, l, r
<1>5. /\ Append(l \o r, lru[i]) \in Seq(Cells)
      /\ Len(Append(l \o r, lru[i])) = n
      /\ \A j \in 1..(n - 1) : Append(l \o r, lru[i])[j] = (l \o r)[j]
      /\ Append(l \o r, lru[i])[n] = lru[i]
  <2>1. lru[i] \in Cells
    BY <1>0
  <2> DEFINE q == l \o r
  <2>2. q \in Seq(Cells) /\ Len(q) = n - 1
    BY <1>3
  <2> HIDE DEF q
  <2>3. /\ Append(q, lru[i]) \in Seq(Cells)
        /\ Len(Append(q, lru[i])) = Len(q) + 1
        /\ \A j \in 1..Len(q) : Append(q, lru[i])[j] = q[j]
        /\ Append(q, lru[i])[Len(q) + 1] = lru[i]
    BY <2>1, <2>2, AppendProperties
  <2>4. Len(q) = n - 1 /\ n - 1 + 1 = n
    BY <1>0, <2>2
  <2> QED BY <2>3, <2>4 DEF q
<1> QED BY <1>0, <1>3, <1>4, <1>5 DEF Moved

LEMMA InsertMoves ==
    ASSUME NEW lru \in Seq(Cells), Len(lru) <= CellCacheMax, NEW c \in Cells
    PROVE  Moved(lru, IF Len(lru) < CellCacheMax THEN Len(lru) + 1 ELSE 1, c,
                 Insert(lru, c))
<1> DEFINE n == Len(lru)
           a == Append(lru, c)
<1>0. n \in Nat /\ CellCacheMax \in Nat \ {0}
  BY LenProperties, DocumentAssumptions
<1>1. /\ a \in Seq(Cells) /\ a # <<>> /\ Len(a) = n + 1
      /\ \A j \in 1..n : a[j] = lru[j]
      /\ a[n + 1] = c
  BY AppendProperties
<1> HIDE DEF a
<1>2. CASE n < CellCacheMax
  BY <1>0, <1>1, <1>2 DEF Moved, Insert, a
<1>3. CASE ~(n < CellCacheMax)
  <2>1. /\ Tail(a) \in Seq(Cells) /\ Len(Tail(a)) = n
        /\ \A j \in 1..n : Tail(a)[j] = a[j + 1]
    BY <1>0, <1>1, HeadTailProperties
  <2>2. n >= 1
    BY <1>0, <1>3
  <2>3. \A j \in 1..(n - 1) : Tail(a)[j] = lru[j + 1]
    BY <1>0, <1>1, <2>1
  <2>4. Tail(a)[n] = c
    BY <1>0, <1>1, <2>1, <2>2
  <2>5. Insert(lru, c) = Tail(a)
    BY <1>3 DEF Insert, a
  <2> QED BY <1>0, <1>3, <2>1, <2>2, <2>3, <2>4, <2>5 DEF Moved
<1> QED BY <1>2, <1>3

-----------------------------------------------------------------------------
(* The cell cache as a queue. *)

(* What one lookup or insertion does to the cache lru: the cell c, whose   *)
(* text is t, goes to the end, what place k held leaves it, and no other   *)
(* entry has that text or changes its own.                                 *)
Moves(lru, heap, k, c, t, r, heap2) ==
    /\ k \in 1..(Len(lru) + 1) /\ c \in Cells
    /\ Moved(lru, k, c, r)
    /\ heap2[c] = t
    /\ \A q \in DOMAIN lru \ {k} : heap2[lru[q]] = heap[lru[q]] /\ heap[lru[q]] # t

DistinctTexts(lru, heap) ==
    \A p, q \in DOMAIN lru : heap[lru[p]] = heap[lru[q]] => p = q

(* Where the entry that is now at place p was. *)
Src(p, k) == IF p < k THEN p ELSE p + 1
Dst(q, k) == IF q < k THEN q ELSE q - 1

LEMMA MovedPlaces ==
    ASSUME NEW lru \in Seq(Cells), NEW heap, NEW k, NEW c, NEW t, NEW r, NEW heap2,
           Moves(lru, heap, k, c, t, r, heap2)
    PROVE  /\ DOMAIN lru = 1..Len(lru) /\ DOMAIN r = 1..Len(r)
           /\ Len(lru) \in Nat /\ Len(r) \in Nat \ {0} /\ k \in Nat
           /\ r \in Seq(Cells)
           /\ Len(r) = IF k <= Len(lru) THEN Len(lru) ELSE Len(lru) + 1
           /\ r[Len(r)] = c
           /\ \A p \in 1..(Len(r) - 1) : Src(p, k) \in DOMAIN lru \ {k} /\ r[p] = lru[Src(p, k)]
           /\ \A q \in DOMAIN lru \ {k} : Dst(q, k) \in DOMAIN r /\ r[Dst(q, k)] = lru[q]
<1> DEFINE n == Len(lru)
           m == Len(r)
<1>1. n \in Nat /\ DOMAIN lru = 1..n
  BY LenProperties
<1>2. k \in 1..(n + 1) /\ r \in Seq(Cells)
      /\ m = (IF k <= n THEN n ELSE n + 1)
      /\ r[m] = c
      /\ \A j \in 1..(m - 1) : r[j] = IF j < k THEN lru[j] ELSE lru[j + 1]
  BY DEF Moves, Moved
<1>3. m \in Nat /\ DOMAIN r = 1..m
  BY <1>2, LenProperties
<1> HIDE DEF n, m
<1>4. m # 0
  BY <1>1, <1>2
<1>5. ASSUME NEW p \in 1..(m - 1)
      PROVE  Src(p, k) \in DOMAIN lru \ {k} /\ r[p] = lru[Src(p, k)]
  BY <1>1, <1>2, <1>3 DEF Src
<1>6. ASSUME NEW q \in DOMAIN lru \ {k}
      PROVE  Dst(q, k) \in DOMAIN r /\ r[Dst(q, k)] = lru[q]
  <2>0. q \in 1..n /\ q # k
    BY <1>1
  <2>1. CASE q < k
    BY <1>1, <1>2, <1>3, <2>0, <2>1 DEF Dst
  <2>2. CASE ~(q < k)
    <3>1. q - 1 \in 1..(m - 1) /\ ~(q - 1 < k) /\ q - 1 + 1 = q /\ q - 1 \in 1..m
      BY <1>1, <1>2, <2>0, <2>2
    <3>2. r[q - 1] = lru[q]
      BY <1>2, <3>1
    <3> QED BY <1>3, <2>2, <3>1, <3>2 DEF Dst
  <2> QED BY <2>1, <2>2
<1> QED BY <1>1, <1>2, <1>3, <1>4, <1>5, <1>6 DEF n, m

(* No two entries ever have one text. *)
LEMMA MovesKeepTextsDistinct ==
    ASSUME NEW lru \in Seq(Cells), NEW heap, NEW k, NEW c, NEW t, NEW r, NEW heap2,
           Moves(lru, heap, k, c, t, r, heap2),
           DistinctTexts(lru, heap)
    PROVE  DistinctTexts(r, heap2)
<1> DEFINE m == Len(r)
<1>1. /\ DOMAIN r = 1..m /\ m \in Nat \ {0} /\ r[m] = c /\ k \in Nat
      /\ \A p \in 1..(m - 1) : Src(p, k) \in DOMAIN lru \ {k} /\ r[p] = lru[Src(p, k)]
  BY MovedPlaces
<1>2. /\ heap2[c] = t
      /\ \A q \in DOMAIN lru \ {k} : heap2[lru[q]] = heap[lru[q]] /\ heap[lru[q]] # t
  BY DEF Moves
<1> HIDE DEF m
<1>3. \A p \in 1..(m - 1) : heap2[r[p]] = heap[lru[Src(p, k)]] /\ heap2[r[p]] # t
  BY <1>1, <1>2
<1>4. heap2[r[m]] = t
  BY <1>1, <1>2
<1>5. ASSUME NEW p \in 1..(m - 1), NEW q \in 1..(m - 1), heap2[r[p]] = heap2[r[q]]
      PROVE  p = q
  <2>1. Src(p, k) = Src(q, k)
    BY <1>1, <1>3, <1>5 DEF DistinctTexts
  <2> QED BY <1>1, <2>1 DEF Src
<1>6. \A p \in 1..m : p = m \/ p \in 1..(m - 1)
  BY <1>1
<1> QED BY <1>1, <1>3, <1>4, <1>5, <1>6 DEF DistinctTexts

(* The entries whose text is in W are the ones used last. *)
Suffix(lru, heap, W) ==
    \A p, q \in DOMAIN lru : p < q /\ heap[lru[p]] \in W => heap[lru[q]] \in W

(* Every text of W has an entry. *)
Held(lru, heap, W) == \A t \in W : \E p \in DOMAIN lru : heap[lru[p]] = t

LEMMA MovesKeepSuffix ==
    ASSUME NEW lru \in Seq(Cells), NEW heap, NEW k, NEW c, NEW t, NEW r, NEW heap2,
           Moves(lru, heap, k, c, t, r, heap2),
           NEW W, Suffix(lru, heap, W)
    PROVE  Suffix(r, heap2, W \cup {t})
<1> DEFINE m == Len(r)
<1>1. /\ DOMAIN r = 1..m /\ m \in Nat \ {0} /\ r[m] = c /\ k \in Nat
      /\ \A p \in 1..(m - 1) : Src(p, k) \in DOMAIN lru \ {k} /\ r[p] = lru[Src(p, k)]
  BY MovedPlaces
<1>2. /\ heap2[c] = t
      /\ \A q \in DOMAIN lru \ {k} : heap2[lru[q]] = heap[lru[q]] /\ heap[lru[q]] # t
  BY DEF Moves
<1> HIDE DEF m
<1>3. \A p \in 1..(m - 1) : heap2[r[p]] = heap[lru[Src(p, k)]] /\ heap2[r[p]] # t
  BY <1>1, <1>2
<1>4. SUFFICES ASSUME NEW p \in 1..m, NEW q \in 1..m, p < q, heap2[r[p]] \in W \cup {t}
               PROVE  heap2[r[q]] \in W \cup {t}
  BY <1>1 DEF Suffix
<1>5. CASE q = m
  BY <1>1, <1>2, <1>5
<1>6. CASE q # m
  <2>1. p \in 1..(m - 1) /\ q \in 1..(m - 1)
    BY <1>1, <1>4, <1>6
  <2>2. Src(p, k) < Src(q, k)
    BY <1>1, <1>4, <2>1 DEF Src
  <2>3. heap[lru[Src(p, k)]] \in W
    BY <1>3, <1>4, <2>1
  <2>4. heap[lru[Src(q, k)]] \in W
    BY <1>1, <2>1, <2>2, <2>3 DEF Suffix
  <2> QED BY <1>3, <2>1, <2>4
<1> QED BY <1>5, <1>6

(* The place that is given up is taken again at the end, or its text is    *)
(* not in W.                                                               *)
Spares(lru, heap, k, c, t, W) ==
    k \in DOMAIN lru => \/ heap[lru[k]] = t /\ c = lru[k]
                        \/ heap[lru[k]] \notin W

(* An entry whose text is in W stays then.                                 *)
LEMMA MovesKeepEntries ==
    ASSUME NEW lru \in Seq(Cells), NEW heap, NEW k, NEW c, NEW t, NEW r, NEW heap2,
           Moves(lru, heap, k, c, t, r, heap2),
           NEW W, Spares(lru, heap, k, c, t, W),
           NEW y \in ToSet(lru), heap[y] \in W
    PROVE  y \in ToSet(r) /\ heap2[y] = heap[y]
<1>1. PICK q \in DOMAIN lru : y = lru[q]
  BY DEF ToSet
<1>2. CASE q = k
  <2>1. heap[y] = t /\ c = y
    BY <1>1, <1>2 DEF Spares
  <2>2. Len(r) \in DOMAIN r /\ r[Len(r)] = c
    BY MovedPlaces
  <2>3. heap2[c] = t
    BY DEF Moves
  <2> QED BY <2>1, <2>2, <2>3 DEF ToSet
<1>3. CASE q # k
  <2>1. Dst(q, k) \in DOMAIN r /\ r[Dst(q, k)] = y
    BY <1>1, <1>3, MovedPlaces
  <2>2. heap2[y] = heap[y]
    BY <1>1, <1>3 DEF Moves
  <2> QED BY <2>1, <2>2 DEF ToSet
<1> QED BY <1>2, <1>3

(* A cache that holds a whole set of texts and is too small for one more   *)
(* beside them gives up another entry first.                               *)
LEMMA LeastRecentIsAnother ==
    ASSUME NEW lru \in Seq(Cells), NEW heap, NEW W, NEW t, NEW U,
           DistinctTexts(lru, heap), Suffix(lru, heap, W),
           IsFiniteSet(U), W \cup {t} \subseteq U, t \notin W,
           Len(lru) >= Cardinality(U), Len(lru) # 0
    PROVE  heap[lru[1]] \notin W
<1>0. Len(lru) \in Nat /\ DOMAIN lru = 1..Len(lru)
  BY LenProperties
<1>1. SUFFICES ASSUME heap[lru[1]] \in W PROVE FALSE
  OBVIOUS
<1> DEFINE n == Len(lru)
           f == [p \in 1..n |-> heap[lru[p]]]
<1>2. \A p \in 1..n : f[p] \in W
  BY <1>0, <1>1 DEF Suffix
<1>3. \A p, q \in 1..n : f[p] = f[q] => p = q
  BY <1>0 DEF DistinctTexts
<1>4. f \in Injection(1..n, W)
  <2>1. f \in [1..n -> W] /\ DOMAIN f = 1..n
    BY <1>2
  <2> HIDE DEF f
  <2> QED BY <1>3, <2>1 DEF Injection, IsInjective
<1>5. IsFiniteSet(W) /\ Cardinality(W \cup {t}) <= Cardinality(U)
      /\ Cardinality(U) \in Nat
  BY FS_Subset, FS_CardinalityType
<1>6. n <= Cardinality(W) /\ Cardinality(W) \in Nat
  <2>1. Cardinality(1..n) <= Cardinality(W)
    BY <1>4, <1>5, FS_Injection
  <2>2. Cardinality(1..n) = n
    BY <1>0, FS_Interval
  <2>3. Cardinality(W) \in Nat
    BY <1>5, FS_CardinalityType
  <2> QED BY <2>1, <2>2, <2>3
<1>7. Cardinality(W \cup {t}) = Cardinality(W) + 1
  BY <1>5, FS_AddElement
<1> HIDE DEF f
<1> QED BY <1>0, <1>5, <1>6, <1>7

-----------------------------------------------------------------------------
(* One statement of the constructor's loop. *)

BuildState ==
    [cache : Seq(Cells), parsed : [Cells -> Texts], cells : Seq(Cells),
     fresh : SUBSET Cells, live : SUBSET Cells]

(* There is a name left for one more CachedCell. *)
Room(b) == Cells \ (b.live \cup ToSet(b.cells) \cup ToSet(b.cache)) # {}

(* What buildCell() does to b for a statement t, the cell x being the      *)
(* statement's: the parsed text it finds, else one of its own.             *)
CellBuilt(b, t, r, x) ==
    /\ r \in BuildState /\ r.live = b.live
    /\ r.cells = Append(b.cells, x) /\ x \notin ToSet(b.cells)
    /\ r.parsed[x] = t
    /\ \A y \in Cells \ {x} : r.parsed[y] = b.parsed[y]
    /\ \/ x \in ToSet(b.cache) /\ r.parsed = b.parsed /\ r.fresh = b.fresh
       \/ x \notin b.live \cup ToSet(b.cache) /\ r.fresh = b.fresh \cup {x}

CacheServed(b, t, r, x, k, c) ==
    /\ Moves(b.cache, b.parsed, k, c, t, r.cache, r.parsed)
    /\ Len(r.cache) <= CellCacheMax
    /\ c = x \/ c \in ToSet(b.cells)
    /\ k \in DOMAIN b.cache =>
         \/ b.parsed[b.cache[k]] = t /\ c = b.cache[k]
         \/ k = 1 /\ Len(b.cache) = CellCacheMax /\ \A q \in DOMAIN b.cache : b.parsed[b.cache[q]] # t

LEMMA FreshCellIsNew ==
    ASSUME NEW used, Cells \ used # {}
    PROVE  FreshCell(used) \in Cells \ used
<1> DEFINE T == Cells \ used
<1>1. T \in SUBSET Nat
  BY DocumentAssumptions DEF Cells
<1> HIDE DEF T
<1>2. \E c \in T : \A o \in T : c <= o
  BY <1>1, Least DEF T
<1> QED BY <1>2 DEF FreshCell, T

LEMMA TouchKeepsEntries ==
    ASSUME NEW lru \in Seq(Cells), NEW i \in DOMAIN lru
    PROVE  ToSet(Touch(lru, i)) = ToSet(lru)
<1> DEFINE r == Touch(lru, i)
           n == Len(lru)
<1>0. i \in 1..n /\ n \in Nat /\ DOMAIN lru = 1..n
      /\ \A j \in DOMAIN lru : lru[j] \in Cells
  BY LenProperties, ElementOfSeq
<1>1. Moved(lru, i, lru[i], r)
  BY TouchMoves
<1> HIDE DEF r
<1>2. /\ r \in Seq(Cells) /\ Len(r) = n
      /\ \A j \in 1..(n - 1) : r[j] = IF j < i THEN lru[j] ELSE lru[j + 1]
      /\ r[n] = lru[i]
  BY <1>0, <1>1 DEF Moved
<1> HIDE DEF n
<1>3. DOMAIN r = 1..n
  BY <1>2, LenProperties
<1>4. ASSUME NEW p \in 1..n PROVE r[p] \in ToSet(lru)
  <2>1. CASE p = n
    BY <1>0, <1>2, <2>1 DEF ToSet
  <2>2. CASE p # n
    <3>0. p \in 1..(n - 1) /\ p + 1 \in 1..n
      BY <1>0, <2>2
    <3>1. p \in 1..(n - 1) /\ p \in DOMAIN lru /\ p + 1 \in DOMAIN lru
      BY <1>0, <3>0
    <3>2. r[p] = lru[p] \/ r[p] = lru[p + 1]
      BY <1>2, <3>1
    <3> QED BY <3>1, <3>2 DEF ToSet
  <2> QED BY <2>1, <2>2
<1>5. ASSUME NEW q \in 1..n PROVE lru[q] \in ToSet(r)
  <2>1. CASE q = i
    BY <1>0, <1>2, <1>3, <2>1 DEF ToSet
  <2>2. CASE q < i
    <3>1. q \in 1..(n - 1)
      BY <1>0, <2>2
    <3> QED BY <1>2, <1>3, <2>2, <3>1 DEF ToSet
  <2>3. CASE q > i
    <3>1. q - 1 \in 1..(n - 1) /\ ~(q - 1 < i) /\ q - 1 + 1 = q /\ q - 1 \in 1..n
      BY <1>0, <2>3
    <3>2. r[q - 1] = lru[q]
      BY <1>2, <3>1
    <3> QED BY <1>3, <3>1, <3>2 DEF ToSet
  <2> QED BY <1>0, <2>1, <2>2, <2>3
<1> QED BY <1>0, <1>3, <1>4, <1>5 DEF ToSet, r

(* buildCell() keeps its promise to the document and to the cache. *)
LEMMA BuildCellWorks ==
    ASSUME NEW b \in BuildState, NEW t \in Texts, Room(b),
           Len(b.cache) <= CellCacheMax, DistinctTexts(b.cache, b.parsed)
    PROVE  \E x \in Cells, k \in Nat, c \in Cells :
             /\ CellBuilt(b, t, BuildCell(b, t), x)
             /\ CacheServed(b, t, BuildCell(b, t), x, k, c)
<1> DEFINE hits == Hits(b.cache, b.parsed, t)
           n == Len(b.cache)
           r == BuildCell(b, t)
<1>0. /\ b.cache \in Seq(Cells) /\ b.parsed \in [Cells -> Texts] /\ b.cells \in Seq(Cells)
      /\ b.fresh \in SUBSET Cells /\ b.live \in SUBSET Cells
      /\ b = [cache |-> b.cache, parsed |-> b.parsed, cells |-> b.cells,
              fresh |-> b.fresh, live |-> b.live]
  BY DEF BuildState
<1>1. /\ n \in Nat /\ DOMAIN b.cache = 1..n /\ CellCacheMax \in Nat \ {0}
      /\ \A q \in DOMAIN b.cache : b.cache[q] \in Cells
  BY <1>0, LenProperties, ElementOfSeq, DocumentAssumptions
<1>2. \A x \in Cells : Append(b.cells, x) \in Seq(Cells)
  BY <1>0, AppendProperties
<1>3. ASSUME NEW x \in Cells, x \notin ToSet(b.cells), NEW lru \in Seq(Cells),
             x \notin b.live \cup ToSet(b.cache),
             r = [b EXCEPT !.cache = lru, !.parsed = [@ EXCEPT ![x] = t],
                           !.cells = Append(@, x), !.fresh = @ \cup {x}]
      PROVE  /\ CellBuilt(b, t, r, x) /\ r.cache = lru
             /\ \A q \in DOMAIN b.cache : r.parsed[b.cache[q]] = b.parsed[b.cache[q]]
             /\ r.parsed[x] = t
  <2>1. r = [cache |-> lru, parsed |-> [b.parsed EXCEPT ![x] = t],
             cells |-> Append(b.cells, x), fresh |-> b.fresh \cup {x}, live |-> b.live]
    BY <1>0, <1>3
  <2> HIDE DEF r
  <2>2. [b.parsed EXCEPT ![x] = t] \in [Cells -> Texts]
    BY <1>0
  <2>3. r \in BuildState
    BY <1>0, <1>2, <2>1, <2>2 DEF BuildState
  <2>4. \A q \in DOMAIN b.cache : b.cache[q] # x
    BY <1>3 DEF ToSet
  <2> QED BY <1>0, <1>1, <1>3, <2>1, <2>3, <2>4 DEF CellBuilt
<1>4. CASE hits = {}
  <2> DEFINE x == FreshCell(b.live \cup ToSet(b.cells) \cup ToSet(b.cache))
             lru == Insert(b.cache, x)
             k == IF n < CellCacheMax THEN n + 1 ELSE 1
  <2>1. /\ x \in Cells /\ x \notin ToSet(b.cells)
        /\ x \notin b.live \cup ToSet(b.cache)
    BY FreshCellIsNew DEF Room
  <2>2. Moved(b.cache, k, x, lru)
    BY <1>0, <2>1, InsertMoves
  <2>3. {b.cache[i] : i \in hits} = {}
    BY <1>4
  <2>4. Reusable({b.cache[i] : i \in hits}, ToSet(b.cells)) = {}
    BY <2>3 DEF Reusable
  <2>5. r = [b EXCEPT !.cache = lru, !.parsed = [@ EXCEPT ![x] = t],
                      !.cells = Append(@, x), !.fresh = @ \cup {x}]
    BY <1>4, <2>4 DEF BuildCell, InsertFirst
  <2>6. lru \in Seq(Cells) /\ Len(lru) = (IF k <= n THEN n ELSE n + 1)
    BY <2>2 DEF Moved
  <2>7. \A q \in DOMAIN b.cache : b.parsed[b.cache[q]] # t
    BY <1>4 DEF Hits
  <2> HIDE DEF x, lru, r
  <2>8. /\ CellBuilt(b, t, r, x) /\ r.cache = lru
        /\ \A q \in DOMAIN b.cache : r.parsed[b.cache[q]] = b.parsed[b.cache[q]]
        /\ r.parsed[x] = t
    BY <1>3, <2>1, <2>5, <2>6
  <2>9. /\ k \in 1..(n + 1) /\ Len(lru) <= CellCacheMax
        /\ k \in DOMAIN b.cache => k = 1 /\ n = CellCacheMax
    BY <1>1, <2>6
  <2>10. CacheServed(b, t, r, x, k, x)
    BY <2>1, <2>2, <2>7, <2>8, <2>9 DEF CacheServed, Moves
  <2>11. k \in Nat
    BY <1>1
  <2> QED BY <2>1, <2>8, <2>10, <2>11 DEF r
<1>5. CASE hits # {}
  <2> DEFINE i == CHOOSE j \in hits : TRUE
             lru == Touch(b.cache, i)
             reusable == Reusable({b.cache[j] : j \in hits}, ToSet(b.cells))
  <2>1. i \in hits
    BY <1>5
  <2>2. i \in DOMAIN b.cache /\ b.parsed[b.cache[i]] = t
    BY <2>1 DEF Hits
  <2>3. \A j \in hits : j = i
    BY <2>2 DEF Hits, DistinctTexts
  <2> HIDE DEF i
  <2>4. {b.cache[j] : j \in hits} = {b.cache[i]}
    BY <2>1, <2>3
  <2>5. b.cache[i] \in Cells /\ b.cache[i] \in ToSet(b.cache) /\ i \in 1..(n + 1) /\ i \in Nat
    BY <1>1, <2>2 DEF ToSet
  <2>6. Moved(b.cache, i, b.cache[i], lru)
    BY <1>0, <2>2, TouchMoves
  <2>7. lru \in Seq(Cells) /\ Len(lru) = n
    BY <1>1, <2>2, <2>6 DEF Moved
  <2>8. ToSet(lru) = ToSet(b.cache)
    BY <1>0, <2>2, TouchKeepsEntries
  <2>9. \A q \in DOMAIN b.cache \ {i} : b.parsed[b.cache[q]] # t
    BY <2>3 DEF Hits
  <2>10. CASE b.cache[i] \notin ToSet(b.cells)
    <3> DEFINE x == b.cache[i]
    <3>1. reusable = {x}
      BY <2>4, <2>10 DEF Reusable
    <3>2. (CHOOSE c \in reusable : TRUE) = x
      BY <3>1
    <3>3. r = [b EXCEPT !.cache = lru, !.cells = Append(@, x)]
      BY <1>5, <3>1, <3>2 DEF BuildCell, i
    <3> HIDE DEF r, lru, reusable
    <3>4. r = [cache |-> lru, parsed |-> b.parsed, cells |-> Append(b.cells, x),
               fresh |-> b.fresh, live |-> b.live]
      BY <1>0, <3>3
    <3>5. r \in BuildState
      BY <1>0, <1>2, <2>5, <2>7, <3>4 DEF BuildState
    <3>6. CellBuilt(b, t, r, x)
      BY <2>2, <2>5, <2>10, <3>4, <3>5 DEF CellBuilt
    <3>7. CacheServed(b, t, r, x, i, x)
      BY <1>1, <2>2, <2>5, <2>6, <2>7, <2>9, <3>4 DEF CacheServed, Moves
    <3> QED BY <2>5, <3>6, <3>7 DEF r
  <2>11. CASE b.cache[i] \in ToSet(b.cells)
    <3> DEFINE x == FreshCell(b.live \cup ToSet(b.cells) \cup ToSet(lru))
               c == b.cache[i]
    <3>1. /\ x \in Cells /\ x \notin ToSet(b.cells)
          /\ x \notin b.live \cup ToSet(b.cache)
      BY <2>8, FreshCellIsNew DEF Room
    <3>2. reusable = {}
      BY <2>4, <2>11 DEF Reusable
    <3>3. r = [b EXCEPT !.cache = lru, !.parsed = [@ EXCEPT ![x] = t],
                        !.cells = Append(@, x), !.fresh = @ \cup {x}]
      BY <1>5, <3>2 DEF BuildCell, InsertFirst, i
    <3> HIDE DEF x, lru, r, reusable
    <3>4. /\ CellBuilt(b, t, r, x) /\ r.cache = lru
          /\ \A q \in DOMAIN b.cache : r.parsed[b.cache[q]] = b.parsed[b.cache[q]]
      BY <1>3, <2>7, <3>1, <3>3
    <3>5. CacheServed(b, t, r, x, i, c)
      BY <1>1, <2>2, <2>5, <2>6, <2>7, <2>9, <2>11, <3>4 DEF CacheServed, Moves
    <3> QED BY <2>5, <3>1, <3>4, <3>5 DEF r
  <2> QED BY <2>10, <2>11
<1> QED BY <1>4, <1>5

-----------------------------------------------------------------------------
(* The constructor's loop. *)

BuildFrom(lru, heap, live) ==
    [cache |-> lru, parsed |-> heap, cells |-> <<>>, fresh |-> {}, live |-> live]

(* The loop's states satisfy its equation, that is, the recursive function *)
(* of Builds() exists.                                                     *)
LEMMA BuildsEquation ==
    ASSUME NEW ts \in Seq(Texts), NEW lru, NEW heap, NEW live
    PROVE  Builds(ts, lru, heap, live) =
             [i \in 0..Len(ts) |->
                IF i = 0 THEN BuildFrom(lru, heap, live)
                ELSE BuildCell(Builds(ts, lru, heap, live)[i - 1], ts[i])]
<1> DEFINE b0 == BuildFrom(lru, heap, live)
           Ok == {k \in Nat :
                    \E g : g = [i \in 0..k |-> IF i = 0 THEN b0 ELSE BuildCell(g[i - 1], ts[i])]}
<1>0. Len(ts) \in Nat
  BY LenProperties
<1>1. 0 \in Ok
  <2> DEFINE g == [i \in 0..0 |-> b0]
  <2>1. g = [i \in 0..0 |-> IF i = 0 THEN b0 ELSE BuildCell(g[i - 1], ts[i])]
    OBVIOUS
  <2> QED BY <2>1
<1>2. ASSUME NEW k \in Ok PROVE k + 1 \in Ok
  <2>1. PICK g : g = [i \in 0..k |-> IF i = 0 THEN b0 ELSE BuildCell(g[i - 1], ts[i])]
    OBVIOUS
  <2> HIDE DEF b0
  <2> DEFINE h == [i \in 0..(k + 1) |->
                     IF i = k + 1 THEN BuildCell(g[k], ts[k + 1]) ELSE g[i]]
  <2>2. ASSUME NEW i \in 0..(k + 1)
        PROVE  h[i] = IF i = 0 THEN b0 ELSE BuildCell(h[i - 1], ts[i])
    <3>1. CASE i = 0
      BY <2>1, <3>1
    <3>2. CASE i = k + 1
      BY <2>1, <3>2
    <3>3. CASE i \in 1..k
      BY <2>1, <3>3
    <3> QED BY <3>1, <3>2, <3>3
  <2>3. h = [i \in 0..(k + 1) |-> IF i = 0 THEN b0 ELSE BuildCell(h[i - 1], ts[i])]
    BY <2>2
  <2> HIDE DEF h
  <2> QED BY <2>3
<1>3. Ok = Nat
  <2> HIDE DEF Ok
  <2>1. Ok \in SUBSET Nat
    BY DEF Ok
  <2> QED BY <1>1, <1>2, <2>1, Induction
<1>4. Len(ts) \in Ok
  BY <1>0, <1>3
<1> QED BY <1>4 DEF Builds, BuildFrom

(* After i statements: the statements' cells are parses of their texts, no *)
(* two the same; the new ones are the document's alone; and what any other *)
(* document holds is as it was.                                            *)
BuildInvariant(b, i, ts, heap, live) ==
    /\ b \in BuildState /\ b.live = live
    /\ Len(b.cells) = i
    /\ \A j \in 1..i : b.parsed[b.cells[j]] = ts[j]
    /\ \A j, m \in 1..i : b.cells[j] = b.cells[m] => j = m
    /\ b.fresh \subseteq ToSet(b.cells) /\ b.fresh \cap live = {}
    /\ \A y \in Cells \ b.fresh : b.parsed[y] = heap[y]
    /\ Len(b.cache) <= CellCacheMax /\ DistinctTexts(b.cache, b.parsed)

(* A sequence has no more members than places. *)
LEMMA FewMembers ==
    ASSUME NEW S, NEW s \in Seq(S)
    PROVE  IsFiniteSet(ToSet(s)) /\ Cardinality(ToSet(s)) <= Len(s)
           /\ Cardinality(ToSet(s)) \in Nat
<1>1. s \in [1..Len(s) -> ToSet(s)] /\ DOMAIN s = 1..Len(s) /\ Len(s) \in Nat
  <2>1. DOMAIN s = 1..Len(s) /\ Len(s) \in Nat /\ s \in [1..Len(s) -> S]
    BY LenProperties
  <2> QED BY <2>1 DEF ToSet
<1>2. s \in Surjection(1..Len(s), ToSet(s))
  BY <1>1 DEF Surjection, ToSet
<1>3. IsFiniteSet(1..Len(s)) /\ Cardinality(1..Len(s)) = Len(s)
  <2> DEFINE n == Len(s)
  <2>1. n \in Nat
    BY <1>1
  <2> HIDE DEF n
  <2>2. IsFiniteSet(1..n) /\ Cardinality(1..n) = n
    BY <2>1, FS_Interval
  <2> QED BY <2>2 DEF n
<1>4. IsFiniteSet(ToSet(s)) /\ Cardinality(ToSet(s)) <= Len(s)
  BY <1>2, <1>3, FS_Surjection
<1> QED BY <1>4, FS_CardinalityType

(* MaxCells leaves a name for every statement still to be built. *)
LEMMA RoomIsLeft ==
    ASSUME NEW b \in BuildState, Len(b.cells) < MaxStatements, Len(b.cache) <= CellCacheMax,
           IsFiniteSet(b.live), Cardinality(b.live) <= Cardinality(Docs) * MaxStatements
    PROVE  Room(b)
<1> DEFINE C == ToSet(b.cells)
           L == ToSet(b.cache)
           D == Cardinality(Docs)
<1>1. b.cells \in Seq(Cells) /\ b.cache \in Seq(Cells)
  BY DEF BuildState
<1>2. /\ IsFiniteSet(C) /\ Cardinality(C) <= Len(b.cells) /\ Cardinality(C) \in Nat
      /\ IsFiniteSet(L) /\ Cardinality(L) <= Len(b.cache) /\ Cardinality(L) \in Nat
      /\ Len(b.cells) \in Nat /\ Len(b.cache) \in Nat
  BY <1>1, FewMembers, LenProperties
<1> HIDE DEF C, L
<1>3. IsFiniteSet(b.live \cup C) /\ Cardinality(b.live) \in Nat /\ Cardinality(b.live \cup C) \in Nat
      /\ Cardinality(b.live \cup C) <= Cardinality(b.live) + Cardinality(C)
  <2>1. /\ IsFiniteSet(b.live \cup C)
        /\ Cardinality(b.live \cup C) = Cardinality(b.live) + Cardinality(C) - Cardinality(b.live \cap C)
        /\ IsFiniteSet(b.live \cap C)
    BY <1>2, FS_Union, FS_Intersection
  <2>2. Cardinality(b.live \cap C) \in Nat /\ Cardinality(b.live) \in Nat
        /\ Cardinality(b.live \cup C) \in Nat
    BY <2>1, FS_CardinalityType
  <2> QED BY <1>2, <2>1, <2>2
<1>4. IsFiniteSet(b.live \cup C \cup L) /\ Cardinality(b.live \cup C \cup L) \in Nat
      /\ Cardinality(b.live \cup C \cup L) <= Cardinality(b.live) + Cardinality(C) + Cardinality(L)
  <2> DEFINE U == b.live \cup C
  <2>0. IsFiniteSet(U) /\ Cardinality(U) \in Nat /\ Cardinality(U) <= Cardinality(b.live) + Cardinality(C)
    BY <1>3
  <2> HIDE DEF U
  <2>1. /\ IsFiniteSet(U \cup L)
        /\ Cardinality(U \cup L) = Cardinality(U) + Cardinality(L) - Cardinality(U \cap L)
        /\ IsFiniteSet(U \cap L)
    BY <1>2, <2>0, FS_Union, FS_Intersection
  <2>2. Cardinality(U \cap L) \in Nat /\ Cardinality(U \cup L) \in Nat
    BY <2>1, FS_CardinalityType
  <2> QED BY <1>2, <1>3, <2>0, <2>1, <2>2 DEF U
<1>5. /\ D \in Nat /\ MaxStatements \in Nat /\ MaxCells \in Nat /\ CellCacheMax \in Nat
      /\ MaxCells >= CellCacheMax + (D + 1) * MaxStatements
  BY DocumentAssumptions, FS_CardinalityType
<1>6. IsFiniteSet(Cells) /\ Cardinality(Cells) = MaxCells
  <2>1. /\ IsFiniteSet(1..MaxCells)
        /\ Cardinality(1..MaxCells) = IF 1 > MaxCells THEN 0 ELSE MaxCells - 1 + 1
    BY <1>5, FS_Interval
  <2> QED BY <1>5, <2>1 DEF Cells
<1> DEFINE U == b.live \cup C \cup L
<1>7. Cardinality(U) < MaxCells
  <2>1. (D + 1) * MaxStatements = D * MaxStatements + MaxStatements /\ D * MaxStatements \in Nat
    BY <1>5
  <2> HIDE DEF D
  <2> DEFINE M == D * MaxStatements
  <2>2. M \in Nat /\ MaxCells >= CellCacheMax + (M + MaxStatements) /\ Cardinality(b.live) <= M
    BY <1>5, <2>1 DEF D
  <2> HIDE DEF M, U
  <2>3. Cardinality(U) <= Cardinality(b.live) + Cardinality(C) + Cardinality(L)
    BY <1>4 DEF U
  <2>4. Cardinality(U) \in Nat
    BY <1>4 DEF U
  <2> QED BY <1>2, <1>3, <1>5, <2>2, <2>3, <2>4
<1>8. SUFFICES ASSUME Cells \subseteq U PROVE FALSE
  BY DEF Room, C, L
<1>9. Cardinality(Cells) <= Cardinality(U)
  BY <1>4, <1>8, FS_Subset
<1> QED BY <1>4, <1>5, <1>6, <1>7, <1>9

LEMMA BuildInvariantStep ==
    ASSUME NEW ts \in Seq(Texts), NEW i \in Nat, i < Len(ts), NEW heap, NEW live,
           NEW b, BuildInvariant(b, i, ts, heap, live),
           NEW r, NEW x \in Cells, NEW k, NEW c,
           CellBuilt(b, ts[i + 1], r, x), CacheServed(b, ts[i + 1], r, x, k, c)
    PROVE  BuildInvariant(r, i + 1, ts, heap, live)
<1>1. /\ b.cells \in Seq(Cells) /\ b.cache \in Seq(Cells)
      /\ Len(b.cells) = i /\ DOMAIN b.cells = 1..i
      /\ \A j \in 1..i : b.cells[j] \in Cells /\ b.cells[j] \in ToSet(b.cells)
  <2>1. b.cells \in Seq(Cells) /\ b.cache \in Seq(Cells) /\ Len(b.cells) = i
    BY DEF BuildInvariant, BuildState
  <2>2. DOMAIN b.cells = 1..i
    BY <2>1, LenProperties
  <2> QED BY <2>1, <2>2, ElementOfSeq DEF ToSet
<1>2. /\ r.cells \in Seq(Cells) /\ Len(r.cells) = i + 1 /\ DOMAIN r.cells = 1..(i + 1)
      /\ \A j \in 1..i : r.cells[j] = b.cells[j]
      /\ r.cells[i + 1] = x
  <2>1. r.cells = Append(b.cells, x)
    BY DEF CellBuilt
  <2>2. /\ r.cells \in Seq(Cells) /\ Len(r.cells) = i + 1
        /\ \A j \in 1..i : r.cells[j] = b.cells[j]
        /\ r.cells[i + 1] = x
    BY <1>1, <2>1, AppendProperties
  <2> QED BY <2>2, LenProperties
<1>3. /\ r \in BuildState /\ r.live = b.live
      /\ x \notin ToSet(b.cells) /\ r.parsed[x] = ts[i + 1]
      /\ \A y \in Cells \ {x} : r.parsed[y] = b.parsed[y]
      /\ \/ x \in ToSet(b.cache) /\ r.parsed = b.parsed /\ r.fresh = b.fresh
         \/ x \notin b.live \cup ToSet(b.cache) /\ r.fresh = b.fresh \cup {x}
  BY DEF CellBuilt
<1>4. \A j \in 1..(i + 1) : j = i + 1 \/ j \in 1..i
  OBVIOUS
<1>5. \A j \in 1..(i + 1) : r.parsed[r.cells[j]] = ts[j]
  <2>1. ASSUME NEW j \in 1..i PROVE r.parsed[r.cells[j]] = ts[j]
    <3>1. b.cells[j] \in Cells \ {x}
      BY <1>1, <1>3
    <3>2. r.parsed[b.cells[j]] = b.parsed[b.cells[j]]
      BY <1>3, <3>1
    <3> QED BY <1>2, <3>2 DEF BuildInvariant
  <2> QED BY <1>2, <1>3, <1>4, <2>1
<1>6. \A j, m \in 1..(i + 1) : r.cells[j] = r.cells[m] => j = m
  <2>1. \A j \in 1..i : r.cells[j] # x
    BY <1>1, <1>2, <1>3
  <2> QED BY <1>2, <1>4, <2>1 DEF BuildInvariant
<1>7. r.fresh \subseteq ToSet(r.cells)
  <2>1. x \in ToSet(r.cells)
    BY <1>2 DEF ToSet
  <2>2. ToSet(b.cells) \subseteq ToSet(r.cells)
    BY <1>1, <1>2 DEF ToSet
  <2> QED BY <1>3, <2>1, <2>2 DEF BuildInvariant
<1>8. r.live = live /\ r.fresh \cap live = {}
  BY <1>3 DEF BuildInvariant
<1>9. \A y \in Cells \ r.fresh : r.parsed[y] = heap[y]
  BY <1>3 DEF BuildInvariant
<1>10. Len(r.cache) <= CellCacheMax /\ DistinctTexts(r.cache, r.parsed)
  BY <1>1, MovesKeepTextsDistinct DEF BuildInvariant, CacheServed
<1> QED BY <1>2, <1>3, <1>5, <1>6, <1>7, <1>8, <1>9, <1>10 DEF BuildInvariant

(* The cache and the heap a document may be built against. *)
BuildsFrom(ts, lru, heap, live) ==
    /\ ts \in Seq(Texts) /\ Len(ts) <= MaxStatements
    /\ lru \in Seq(Cells) /\ Len(lru) <= CellCacheMax
    /\ heap \in [Cells -> Texts] /\ DistinctTexts(lru, heap)
    /\ live \in SUBSET Cells /\ IsFiniteSet(live)
    /\ Cardinality(live) <= Cardinality(Docs) * MaxStatements

(* One iteration, as the equation and buildCell() give it. *)
LEMMA BuildsStep ==
    ASSUME NEW ts, NEW lru, NEW heap, NEW live, BuildsFrom(ts, lru, heap, live),
           NEW i \in Nat, i < Len(ts),
           BuildInvariant(Builds(ts, lru, heap, live)[i], i, ts, heap, live)
    PROVE  LET b == Builds(ts, lru, heap, live)[i]
               r == Builds(ts, lru, heap, live)[i + 1]
           IN  \E x \in Cells, k \in Nat, c \in Cells :
                 CellBuilt(b, ts[i + 1], r, x) /\ CacheServed(b, ts[i + 1], r, x, k, c)
<1> DEFINE F == Builds(ts, lru, heap, live)
           n == Len(ts)
<1>1. ts \in Seq(Texts) /\ n \in Nat /\ n <= MaxStatements
  BY LenProperties DEF BuildsFrom
<1>2. F = [j \in 0..n |-> IF j = 0 THEN BuildFrom(lru, heap, live)
                          ELSE BuildCell(F[j - 1], ts[j])]
  BY <1>1, BuildsEquation
<1> HIDE DEF F
<1>a. n = Len(ts)
  OBVIOUS
<1> HIDE DEF n
<1>3. i + 1 \in 0..n /\ i + 1 # 0 /\ i + 1 - 1 = i /\ i + 1 \in 1..n
  BY <1>1, <1>a
<1>4. F[i + 1] = BuildCell(F[i], ts[i + 1])
  <2>1. \A j \in 0..n : j # 0 => F[j] = BuildCell(F[j - 1], ts[j])
    BY <1>2
  <2>2. F[i + 1] = BuildCell(F[i + 1 - 1], ts[i + 1])
    BY <1>3, <2>1
  <2> QED BY <1>3, <2>2
<1>5. ts[i + 1] \in Texts
  BY <1>1, <1>3, <1>a, ElementOfSeq
<1>6. /\ F[i] \in BuildState /\ F[i].live = live /\ Len(F[i].cells) = i
      /\ Len(F[i].cache) <= CellCacheMax /\ DistinctTexts(F[i].cache, F[i].parsed)
  BY DEF BuildInvariant, F
<1>7. i < MaxStatements
  BY <1>1, <1>3, DocumentAssumptions
<1>8. Room(F[i])
  BY <1>6, <1>7, RoomIsLeft DEF BuildsFrom
<1>9. \E x \in Cells, k \in Nat, c \in Cells :
        /\ CellBuilt(F[i], ts[i + 1], BuildCell(F[i], ts[i + 1]), x)
        /\ CacheServed(F[i], ts[i + 1], BuildCell(F[i], ts[i + 1]), x, k, c)
  BY <1>5, <1>6, <1>8, BuildCellWorks
<1> QED BY <1>4, <1>9 DEF F

(* The loop's invariant holds after every statement. *)
LEMMA BuildInvariantHolds ==
    ASSUME NEW ts, NEW lru, NEW heap, NEW live, BuildsFrom(ts, lru, heap, live)
    PROVE  \A i \in 0..Len(ts) :
             BuildInvariant(Builds(ts, lru, heap, live)[i], i, ts, heap, live)
<1> DEFINE F == Builds(ts, lru, heap, live)
           T == {i \in Nat : i <= Len(ts) => BuildInvariant(F[i], i, ts, heap, live)}
<1>0. ts \in Seq(Texts) /\ Len(ts) \in Nat
  BY LenProperties DEF BuildsFrom
<1>1. 0 \in T
  <2>1. F[0] = BuildFrom(lru, heap, live)
    BY <1>0, BuildsEquation
  <2>2. <<>> \in Seq(Cells) /\ Len(<<>>) = 0
    BY EmptySeq
  <2>3. BuildInvariant(BuildFrom(lru, heap, live), 0, ts, heap, live)
    BY <2>2 DEF BuildFrom, BuildInvariant, BuildState, BuildsFrom
  <2> HIDE DEF F
  <2> QED BY <2>1, <2>3
<1>2. ASSUME NEW i \in T PROVE i + 1 \in T
  <2>1. SUFFICES ASSUME i + 1 <= Len(ts) PROVE BuildInvariant(F[i + 1], i + 1, ts, heap, live)
    OBVIOUS
  <2>2. i \in Nat /\ i < Len(ts) /\ BuildInvariant(F[i], i, ts, heap, live)
    BY <1>0, <2>1
  <2>3. PICK x \in Cells, k \in Nat, c \in Cells :
          CellBuilt(F[i], ts[i + 1], F[i + 1], x) /\ CacheServed(F[i], ts[i + 1], F[i + 1], x, k, c)
    BY <2>2, BuildsStep
  <2> QED BY <1>0, <2>2, <2>3, BuildInvariantStep
<1>3. T = Nat
  <2> HIDE DEF T
  <2>1. T \in SUBSET Nat
    BY DEF T
  <2> QED BY <1>1, <1>2, <2>1, Induction
<1> QED BY <1>0, <1>3

-----------------------------------------------------------------------------
(* What the cache holds while a document is built. *)

(* B, and the texts of the statements built so far. *)
Seen(B, ts, i) == B \cup {ts[j] : j \in 1..i}

FirstAt(ts, j) == \A m \in 1..(j - 1) : ts[m] # ts[j]

(* After i statements: the texts of B and of those statements have their   *)
(* entries, which were used after all others; those of B are the entries   *)
(* they had, in lru and heap; and the first cell of each text is its entry.*)
RecentInvariant(b, i, ts, B, lru, heap) ==
    /\ Suffix(b.cache, b.parsed, Seen(B, ts, i))
    /\ Held(b.cache, b.parsed, Seen(B, ts, i))
    /\ \A y \in ToSet(lru) : heap[y] \in B => y \in ToSet(b.cache) /\ b.parsed[y] = heap[y]
    /\ \A j \in 1..i : FirstAt(ts, j) => b.cells[j] \in ToSet(b.cache)

LEMMA RecentInvariantStep ==
    ASSUME NEW ts \in Seq(Texts), NEW i \in Nat, i < Len(ts), NEW heap, NEW live,
           NEW lru, NEW B, NEW b, BuildInvariant(b, i, ts, heap, live),
           RecentInvariant(b, i, ts, B, lru, heap),
           IsFiniteSet(B \cup ToSet(ts)), Cardinality(B \cup ToSet(ts)) <= CellCacheMax,
           NEW r, NEW x \in Cells, NEW k, NEW c,
           CellBuilt(b, ts[i + 1], r, x), CacheServed(b, ts[i + 1], r, x, k, c)
    PROVE  RecentInvariant(r, i + 1, ts, B, lru, heap)
<1> DEFINE W == Seen(B, ts, i)
           t == ts[i + 1]
           U == B \cup ToSet(ts)
<1>0. /\ Len(ts) \in Nat /\ DOMAIN ts = 1..Len(ts) /\ i + 1 \in DOMAIN ts
      /\ \A j \in 1..i : j \in DOMAIN ts
  <2> DEFINE n == Len(ts)
  <2>1. n \in Nat /\ DOMAIN ts = 1..n /\ i < n
    BY LenProperties
  <2> HIDE DEF n
  <2>2. i + 1 \in 1..n /\ \A j \in 1..i : j \in 1..n
    BY <2>1
  <2> QED BY <2>1, <2>2 DEF n
<1>1. Seen(B, ts, i + 1) = W \cup {t}
  <2>1. \A j : j \in 1..(i + 1) <=> j = i + 1 \/ j \in 1..i
    OBVIOUS
  <2> QED BY <2>1 DEF Seen
<1>2. W \cup {t} \subseteq U
  BY <1>0 DEF Seen, ToSet
<1> HIDE DEF W, U
<1>3. /\ b.cells \in Seq(Cells) /\ b.cache \in Seq(Cells) /\ DOMAIN b.cells = 1..i
      /\ Len(b.cells) = i
      /\ \A j \in 1..i : b.cells[j] \in Cells /\ b.cells[j] \in ToSet(b.cells)
      /\ \A j \in 1..i : b.parsed[b.cells[j]] = ts[j]
      /\ Len(b.cache) <= CellCacheMax /\ DistinctTexts(b.cache, b.parsed)
  <2>1. b.cells \in Seq(Cells) /\ b.cache \in Seq(Cells) /\ Len(b.cells) = i
    BY DEF BuildInvariant, BuildState
  <2>2. DOMAIN b.cells = 1..i
    BY <2>1, LenProperties
  <2> QED BY <2>1, <2>2, ElementOfSeq DEF ToSet, BuildInvariant
<1>4. /\ \A j \in 1..i : r.cells[j] = b.cells[j]
      /\ r.cells[i + 1] = x
      /\ \A y \in Cells \ {x} : r.parsed[y] = b.parsed[y]
      /\ x \notin ToSet(b.cells)
  <2>1. r.cells = Append(b.cells, x)
    BY DEF CellBuilt
  <2> QED BY <1>3, <2>1, AppendProperties DEF CellBuilt
<1>5. /\ Moves(b.cache, b.parsed, k, c, t, r.cache, r.parsed)
      /\ c = x \/ c \in ToSet(b.cells)
      /\ k \in DOMAIN b.cache =>
           \/ b.parsed[b.cache[k]] = t /\ c = b.cache[k]
           \/ k = 1 /\ Len(b.cache) = CellCacheMax /\ \A q \in DOMAIN b.cache : b.parsed[b.cache[q]] # t
  BY DEF CacheServed
<1>6. /\ Suffix(b.cache, b.parsed, W) /\ Held(b.cache, b.parsed, W)
      /\ \A y \in ToSet(lru) : heap[y] \in B => y \in ToSet(b.cache) /\ b.parsed[y] = heap[y]
      /\ \A j \in 1..i : FirstAt(ts, j) => b.cells[j] \in ToSet(b.cache)
  BY DEF RecentInvariant, W
<1>7. Spares(b.cache, b.parsed, k, c, t, W)
  (* The entry that is evicted is none of W's: all of W and t would need   *)
  (* more places than U has members.                                       *)
  <2>1. SUFFICES ASSUME k = 1, Len(b.cache) = CellCacheMax,
                        \A q \in DOMAIN b.cache : b.parsed[b.cache[q]] # t
                 PROVE  b.parsed[b.cache[k]] \notin W
    BY <1>5 DEF Spares
  <2>2. t \notin W
    BY <1>6, <2>1 DEF Held
  <2>3. IsFiniteSet(U) /\ Len(b.cache) >= Cardinality(U) /\ Len(b.cache) # 0
    <3>1. IsFiniteSet(U) /\ Cardinality(U) <= CellCacheMax
      BY DEF U
    <3>2. Cardinality(U) \in Nat /\ CellCacheMax \in Nat \ {0}
      BY <3>1, FS_CardinalityType, DocumentAssumptions
    <3> QED BY <2>1, <3>1, <3>2
  <2> QED BY <1>2, <1>3, <1>6, <2>1, <2>2, <2>3, LeastRecentIsAnother
<1> HIDE DEF t
<1>8. ASSUME NEW y \in ToSet(b.cache), b.parsed[y] \in W
      PROVE  y \in ToSet(r.cache) /\ r.parsed[y] = b.parsed[y]
  <2> DEFINE old == b.cache
             new == r.cache
             before == b.parsed
             after == r.parsed
  <2>1. /\ old \in Seq(Cells) /\ Moves(old, before, k, c, t, new, after)
        /\ y \in ToSet(old) /\ before[y] \in W
        /\ Spares(old, before, k, c, t, W)
    BY <1>3, <1>5, <1>7, <1>8
  <2> HIDE DEF old, new, before, after
  <2>2. y \in ToSet(new) /\ after[y] = before[y]
    BY <2>1, MovesKeepEntries
  <2> QED BY <2>2 DEF old, new, before, after
<1>9. c \in ToSet(r.cache) /\ r.parsed[c] = t
  <2>1. r.parsed[c] = t
    BY <1>5 DEF Moves
  <2>2. Len(r.cache) \in DOMAIN r.cache /\ r.cache[Len(r.cache)] = c
    BY <1>3, <1>5, MovedPlaces
  <2> QED BY <2>1, <2>2 DEF ToSet
<1>10. Suffix(r.cache, r.parsed, W \cup {t})
  BY <1>3, <1>5, <1>6, MovesKeepSuffix
<1>11. Held(r.cache, r.parsed, W \cup {t})
  <2>1. ASSUME NEW w \in W PROVE \E y \in ToSet(r.cache) : r.parsed[y] = w
    <3>1. PICK p \in DOMAIN b.cache : b.parsed[b.cache[p]] = w
      BY <1>6 DEF Held
    <3>2. b.cache[p] \in ToSet(b.cache)
      BY DEF ToSet
    <3> QED BY <1>8, <3>1, <3>2
  <2>2. \A w \in W \cup {t} : \E y \in ToSet(r.cache) : r.parsed[y] = w
    BY <1>9, <2>1
  <2> QED BY <2>2 DEF Held, ToSet
<1>12. ASSUME NEW y \in ToSet(lru), heap[y] \in B
       PROVE  y \in ToSet(r.cache) /\ r.parsed[y] = heap[y]
  BY <1>6, <1>8, <1>12 DEF W, Seen
<1>13. ASSUME NEW j \in 1..(i + 1), FirstAt(ts, j)
       PROVE  r.cells[j] \in ToSet(r.cache)
  <2>1. CASE j \in 1..i
    <3>1. b.cells[j] \in ToSet(b.cache) /\ b.parsed[b.cells[j]] = ts[j]
      BY <1>3, <1>6, <1>13, <2>1
    <3>2. ts[j] \in W
      BY <2>1 DEF W, Seen
    <3> QED BY <1>4, <1>8, <2>1, <3>1, <3>2
  <2>2. CASE j = i + 1
    <3>1. c = x
      <4>1. SUFFICES ASSUME c \in ToSet(b.cells) PROVE FALSE
        BY <1>5
      <4>2. PICK m \in 1..i : c = b.cells[m]
        BY <1>3, <4>1 DEF ToSet
      <4>3. c \in Cells \ {x}
        BY <1>3, <1>4, <4>1, <4>2
      <4>4. ts[m] = t
        BY <1>3, <1>4, <1>9, <4>2, <4>3
      <4>5. m \in 1..(j - 1) /\ t = ts[j]
        BY <2>2 DEF t
      <4> QED BY <1>13, <4>4, <4>5 DEF FirstAt
    <3> QED BY <1>4, <1>9, <2>2, <3>1
  <2>3. j = i + 1 \/ j \in 1..i
    OBVIOUS
  <2> QED BY <2>1, <2>2, <2>3
<1> QED BY <1>1, <1>10, <1>11, <1>12, <1>13 DEF RecentInvariant

(* While B and the statements' texts fit in the cache together, and B's    *)
(* entries were used last, the invariant holds after every statement.      *)
LEMMA RecentInvariantHolds ==
    ASSUME NEW ts, NEW lru, NEW heap, NEW live, BuildsFrom(ts, lru, heap, live),
           NEW B, Suffix(lru, heap, B), Held(lru, heap, B),
           IsFiniteSet(B \cup ToSet(ts)), Cardinality(B \cup ToSet(ts)) <= CellCacheMax
    PROVE  \A i \in 0..Len(ts) :
             RecentInvariant(Builds(ts, lru, heap, live)[i], i, ts, B, lru, heap)
<1> DEFINE F == Builds(ts, lru, heap, live)
           T == {i \in Nat : i <= Len(ts) => RecentInvariant(F[i], i, ts, B, lru, heap)}
<1>0. ts \in Seq(Texts) /\ Len(ts) \in Nat
  BY LenProperties DEF BuildsFrom
<1>1. 0 \in T
  <2>1. F[0] = BuildFrom(lru, heap, live)
    BY <1>0, BuildsEquation
  <2>2. Seen(B, ts, 0) = B
    BY DEF Seen
  <2>3. RecentInvariant(BuildFrom(lru, heap, live), 0, ts, B, lru, heap)
    BY <2>2 DEF BuildFrom, RecentInvariant
  <2> HIDE DEF F
  <2> QED BY <2>1, <2>3
<1>2. ASSUME NEW i \in T PROVE i + 1 \in T
  <2>1. SUFFICES ASSUME i + 1 <= Len(ts)
                 PROVE  RecentInvariant(F[i + 1], i + 1, ts, B, lru, heap)
    OBVIOUS
  <2>2. i \in Nat /\ i < Len(ts) /\ i \in 0..Len(ts) /\ RecentInvariant(F[i], i, ts, B, lru, heap)
    BY <1>0, <2>1
  <2>3. BuildInvariant(F[i], i, ts, heap, live)
    BY <2>2, BuildInvariantHolds
  <2>4. PICK x \in Cells, k \in Nat, c \in Cells :
          CellBuilt(F[i], ts[i + 1], F[i + 1], x) /\ CacheServed(F[i], ts[i + 1], F[i + 1], x, k, c)
    BY <2>2, <2>3, BuildsStep
  <2> QED BY <1>0, <2>2, <2>3, <2>4, RecentInvariantStep
<1>3. T = Nat
  <2> HIDE DEF T
  <2>1. T \in SUBSET Nat
    BY DEF T
  <2> QED BY <1>1, <1>2, <2>1, Induction
<1> QED BY <1>0, <1>3

-----------------------------------------------------------------------------
(* The documents, their cells and the cache between two operations. *)

(* Types; no text twice in the cache; CellsOwnTheirSpan. *)
HeapInvariant ==
    /\ parsed \in [Cells -> Texts]
    /\ cache \in Seq(Cells) /\ Len(cache) <= CellCacheMax /\ DistinctTexts(cache, parsed)
    /\ DOMAIN docs \subseteq Docs /\ latest \in DOMAIN docs
    /\ docs = [d \in DOMAIN docs |-> docs[d]]
    /\ \A d \in DOMAIN docs :
         /\ docs[d] = [texts |-> docs[d].texts, cells |-> docs[d].cells, memo |-> docs[d].memo]
         /\ docs[d].texts \in Scripts
         /\ docs[d].cells \in Seq(Cells)
    /\ CellsOwnTheirSpan

(* The document built last, if its texts fit: they were used after all     *)
(* others, and the cache's entry for each is its first cell.               *)
RecentlyBuilt ==
    LET doc == docs[latest]
    IN  Cardinality(TextsOf(doc)) <= CellCacheMax
          => /\ Suffix(cache, parsed, TextsOf(doc))
             /\ \A t \in TextsOf(doc) : FirstCell(doc, t) \in ToSet(cache)

LEMMA ScriptsAreSequences ==
    ASSUME NEW ts \in Scripts
    PROVE  /\ ts \in Seq(Texts) /\ Len(ts) \in Nat /\ Len(ts) <= MaxStatements
           /\ DOMAIN ts = 1..Len(ts)
<1>1. PICK m \in 0..MaxStatements : ts \in [1..m -> Texts]
  BY DEF Scripts, BoundedSeq, SeqOf
<1>2. m \in Nat /\ m <= MaxStatements
  BY DocumentAssumptions
<1>3. ts \in Seq(Texts)
  BY <1>1, <1>2, SeqDef
<1>4. Len(ts) \in Nat /\ DOMAIN ts = 1..Len(ts)
  BY <1>3, LenProperties
<1>5. Len(ts) = m
  <2> DEFINE n == Len(ts)
  <2>1. n \in Nat /\ 1..n = 1..m
    BY <1>1, <1>4
  <2> HIDE DEF n
  <2>2. n = m
    BY <1>2, <2>1
  <2> QED BY <2>2 DEF n
<1> QED BY <1>2, <1>3, <1>4, <1>5

(* FirstCell() is the cell of the text's first statement. *)
LEMMA FirstCellIsFirst ==
    ASSUME NEW doc, doc.texts \in Seq(Texts), NEW t \in TextsOf(doc)
    PROVE  \E i \in 1..Len(doc.texts) :
             doc.texts[i] = t /\ FirstAt(doc.texts, i) /\ FirstCell(doc, t) = doc.cells[i]
<1> DEFINE ts == doc.texts
           n == Len(ts)
           T == {i \in 1..n : ts[i] = t}
<1>1. n \in Nat /\ DOMAIN ts = 1..n
  BY LenProperties
<1> HIDE DEF n
<1>2. T \in SUBSET Nat /\ T # {}
  BY <1>1 DEF TextsOf, ToSet
<1>3. PICK i \in T : \A y \in T : i <= y
  <2> HIDE DEF T
  <2> QED BY <1>2, Least
<1>4. \A j \in 1..(i - 1) : ts[j] # t
  BY <1>1, <1>3
<1> DEFINE k == CHOOSE j \in DOMAIN ts : ts[j] = t /\ \A m \in 1..(j - 1) : ts[m] # t
<1>5. k \in DOMAIN ts /\ ts[k] = t /\ \A m \in 1..(k - 1) : ts[m] # t
  <2>1. \E j \in DOMAIN ts : ts[j] = t /\ \A m \in 1..(j - 1) : ts[m] # t
    BY <1>1, <1>3, <1>4
  <2> QED BY <2>1
<1>6. FirstCell(doc, t) = doc.cells[k]
  BY DEF FirstCell
<1> HIDE DEF k
<1> QED BY <1>1, <1>5, <1>6 DEF FirstAt, n

(* No more cells are alive than MaxCells counts for the documents. *)
LEMMA LiveIsBounded ==
    ASSUME HeapInvariant
    PROVE  /\ Live \in SUBSET Cells /\ IsFiniteSet(Live)
           /\ Cardinality(Live) <= Cardinality(Docs) * MaxStatements
<1> DEFINE S == Docs \X (1..MaxStatements)
           f == [p \in S |-> IF p[1] \in DOMAIN docs THEN docs[p[1]].cells[p[2]] ELSE 0]
           T == {f[p] : p \in S}
<1>1. MaxStatements \in Nat /\ IsFiniteSet(Docs) /\ Cardinality(Docs) \in Nat
  BY DocumentAssumptions, FS_CardinalityType
<1>2. IsFiniteSet(S) /\ Cardinality(S) = Cardinality(Docs) * MaxStatements
  <2>1. IsFiniteSet(1..MaxStatements) /\ Cardinality(1..MaxStatements) = MaxStatements
    BY <1>1, FS_Interval
  <2> QED BY <1>1, <2>1, FS_Product
<1>3. ASSUME NEW d \in DOMAIN docs, NEW c \in ToSet(docs[d].cells)
      PROVE  c \in Cells /\ c \in T
  <2>1. docs[d].cells \in Seq(Cells) /\ d \in Docs
    BY DEF HeapInvariant
  <2>2. Len(docs[d].cells) = Len(docs[d].texts) /\ Len(docs[d].texts) \in Nat
        /\ Len(docs[d].texts) <= MaxStatements
    BY ScriptsAreSequences DEF HeapInvariant, CellsOwnTheirSpan
  <2>3. DOMAIN docs[d].cells = 1..Len(docs[d].texts)
    BY <2>1, <2>2, LenProperties
  <2>4. PICK i \in 1..Len(docs[d].texts) : c = docs[d].cells[i]
    BY <2>3 DEF ToSet
  <2>5. i \in 1..MaxStatements
    <3> DEFINE n == Len(docs[d].texts)
    <3>1. n \in Nat /\ n <= MaxStatements /\ i \in 1..n
      BY <2>2
    <3> HIDE DEF n
    <3> QED BY <1>1, <3>1
  <2>6. <<d, i>> \in S /\ f[<<d, i>>] = c
    BY <2>1, <2>4, <2>5
  <2>7. c \in Cells
    BY <2>1, <2>2, <2>4, ElementOfSeq
  <2> HIDE DEF f
  <2> QED BY <2>6, <2>7
<1>4. f \in Surjection(S, T)
  <2>1. f \in [S -> T]
    OBVIOUS
  <2> HIDE DEF f
  <2> QED BY <2>1 DEF Surjection
<1>5. IsFiniteSet(T) /\ Cardinality(T) <= Cardinality(S)
  <2> HIDE DEF S, T, f
  <2> QED BY <1>2, <1>4, FS_Surjection
<1>6. Live \subseteq T /\ Live \subseteq Cells
  BY <1>3 DEF Live
<1> HIDE DEF S, T, f
<1>7. IsFiniteSet(Live) /\ Cardinality(Live) <= Cardinality(T)
  BY <1>5, <1>6, FS_Subset
<1>8. Cardinality(Live) \in Nat /\ Cardinality(T) \in Nat /\ Cardinality(S) \in Nat
  BY <1>2, <1>5, <1>7, FS_CardinalityType
<1> QED BY <1>2, <1>5, <1>6, <1>7, <1>8

LEMMA StateBuildsFrom ==
    ASSUME HeapInvariant, NEW ts \in Scripts
    PROVE  BuildsFrom(ts, cache, parsed, Live)
  BY LiveIsBounded, ScriptsAreSequences DEF HeapInvariant, BuildsFrom

LEMMA BlankIsText ==
    ASSUME NEW ts \in Scripts
    PROVE  Blank \in Texts
<1>1. ts \in Seq(Texts)
  BY ScriptsAreSequences
<1>2. 1 \in 1..Len(ts)
  <2>1. ts # <<>>
    BY DEF Scripts
  <2>2. Len(ts) \in Nat \ {0}
    BY <1>1, <2>1, EmptySeq
  <2> QED BY <2>2
<1> QED BY <1>1, <1>2, ElementOfSeq DEF Blank

LEMMA CreateBuildsFrom ==
    ASSUME NEW ts \in Scripts
    PROVE  BuildsFrom(ts, <<>>, [c \in Cells |-> Blank], {})
<1>1. ts \in Seq(Texts) /\ Len(ts) <= MaxStatements
  BY ScriptsAreSequences
<1>3. Blank \in Texts
  BY BlankIsText
<1>4. IsFiniteSet({}) /\ Cardinality({}) = 0
  BY FS_EmptySet
<1>5. 0 <= Cardinality(Docs) * MaxStatements
  <2>1. Cardinality(Docs) \in Nat /\ MaxStatements \in Nat
    BY DocumentAssumptions, FS_CardinalityType
  <2> QED BY <2>1
<1>6. <<>> \in Seq(Cells) /\ Len(<<>>) = 0 /\ 0 <= CellCacheMax
  BY EmptySeq, DocumentAssumptions
<1>7. DistinctTexts(<<>>, [c \in Cells |-> Blank])
  BY DEF DistinctTexts
<1>8. [c \in Cells |-> Blank] \in [Cells -> Texts]
  BY <1>3
<1> QED BY <1>1, <1>4, <1>5, <1>6, <1>7, <1>8 DEF BuildsFrom

(* The finished document and the cache it leaves. *)
LEMMA BuiltWorks ==
    ASSUME NEW ts, NEW lru, NEW heap, NEW live, BuildsFrom(ts, lru, heap, live)
    PROVE  BuildInvariant(Built(ts, lru, heap, live), Len(ts), ts, heap, live)
<1>1. Len(ts) \in Nat
  BY LenProperties DEF BuildsFrom
<1>2. Len(ts) \in 0..Len(ts)
  BY <1>1
<1> QED BY <1>2, BuildInvariantHolds DEF Built

(* Built over any cache, a document whose texts fit has them there. *)
LEMMA BuiltIsRecent ==
    ASSUME NEW ts, NEW lru, NEW heap, NEW live, BuildsFrom(ts, lru, heap, live),
           NEW B, Suffix(lru, heap, B), Held(lru, heap, B),
           IsFiniteSet(B \cup ToSet(ts)), Cardinality(B \cup ToSet(ts)) <= CellCacheMax
    PROVE  RecentInvariant(Built(ts, lru, heap, live), Len(ts), ts, B, lru, heap)
<1>1. Len(ts) \in Nat
  BY LenProperties DEF BuildsFrom
<1>2. Len(ts) \in 0..Len(ts)
  BY <1>1
<1> QED BY <1>2, RecentInvariantHolds DEF Built

-----------------------------------------------------------------------------
(* One operation. *)

(* What an edit does to the heap and to the memos on it. *)
LEMMA WithTextWorks ==
    ASSUME HeapInvariant, NEW e \in Docs, NEW ts \in Scripts, WithText(e, ts)
    PROVE  LET b == Built(ts, cache, parsed, Live)
           IN  /\ BuildInvariant(b, Len(ts), ts, parsed, Live)
               /\ cache' = b.cache /\ latest' = e
               /\ parsed' \in [Cells -> Texts]
               /\ \A c \in ToSet(b.cache) \cup ToSet(b.cells) : parsed'[c] = b.parsed[c]
               /\ DOMAIN docs' = DOMAIN docs \cup {e}
               /\ docs' = [d \in DOMAIN docs' |-> docs'[d]]
               /\ docs'[e] = [texts |-> ts, cells |-> b.cells, memo |-> NoMemo]
               /\ \A d \in DOMAIN docs \ {e} :
                    /\ docs'[d] = docs[d]
                    /\ \A c \in ToSet(docs[d].cells) :
                         parsed'[c] = parsed[c] /\ cellMemo'[c] = cellMemo[c]
               /\ \A c \in Cells : \/ cellMemo'[c] = NoMemo
                                   \/ cellMemo'[c] = cellMemo[c] /\ parsed'[c] = parsed[c]
<1> DEFINE b == Built(ts, cache, parsed, Live)
           held == ToSet(b.cache) \cup ToSet(b.cells)
                     \cup UNION {ToSet(docs[d].cells) : d \in DOMAIN docs \ {e}}
<1>1. BuildInvariant(b, Len(ts), ts, parsed, Live)
  BY StateBuildsFrom, BuiltWorks
<1>2. /\ parsed' = [c \in Cells |-> IF c \in held THEN b.parsed[c] ELSE Blank]
      /\ cache' = b.cache
      /\ cellMemo' = [c \in Cells |-> IF c \in held \ b.fresh THEN cellMemo[c] ELSE NoMemo]
      /\ docs' = Put(docs, e, [texts |-> ts, cells |-> b.cells, memo |-> NoMemo])
      /\ latest' = e
  BY DEF WithText
<1> HIDE DEF b
<1>3. /\ b.parsed \in [Cells -> Texts] /\ b.cache \in Seq(Cells) /\ b.cells \in Seq(Cells)
      /\ b.fresh \cap Live = {}
      /\ \A y \in Cells \ b.fresh : b.parsed[y] = parsed[y]
  BY <1>1 DEF BuildInvariant, BuildState
<1>4. ToSet(b.cache) \subseteq Cells /\ ToSet(b.cells) \subseteq Cells
  BY <1>3, LenProperties, ElementOfSeq DEF ToSet
<1>5. parsed' \in [Cells -> Texts]
  BY <1>2, <1>3, BlankIsText
<1>6. \A c \in ToSet(b.cache) \cup ToSet(b.cells) : parsed'[c] = b.parsed[c]
  BY <1>2, <1>4
<1>7. /\ DOMAIN docs' = DOMAIN docs \cup {e}
      /\ docs' = [d \in DOMAIN docs' |-> docs'[d]]
      /\ docs'[e] = [texts |-> ts, cells |-> b.cells, memo |-> NoMemo]
      /\ \A d \in DOMAIN docs \ {e} : docs'[d] = docs[d]
  BY <1>2 DEF Put
<1>8. ASSUME NEW d \in DOMAIN docs \ {e}, NEW c \in ToSet(docs[d].cells)
      PROVE  parsed'[c] = parsed[c] /\ cellMemo'[c] = cellMemo[c]
  <2>1. c \in held /\ c \in Live
    BY DEF Live
  <2>2. c \in Cells \ b.fresh
    BY <1>3, <2>1, LiveIsBounded
  <2> QED BY <1>2, <1>3, <2>1, <2>2
<1>9. \A c \in Cells : \/ cellMemo'[c] = NoMemo
                       \/ cellMemo'[c] = cellMemo[c] /\ parsed'[c] = parsed[c]
  BY <1>2, <1>3
<1> QED BY <1>1, <1>2, <1>5, <1>6, <1>7, <1>8, <1>9 DEF b

(* The statements of a built document own their spans, in any heap that    *)
(* agrees with the builder's on its cells.                                 *)
LEMMA BuiltOwnsItsSpan ==
    ASSUME NEW ts \in Scripts, NEW b, NEW heap, NEW live,
           BuildInvariant(b, Len(ts), ts, heap, live),
           NEW after, \A c \in ToSet(b.cells) : after[c] = b.parsed[c]
    PROVE  /\ Len(b.cells) = Len(ts) /\ DOMAIN b.cells = 1..Len(ts) /\ b.cells \in Seq(Cells)
           /\ \A i \in DOMAIN b.cells :
                /\ after[b.cells[i]] = ts[i]
                /\ \A j \in DOMAIN b.cells : b.cells[i] = b.cells[j] => i = j
<1>1. b.cells \in Seq(Cells) /\ Len(b.cells) = Len(ts)
  BY DEF BuildInvariant, BuildState
<1>2. DOMAIN b.cells = 1..Len(ts)
  BY <1>1, LenProperties
<1>3. \A i \in DOMAIN b.cells : b.cells[i] \in ToSet(b.cells)
  BY DEF ToSet
<1> QED BY <1>1, <1>2, <1>3 DEF BuildInvariant

LEMMA AgreeingHeaps ==
    ASSUME NEW lru, NEW heap, NEW after, \A c \in ToSet(lru) : after[c] = heap[c]
    PROVE  /\ DistinctTexts(lru, heap) => DistinctTexts(lru, after)
           /\ \A W : Suffix(lru, heap, W) => Suffix(lru, after, W)
<1>1. \A p \in DOMAIN lru : after[lru[p]] = heap[lru[p]]
  BY DEF ToSet
<1> QED BY <1>1 DEF DistinctTexts, Suffix

(* A document just built over a heap is the document built last, and its   *)
(* texts, if they fit, were used last.                                     *)
LEMMA BuiltIsLatest ==
    ASSUME NEW ts \in Scripts, NEW lru, NEW heap, NEW live, BuildsFrom(ts, lru, heap, live),
           NEW b, b = Built(ts, lru, heap, live),
           NEW after, \A c \in ToSet(b.cache) : after[c] = b.parsed[c],
           NEW doc, doc.texts = ts, doc.cells = b.cells,
           Cardinality(TextsOf(doc)) <= CellCacheMax
    PROVE  /\ Suffix(b.cache, after, TextsOf(doc))
           /\ \A t \in TextsOf(doc) : FirstCell(doc, t) \in ToSet(b.cache)
<1>1. ts \in Seq(Texts) /\ DOMAIN ts = 1..Len(ts)
  BY ScriptsAreSequences
<1>2. IsFiniteSet(ToSet(ts)) /\ TextsOf(doc) = ToSet(ts) /\ {} \cup ToSet(ts) = ToSet(ts)
  BY <1>1, FewMembers DEF TextsOf
<1>3. Suffix(lru, heap, {}) /\ Held(lru, heap, {})
  BY DEF Suffix, Held
<1>4. RecentInvariant(b, Len(ts), ts, {}, lru, heap)
  BY <1>2, <1>3, BuiltIsRecent
<1>5. Seen({}, ts, Len(ts)) = ToSet(ts)
  BY <1>1 DEF Seen, ToSet
<1>6. Suffix(b.cache, b.parsed, ToSet(ts))
  BY <1>4, <1>5 DEF RecentInvariant
<1>7. ASSUME NEW t \in TextsOf(doc) PROVE FirstCell(doc, t) \in ToSet(b.cache)
  <2>1. PICK i \in 1..Len(ts) : FirstAt(ts, i) /\ FirstCell(doc, t) = b.cells[i]
    BY <1>1, FirstCellIsFirst
  <2> QED BY <1>4, <2>1 DEF RecentInvariant
<1>8. Suffix(b.cache, after, ToSet(ts))
  <2> DEFINE new == b.cache
             before == b.parsed
  <2>1. \A c \in ToSet(new) : after[c] = before[c]
    OBVIOUS
  <2>2. Suffix(new, before, ToSet(ts))
    BY <1>6
  <2> HIDE DEF new, before
  <2>3. Suffix(new, after, ToSet(ts))
    BY <2>1, <2>2, AgreeingHeaps
  <2> QED BY <2>3 DEF new
<1> QED BY <1>2, <1>7, <1>8

LEMMA HeapInvariantWithText ==
    ASSUME HeapInvariant, NEW e \in Docs, NEW ts \in Scripts, WithText(e, ts)
    PROVE  HeapInvariant' /\ RecentlyBuilt'
<1> DEFINE b == Built(ts, cache, parsed, Live)
<1>1. /\ BuildInvariant(b, Len(ts), ts, parsed, Live)
      /\ cache' = b.cache /\ latest' = e
      /\ parsed' \in [Cells -> Texts]
      /\ \A c \in ToSet(b.cache) \cup ToSet(b.cells) : parsed'[c] = b.parsed[c]
      /\ DOMAIN docs' = DOMAIN docs \cup {e}
      /\ docs' = [d \in DOMAIN docs' |-> docs'[d]]
      /\ docs'[e] = [texts |-> ts, cells |-> b.cells, memo |-> NoMemo]
      /\ \A d \in DOMAIN docs \ {e} :
           docs'[d] = docs[d] /\ \A c \in ToSet(docs[d].cells) : parsed'[c] = parsed[c]
  BY WithTextWorks
<1>2. BuildsFrom(ts, cache, parsed, Live)
  BY StateBuildsFrom
<1>3. b = Built(ts, cache, parsed, Live)
  OBVIOUS
<1> HIDE DEF b
<1>4. cache' \in Seq(Cells) /\ Len(cache') <= CellCacheMax /\ DistinctTexts(cache', parsed')
  <2>1. b.cache \in Seq(Cells) /\ Len(b.cache) <= CellCacheMax /\ DistinctTexts(b.cache, b.parsed)
    BY <1>1 DEF BuildInvariant, BuildState
  <2> QED BY <1>1, <2>1, AgreeingHeaps
<1>5. /\ Len(b.cells) = Len(ts) /\ b.cells \in Seq(Cells)
      /\ \A i \in DOMAIN b.cells :
           /\ parsed'[b.cells[i]] = ts[i]
           /\ \A j \in DOMAIN b.cells : b.cells[i] = b.cells[j] => i = j
  BY <1>1, BuiltOwnsItsSpan
<1>6. ASSUME NEW d \in DOMAIN docs'
      PROVE  /\ docs'[d] = [texts |-> docs'[d].texts, cells |-> docs'[d].cells,
                            memo |-> docs'[d].memo]
             /\ docs'[d].texts \in Scripts
             /\ docs'[d].cells \in Seq(Cells)
             /\ Len(docs'[d].cells) = Len(docs'[d].texts)
             /\ \A i \in DOMAIN docs'[d].cells :
                  /\ parsed'[docs'[d].cells[i]] = docs'[d].texts[i]
                  /\ \A j \in DOMAIN docs'[d].cells :
                       docs'[d].cells[i] = docs'[d].cells[j] => i = j
  <2>1. CASE d = e
    BY <1>1, <1>5, <2>1
  <2>2. CASE d # e
    <3>1. d \in DOMAIN docs /\ docs'[d] = docs[d]
      BY <1>1, <2>2
    <3>2. \A i \in DOMAIN docs[d].cells : parsed'[docs[d].cells[i]] = parsed[docs[d].cells[i]]
      BY <1>1, <2>2, <3>1 DEF ToSet
    <3> QED BY <3>1, <3>2 DEF HeapInvariant, CellsOwnTheirSpan
  <2> QED BY <2>1, <2>2
<1>7. HeapInvariant'
  <2>1. DOMAIN docs' \subseteq Docs /\ latest' \in DOMAIN docs'
    BY <1>1 DEF HeapInvariant
  <2> QED BY <1>1, <1>4, <1>6, <2>1 DEF HeapInvariant, CellsOwnTheirSpan
<1>8. RecentlyBuilt'
  <2>1. docs'[latest'].texts = ts /\ docs'[latest'].cells = b.cells
    BY <1>1
  <2>2. ASSUME Cardinality(TextsOf(docs'[latest'])) <= CellCacheMax
        PROVE  /\ Suffix(b.cache, parsed', TextsOf(docs'[latest']))
               /\ \A t \in TextsOf(docs'[latest']) : FirstCell(docs'[latest'], t) \in ToSet(b.cache)
    BY <1>1, <1>2, <1>3, <2>1, <2>2, BuiltIsLatest
  <2> QED BY <1>1, <2>2 DEF RecentlyBuilt
<1> QED BY <1>7, <1>8

(* A step that builds nothing. *)
NothingBuilt ==
    /\ parsed' = parsed /\ cache' = cache /\ latest' = latest
    /\ DOMAIN docs' = DOMAIN docs /\ docs' = [d \in DOMAIN docs' |-> docs'[d]]
    /\ \A d \in DOMAIN docs :
         docs'[d] = [texts |-> docs[d].texts, cells |-> docs[d].cells, memo |-> docs'[d].memo]

LEMMA HeapInvariantKept ==
    ASSUME HeapInvariant, RecentlyBuilt, NothingBuilt
    PROVE  HeapInvariant' /\ RecentlyBuilt'
<1>1. \A d \in DOMAIN docs' :
        /\ docs'[d].texts = docs[d].texts /\ docs'[d].cells = docs[d].cells
        /\ docs'[d] = [texts |-> docs'[d].texts, cells |-> docs'[d].cells,
                       memo |-> docs'[d].memo]
  BY DEF NothingBuilt
<1>2. HeapInvariant'
  BY <1>1 DEF HeapInvariant, NothingBuilt, CellsOwnTheirSpan
<1>3. RecentlyBuilt'
  <2>1. /\ docs'[latest'].texts = docs[latest].texts /\ docs'[latest'].cells = docs[latest].cells
    BY <1>1 DEF HeapInvariant, NothingBuilt
  <2>2. /\ TextsOf(docs'[latest']) = TextsOf(docs[latest])
        /\ \A t : FirstCell(docs'[latest'], t) = FirstCell(docs[latest], t)
    BY <2>1 DEF TextsOf, FirstCell
  <2> QED BY <2>2 DEF RecentlyBuilt, NothingBuilt
<1> QED BY <1>2, <1>3

LEMMA AnalyzeBuildsNothing ==
    ASSUME HeapInvariant, NEW d \in DOMAIN docs, NEW s, Analyze(d, s)
    PROVE  /\ NothingBuilt
           /\ docs'[d].memo = Put(docs[d].memo, s, DocAnalysis(d, s))
           /\ \A e \in DOMAIN docs \ {d} : docs'[e] = docs[e]
<1>1. docs' = [docs EXCEPT ![d].memo = Put(@, s, DocAnalysis(d, s))]
      /\ UNCHANGED <<parsed, cache, latest>>
  BY DEF Analyze
<1>2. /\ docs = [e \in DOMAIN docs |-> docs[e]]
      /\ \A e \in DOMAIN docs : docs[e] = [texts |-> docs[e].texts, cells |-> docs[e].cells,
                                           memo |-> docs[e].memo]
  BY DEF HeapInvariant
<1>3. DOMAIN docs' = DOMAIN docs /\ docs' = [e \in DOMAIN docs' |-> docs'[e]]
      /\ \A e \in DOMAIN docs \ {d} : docs'[e] = docs[e]
  BY <1>1
<1>4. docs'[d] = [texts |-> docs[d].texts, cells |-> docs[d].cells,
                  memo |-> Put(docs[d].memo, s, DocAnalysis(d, s))]
  BY <1>1, <1>2
<1> QED BY <1>1, <1>2, <1>3, <1>4 DEF NothingBuilt

-----------------------------------------------------------------------------
(* The memos. *)

(* The answer is one the schema could give at some moment since its        *)
(* version last moved.                                                     *)
Recent(known, t, s) ==
    Reads[t] \cap announced[s] \subseteq known /\ known \subseteq Reads[t] \cap provKnown[s]

Answers == [version : Nat, known : SUBSET Names, unknown : SUBSET Names]

ProviderInvariant ==
    /\ provVersion \in [Schemas -> Nat]
    /\ provKnown \in [Schemas -> SUBSET Names]
    /\ announced \in [Schemas -> SUBSET Names]
    /\ \A s \in Schemas : announced[s] \subseteq provKnown[s]

(* No stamp is ahead of its schema's version; what is stamped with it is   *)
(* recent.                                                                 *)
CellMemosRecent ==
    \A c \in Cells :
        /\ DOMAIN cellMemo[c] \subseteq Schemas
        /\ \A s \in DOMAIN cellMemo[c] :
             /\ cellMemo[c][s] \in Answers
             /\ cellMemo[c][s].version <= provVersion[s]
             /\ cellMemo[c][s].version = provVersion[s] => Recent(cellMemo[c][s].known, parsed[c], s)

(* A document's stamped answer is its cells' answers.                      *)
DocMemosAgree ==
    \A d \in DOMAIN docs :
        /\ DOMAIN docs[d].memo \subseteq Schemas
        /\ \A s \in DOMAIN docs[d].memo :
             /\ docs[d].memo[s].version \in Nat
             /\ docs[d].memo[s].version <= provVersion[s]
             /\ docs[d].memo[s].version = provVersion[s] =>
                  \A i \in DOMAIN docs[d].cells :
                    /\ s \in DOMAIN cellMemo[docs[d].cells[i]]
                    /\ cellMemo[docs[d].cells[i]][s].version = provVersion[s]
                    /\ cellMemo[docs[d].cells[i]][s].known = docs[d].memo[s].known[i]

MemoInvariant == ProviderInvariant /\ CellMemosRecent /\ DocMemosAgree

DocInvariant == HeapInvariant /\ RecentlyBuilt /\ MemoInvariant

LEMMA MemoHitIs ==
    ASSUME NEW memo, NEW s
    PROVE  MemoHit(memo, s) = IF s \in DOMAIN memo /\ memo[s].version = provVersion[s]
                              THEN {memo[s]} ELSE {}
  BY DEF MemoHit

(* cellAnalysis() answers recently, and what a memo holds it leaves.       *)
LEMMA CellAnalysisWorks ==
    ASSUME HeapInvariant, MemoInvariant, NEW c \in Cells, NEW s \in Schemas
    PROVE  /\ CellAnalysis(c, s) \in Answers
           /\ CellAnalysis(c, s).version = provVersion[s]
           /\ Recent(CellAnalysis(c, s).known, parsed[c], s)
           /\ s \in DOMAIN cellMemo[c] /\ cellMemo[c][s].version = provVersion[s]
                => CellAnalysis(c, s) = cellMemo[c][s]
<1>1. CASE s \in DOMAIN cellMemo[c] /\ cellMemo[c][s].version = provVersion[s]
  <2>1. MemoHit(cellMemo[c], s) = {cellMemo[c][s]}
    BY <1>1, MemoHitIs
  <2>2. CellAnalysis(c, s) = cellMemo[c][s]
    BY <2>1 DEF CellAnalysis
  <2> QED BY <1>1, <2>2 DEF MemoInvariant, CellMemosRecent
<1>2. CASE ~(s \in DOMAIN cellMemo[c] /\ cellMemo[c][s].version = provVersion[s])
  <2>1. MemoHit(cellMemo[c], s) = {}
    BY <1>2, MemoHitIs
  <2>2. CellAnalysis(c, s) = Qualified(c, s)
    BY <2>1 DEF CellAnalysis
  <2>3. parsed[c] \in Texts /\ Reads[parsed[c]] \in SUBSET Names
    BY DocumentAssumptions DEF HeapInvariant
  <2>4. Qualified(c, s) \in Answers
    BY <2>3 DEF Qualified, Answers, MemoInvariant, ProviderInvariant
  <2>5. /\ Qualified(c, s).version = provVersion[s]
        /\ Qualified(c, s).known = Reads[parsed[c]] \cap provKnown[s]
    BY DEF Qualified
  <2>6. announced[s] \subseteq provKnown[s]
    BY DEF MemoInvariant, ProviderInvariant
  <2> QED BY <1>2, <2>2, <2>4, <2>5, <2>6 DEF Recent
<1> QED BY <1>1, <1>2

LEMMA MemoInvariantWithText ==
    ASSUME HeapInvariant, MemoInvariant, NEW e \in Docs, NEW ts \in Scripts,
           WithText(e, ts), UNCHANGED provVars
    PROVE  MemoInvariant'
<1> DEFINE b == Built(ts, cache, parsed, Live)
<1>1. /\ DOMAIN docs' = DOMAIN docs \cup {e}
      /\ docs'[e] = [texts |-> ts, cells |-> b.cells, memo |-> NoMemo]
      /\ \A d \in DOMAIN docs \ {e} :
           /\ docs'[d] = docs[d]
           /\ \A c \in ToSet(docs[d].cells) : cellMemo'[c] = cellMemo[c]
      /\ \A c \in Cells : \/ cellMemo'[c] = NoMemo
                          \/ cellMemo'[c] = cellMemo[c] /\ parsed'[c] = parsed[c]
  BY WithTextWorks
<1> HIDE DEF b
<1>2. provVersion' = provVersion /\ provKnown' = provKnown /\ announced' = announced
  BY DEF provVars
<1>3. ProviderInvariant'
  BY <1>2 DEF MemoInvariant, ProviderInvariant
<1>4. CellMemosRecent'
  <2> SUFFICES ASSUME NEW c \in Cells
               PROVE  /\ DOMAIN cellMemo'[c] \subseteq Schemas
                      /\ \A s \in DOMAIN cellMemo'[c] :
                           /\ cellMemo'[c][s] \in Answers
                           /\ cellMemo'[c][s].version <= provVersion[s]
                           /\ cellMemo'[c][s].version = provVersion[s]
                                => Recent(cellMemo'[c][s].known, parsed'[c], s)
    BY <1>2 DEF CellMemosRecent, Recent
  <2>1. CASE cellMemo'[c] = NoMemo
    BY <2>1 DEF NoMemo
  <2>2. CASE cellMemo'[c] = cellMemo[c] /\ parsed'[c] = parsed[c]
    BY <2>2 DEF MemoInvariant, CellMemosRecent
  <2> QED BY <1>1, <2>1, <2>2
<1>5. DocMemosAgree'
  <2> SUFFICES ASSUME NEW d \in DOMAIN docs'
               PROVE  /\ DOMAIN docs'[d].memo \subseteq Schemas
                      /\ \A s \in DOMAIN docs'[d].memo :
                           /\ docs'[d].memo[s].version \in Nat
                           /\ docs'[d].memo[s].version <= provVersion[s]
                           /\ docs'[d].memo[s].version = provVersion[s] =>
                                \A i \in DOMAIN docs'[d].cells :
                                  /\ s \in DOMAIN cellMemo'[docs'[d].cells[i]]
                                  /\ cellMemo'[docs'[d].cells[i]][s].version = provVersion[s]
                                  /\ cellMemo'[docs'[d].cells[i]][s].known
                                       = docs'[d].memo[s].known[i]
    BY <1>2 DEF DocMemosAgree
  <2>1. CASE d = e
    BY <1>1, <2>1 DEF NoMemo
  <2>2. CASE d # e
    <3>1. d \in DOMAIN docs /\ docs'[d] = docs[d]
      BY <1>1, <2>2
    <3>2. \A i \in DOMAIN docs[d].cells : cellMemo'[docs[d].cells[i]] = cellMemo[docs[d].cells[i]]
      BY <1>1, <2>2, <3>1 DEF ToSet
    <3> QED BY <3>1, <3>2 DEF MemoInvariant, DocMemosAgree
  <2> QED BY <2>1, <2>2
<1> QED BY <1>3, <1>4, <1>5 DEF MemoInvariant

(* The answers that are current stay as they are when other documents are  *)
(* analyzed, or for other schemas.                                         *)
LEMMA MemoInvariantAnalyze ==
    ASSUME HeapInvariant, MemoInvariant, NEW d \in DOMAIN docs, NEW s \in Schemas,
           Analyze(d, s), UNCHANGED provVars
    PROVE  MemoInvariant'
<1>1. provVersion' = provVersion /\ provKnown' = provKnown /\ announced' = announced
  BY DEF provVars
<1>2. /\ parsed' = parsed /\ DOMAIN docs' = DOMAIN docs
      /\ docs'[d].cells = docs[d].cells
      /\ docs'[d].memo = Put(docs[d].memo, s, DocAnalysis(d, s))
      /\ \A e \in DOMAIN docs \ {d} : docs'[e] = docs[e]
  <2>1. /\ NothingBuilt
        /\ docs'[d].memo = Put(docs[d].memo, s, DocAnalysis(d, s))
        /\ \A e \in DOMAIN docs \ {d} : docs'[e] = docs[e]
    BY AnalyzeBuildsNothing
  <2>2. docs'[d] = [texts |-> docs[d].texts, cells |-> docs[d].cells, memo |-> docs'[d].memo]
    BY <2>1 DEF NothingBuilt
  <2>3. docs'[d].cells = docs[d].cells
    BY <2>2
  <2> QED BY <2>1, <2>3 DEF NothingBuilt
<1>3. cellMemo' = [c \in Cells |-> IF c \in ToSet(docs[d].cells)
                                   THEN Put(cellMemo[c], s, CellAnalysis(c, s))
                                   ELSE cellMemo[c]]
  BY DEF Analyze
<1>4. ASSUME NEW c \in Cells
      PROVE  /\ DOMAIN cellMemo'[c] \subseteq DOMAIN cellMemo[c] \cup {s}
             /\ DOMAIN cellMemo[c] \subseteq DOMAIN cellMemo'[c]
             /\ \A r \in DOMAIN cellMemo[c] : r # s => cellMemo'[c][r] = cellMemo[c][r]
             /\ s \in DOMAIN cellMemo'[c] => \/ cellMemo'[c][s] = CellAnalysis(c, s)
                                             \/ /\ s \in DOMAIN cellMemo[c]
                                                /\ cellMemo'[c][s] = cellMemo[c][s]
             /\ c \in ToSet(docs[d].cells) => /\ s \in DOMAIN cellMemo'[c]
                                              /\ cellMemo'[c][s] = CellAnalysis(c, s)
  BY <1>3 DEF Put
<1>5. ASSUME NEW c \in Cells, NEW r \in DOMAIN cellMemo[c],
             cellMemo[c][r].version = provVersion[r]
      PROVE  r \in DOMAIN cellMemo'[c] /\ cellMemo'[c][r] = cellMemo[c][r]
  <2>1. CASE r # s
    BY <1>4, <2>1
  <2>2. CASE r = s
    BY <1>4, <1>5, <2>2, CellAnalysisWorks
  <2> QED BY <2>1, <2>2
<1>6. CellMemosRecent'
  <2> SUFFICES ASSUME NEW c \in Cells
               PROVE  /\ DOMAIN cellMemo'[c] \subseteq Schemas
                      /\ \A r \in DOMAIN cellMemo'[c] :
                           /\ cellMemo'[c][r] \in Answers
                           /\ cellMemo'[c][r].version <= provVersion[r]
                           /\ cellMemo'[c][r].version = provVersion[r]
                                => Recent(cellMemo'[c][r].known, parsed[c], r)
    BY <1>1, <1>2 DEF CellMemosRecent, Recent
  <2>1. DOMAIN cellMemo'[c] \subseteq Schemas
    <3>1. DOMAIN cellMemo'[c] \subseteq DOMAIN cellMemo[c] \cup {s}
      BY <1>4
    <3>2. DOMAIN cellMemo[c] \subseteq Schemas
      BY DEF MemoInvariant, CellMemosRecent
    <3> QED BY <3>1, <3>2
  <2>2. ASSUME NEW r \in DOMAIN cellMemo'[c]
        PROVE  /\ cellMemo'[c][r] \in Answers
               /\ cellMemo'[c][r].version <= provVersion[r]
               /\ cellMemo'[c][r].version = provVersion[r]
                    => Recent(cellMemo'[c][r].known, parsed[c], r)
    <3>1. CASE r \in DOMAIN cellMemo[c] /\ cellMemo'[c][r] = cellMemo[c][r]
      BY <3>1 DEF MemoInvariant, CellMemosRecent
    <3>2. CASE r = s /\ cellMemo'[c][r] = CellAnalysis(c, s)
      <4>1. provVersion[s] \in Nat
        BY DEF MemoInvariant, ProviderInvariant
      <4> QED BY <3>2, <4>1, CellAnalysisWorks
    <3> QED BY <1>4, <3>1, <3>2
  <2> QED BY <2>1, <2>2
<1>7. DocMemosAgree'
  <2> SUFFICES ASSUME NEW e \in DOMAIN docs
               PROVE  /\ DOMAIN docs'[e].memo \subseteq Schemas
                      /\ \A r \in DOMAIN docs'[e].memo :
                           /\ docs'[e].memo[r].version \in Nat
                           /\ docs'[e].memo[r].version <= provVersion[r]
                           /\ docs'[e].memo[r].version = provVersion[r] =>
                                \A i \in DOMAIN docs'[e].cells :
                                  /\ r \in DOMAIN cellMemo'[docs'[e].cells[i]]
                                  /\ cellMemo'[docs'[e].cells[i]][r].version = provVersion[r]
                                  /\ cellMemo'[docs'[e].cells[i]][r].known
                                       = docs'[e].memo[r].known[i]
    BY <1>1, <1>2 DEF DocMemosAgree
  <2>0. docs'[e].cells = docs[e].cells
    BY <1>2
  <2>1. \A i \in DOMAIN docs[e].cells :
          docs[e].cells[i] \in Cells /\ docs[e].cells[i] \in ToSet(docs[e].cells)
    BY LenProperties, ElementOfSeq DEF HeapInvariant, ToSet
  <2>2. ASSUME NEW r \in DOMAIN docs[e].memo
        PROVE  /\ r \in Schemas
               /\ docs[e].memo[r].version \in Nat
               /\ docs[e].memo[r].version <= provVersion[r]
               /\ docs[e].memo[r].version = provVersion[r] =>
                    \A i \in DOMAIN docs[e].cells :
                      /\ r \in DOMAIN cellMemo'[docs[e].cells[i]]
                      /\ cellMemo'[docs[e].cells[i]][r].version = provVersion[r]
                      /\ cellMemo'[docs[e].cells[i]][r].known = docs[e].memo[r].known[i]
    BY <1>5, <2>1 DEF MemoInvariant, DocMemosAgree
  <2>3. CASE e # d
    <3>1. docs'[e] = docs[e]
      BY <1>2, <2>3
    <3> QED BY <2>2, <3>1
  <2>4. CASE e = d
    <3>1. /\ DOMAIN docs'[d].memo = DOMAIN docs[d].memo \cup {s}
          /\ docs'[d].memo[s] = DocAnalysis(d, s)
          /\ \A r \in DOMAIN docs[d].memo : r # s => docs'[d].memo[r] = docs[d].memo[r]
      BY <1>2 DEF Put
    <3>2. DOMAIN docs'[e].memo \subseteq Schemas
      BY <2>2, <2>4, <3>1
    <3>3. ASSUME NEW r \in DOMAIN docs[d].memo, r # s
          PROVE  /\ docs'[e].memo[r].version \in Nat
                 /\ docs'[e].memo[r].version <= provVersion[r]
                 /\ docs'[e].memo[r].version = provVersion[r] =>
                      \A i \in DOMAIN docs'[e].cells :
                        /\ r \in DOMAIN cellMemo'[docs'[e].cells[i]]
                        /\ cellMemo'[docs'[e].cells[i]][r].version = provVersion[r]
                        /\ cellMemo'[docs'[e].cells[i]][r].known = docs'[e].memo[r].known[i]
      BY <2>0, <2>2, <2>4, <3>1, <3>3
    <3>4. /\ DocAnalysis(d, s).version = provVersion[s]
          /\ \A i \in DOMAIN docs[d].cells :
               DocAnalysis(d, s).known[i] = CellAnalysis(docs[d].cells[i], s).known
      BY DEF DocAnalysis
    <3>5. provVersion[s] \in Nat
      BY DEF MemoInvariant, ProviderInvariant
    <3>6. \A i \in DOMAIN docs[d].cells :
            /\ s \in DOMAIN cellMemo'[docs[d].cells[i]]
            /\ cellMemo'[docs[d].cells[i]][s] = CellAnalysis(docs[d].cells[i], s)
            /\ CellAnalysis(docs[d].cells[i], s).version = provVersion[s]
      BY <1>4, <2>1, <2>4, CellAnalysisWorks
    <3>7. /\ docs'[e].memo[s].version \in Nat
          /\ docs'[e].memo[s].version <= provVersion[s]
          /\ \A i \in DOMAIN docs'[e].cells :
               /\ s \in DOMAIN cellMemo'[docs'[e].cells[i]]
               /\ cellMemo'[docs'[e].cells[i]][s].version = provVersion[s]
               /\ cellMemo'[docs'[e].cells[i]][s].known = docs'[e].memo[s].known[i]
      BY <2>0, <2>4, <3>1, <3>4, <3>5, <3>6
    <3> QED BY <2>4, <3>1, <3>2, <3>3, <3>7
  <2> QED BY <2>3, <2>4
<1> QED BY <1>1, <1>6, <1>7 DEF MemoInvariant, ProviderInvariant

(* A bump puts every memo of its schema out of date at once; what is       *)
(* learned without one only adds to what an answer may hold.               *)
LEMMA MemoInvariantProvider ==
    ASSUME MemoInvariant, NEW s \in Schemas, NEW known \in SUBSET Names, NEW bump \in BOOLEAN,
           ProviderMoves(s, known, bump), UNCHANGED docVars
    PROVE  MemoInvariant'
<1>1. parsed' = parsed /\ cellMemo' = cellMemo /\ docs' = docs
  BY DEF docVars
<1>2. /\ provVersion \in [Schemas -> Nat] /\ provKnown \in [Schemas -> SUBSET Names]
      /\ announced \in [Schemas -> SUBSET Names]
      /\ \A r \in Schemas : announced[r] \subseteq provKnown[r]
  BY DEF MemoInvariant, ProviderInvariant
<1>3. /\ provKnown' \in [Schemas -> SUBSET Names]
      /\ \A r \in Schemas : provKnown[r] \subseteq provKnown'[r]
      /\ provKnown'[s] = known
  BY <1>2 DEF ProviderMoves
<1>4. /\ provVersion' \in [Schemas -> Nat] /\ announced' \in [Schemas -> SUBSET Names]
      /\ \A r \in Schemas :
           \/ provVersion'[r] = provVersion[r] /\ announced'[r] = announced[r]
           \/ provVersion'[r] = provVersion[r] + 1 /\ announced'[r] = provKnown'[r]
  <2>1. CASE bump
    <3>1. /\ provVersion' = [provVersion EXCEPT ![s] = @ + 1]
          /\ announced' = [announced EXCEPT ![s] = known]
      BY <2>1 DEF ProviderMoves
    <3>2. provVersion' \in [Schemas -> Nat] /\ announced' \in [Schemas -> SUBSET Names]
      BY <1>2, <3>1
    <3> QED BY <1>2, <1>3, <3>1, <3>2
  <2>2. CASE ~bump
    BY <1>2, <2>2 DEF ProviderMoves
  <2> QED BY <2>1, <2>2
<1>5. ProviderInvariant'
  <2>1. \A r \in Schemas : announced'[r] \subseteq provKnown'[r]
    BY <1>2, <1>3, <1>4
  <2> QED BY <1>3, <1>4, <2>1 DEF ProviderInvariant
<1>6. ASSUME NEW v \in Nat, NEW r \in Schemas, v <= provVersion[r]
      PROVE  /\ v <= provVersion'[r]
             /\ v = provVersion'[r] => /\ v = provVersion[r] /\ provVersion'[r] = provVersion[r]
                                       /\ announced'[r] = announced[r]
  BY <1>2, <1>4, <1>6
<1>7. CellMemosRecent'
  <2> SUFFICES ASSUME NEW c \in Cells
               PROVE  /\ DOMAIN cellMemo[c] \subseteq Schemas
                      /\ \A r \in DOMAIN cellMemo[c] :
                           /\ cellMemo[c][r] \in Answers
                           /\ cellMemo[c][r].version <= provVersion'[r]
                           /\ cellMemo[c][r].version = provVersion'[r]
                                => Recent(cellMemo[c][r].known, parsed[c], r)'
    BY <1>1 DEF CellMemosRecent
  <2>1. DOMAIN cellMemo[c] \subseteq Schemas
    BY DEF MemoInvariant, CellMemosRecent
  <2>2. ASSUME NEW r \in DOMAIN cellMemo[c]
        PROVE  /\ cellMemo[c][r] \in Answers
               /\ cellMemo[c][r].version <= provVersion'[r]
               /\ cellMemo[c][r].version = provVersion'[r]
                    => Recent(cellMemo[c][r].known, parsed[c], r)'
    <3>1. /\ r \in Schemas /\ cellMemo[c][r] \in Answers
          /\ cellMemo[c][r].version \in Nat
          /\ cellMemo[c][r].version <= provVersion[r]
          /\ cellMemo[c][r].version = provVersion[r] => Recent(cellMemo[c][r].known, parsed[c], r)
      BY DEF MemoInvariant, CellMemosRecent, Answers
    <3>2. /\ cellMemo[c][r].version <= provVersion'[r]
          /\ cellMemo[c][r].version = provVersion'[r] =>
               cellMemo[c][r].version = provVersion[r] /\ announced'[r] = announced[r]
      BY <1>6, <3>1
    <3>3. provKnown[r] \subseteq provKnown'[r]
      BY <1>3, <3>1
    <3> QED BY <1>1, <3>1, <3>2, <3>3 DEF Recent
  <2> QED BY <2>1, <2>2
<1>8. DocMemosAgree'
  <2> SUFFICES ASSUME NEW d \in DOMAIN docs
               PROVE  /\ DOMAIN docs[d].memo \subseteq Schemas
                      /\ \A r \in DOMAIN docs[d].memo :
                           /\ docs[d].memo[r].version \in Nat
                           /\ docs[d].memo[r].version <= provVersion'[r]
                           /\ docs[d].memo[r].version = provVersion'[r] =>
                                \A i \in DOMAIN docs[d].cells :
                                  /\ r \in DOMAIN cellMemo[docs[d].cells[i]]
                                  /\ cellMemo[docs[d].cells[i]][r].version = provVersion'[r]
                                  /\ cellMemo[docs[d].cells[i]][r].known = docs[d].memo[r].known[i]
    BY <1>1 DEF DocMemosAgree
  <2> QED BY <1>6 DEF MemoInvariant, DocMemosAgree
<1> QED BY <1>5, <1>7, <1>8 DEF MemoInvariant

-----------------------------------------------------------------------------
(* The documents' invariant, and what follows from it. *)

LEMMA DocInvariantInit == DocInit => DocInvariant
<1> SUFFICES ASSUME DocInit PROVE DocInvariant
  OBVIOUS
<1> DEFINE none == [c \in Cells |-> Blank]
<1>1. PICK d \in Docs, ts \in Scripts : Create(d, ts)
  BY DEF DocInit
<1> DEFINE b == Built(ts, <<>>, none, {})
<1>2. /\ parsed = b.parsed /\ cache = b.cache
      /\ cellMemo = [c \in Cells |-> NoMemo]
      /\ docs = [e \in {d} |-> [texts |-> ts, cells |-> b.cells, memo |-> NoMemo]]
      /\ latest = d
  BY <1>1 DEF Create
<1>3. BuildsFrom(ts, <<>>, none, {})
  BY CreateBuildsFrom
<1>4. BuildInvariant(b, Len(ts), ts, none, {}) /\ b = Built(ts, <<>>, none, {})
  BY <1>3, BuiltWorks
<1> HIDE DEF b, none
<1>5. /\ Len(b.cells) = Len(ts) /\ b.cells \in Seq(Cells)
      /\ \A i \in DOMAIN b.cells :
           /\ parsed[b.cells[i]] = ts[i]
           /\ \A j \in DOMAIN b.cells : b.cells[i] = b.cells[j] => i = j
  BY <1>2, <1>4, BuiltOwnsItsSpan
<1>6. docs[d] = [texts |-> ts, cells |-> b.cells, memo |-> NoMemo] /\ DOMAIN docs = {d}
      /\ docs = [e \in DOMAIN docs |-> docs[e]]
  BY <1>2
<1>7. HeapInvariant
  <2>1. /\ parsed \in [Cells -> Texts] /\ cache \in Seq(Cells)
        /\ Len(cache) <= CellCacheMax /\ DistinctTexts(cache, parsed)
    BY <1>2, <1>4 DEF BuildInvariant, BuildState
  <2>2. ASSUME NEW e \in DOMAIN docs
        PROVE  /\ docs[e] = [texts |-> docs[e].texts, cells |-> docs[e].cells,
                             memo |-> docs[e].memo]
               /\ docs[e].texts \in Scripts /\ docs[e].cells \in Seq(Cells)
               /\ Len(docs[e].cells) = Len(docs[e].texts)
               /\ \A i \in DOMAIN docs[e].cells :
                    /\ parsed[docs[e].cells[i]] = docs[e].texts[i]
                    /\ \A j \in DOMAIN docs[e].cells :
                         docs[e].cells[i] = docs[e].cells[j] => i = j
    BY <1>5, <1>6
  <2>3. DOMAIN docs \subseteq Docs /\ latest \in DOMAIN docs
    BY <1>2, <1>6
  <2> QED BY <1>6, <2>1, <2>2, <2>3 DEF HeapInvariant, CellsOwnTheirSpan
<1>8. RecentlyBuilt
  <2>1. docs[latest].texts = ts /\ docs[latest].cells = b.cells
    BY <1>2, <1>6
  <2>2. ASSUME Cardinality(TextsOf(docs[latest])) <= CellCacheMax
        PROVE  /\ Suffix(b.cache, parsed, TextsOf(docs[latest]))
               /\ \A t \in TextsOf(docs[latest]) : FirstCell(docs[latest], t) \in ToSet(b.cache)
    BY <1>2, <1>3, <1>4, <2>1, <2>2, BuiltIsLatest
  <2> QED BY <1>2, <2>2 DEF RecentlyBuilt
<1>9. MemoInvariant
  <2>1. ProviderInvariant
    BY DEF DocInit, ProviderInvariant
  <2>2. CellMemosRecent
    BY <1>2 DEF CellMemosRecent, NoMemo
  <2>3. DocMemosAgree
    BY <1>6 DEF DocMemosAgree, NoMemo
  <2> QED BY <2>1, <2>2, <2>3 DEF MemoInvariant
<1> QED BY <1>7, <1>8, <1>9 DEF DocInvariant

LEMMA DocInvariantStep ==
    ASSUME DocInvariant, [DocNext]_<<docVars, provVars>>
    PROVE  DocInvariant'
<1>0. HeapInvariant /\ RecentlyBuilt /\ MemoInvariant
  BY DEF DocInvariant
<1>1. ASSUME NEW e \in Docs, NEW ts \in Scripts, WithText(e, ts), UNCHANGED provVars
      PROVE  DocInvariant'
  BY <1>0, <1>1, HeapInvariantWithText, MemoInvariantWithText DEF DocInvariant
<1>2. ASSUME NEW d \in DOMAIN docs, NEW s \in Schemas, Analyze(d, s), UNCHANGED provVars
      PROVE  DocInvariant'
  BY <1>0, <1>2, AnalyzeBuildsNothing, HeapInvariantKept, MemoInvariantAnalyze DEF DocInvariant
<1>3. ASSUME UNCHANGED docVars
      PROVE  NothingBuilt
  BY <1>0, <1>3 DEF docVars, NothingBuilt, HeapInvariant
<1>4. ASSUME NEW s \in Schemas, NEW known \in SUBSET Names, NEW bump \in BOOLEAN,
             ProviderMoves(s, known, bump), UNCHANGED docVars
      PROVE  DocInvariant'
  BY <1>0, <1>3, <1>4, HeapInvariantKept, MemoInvariantProvider DEF DocInvariant
<1>5. ASSUME UNCHANGED <<docVars, provVars>>
      PROVE  DocInvariant'
  <2>1. HeapInvariant' /\ RecentlyBuilt'
    BY <1>0, <1>3, <1>5, HeapInvariantKept
  <2>2. MemoInvariant'
    BY <1>0, <1>5 DEF MemoInvariant, ProviderInvariant, CellMemosRecent, DocMemosAgree, Recent,
                      docVars, provVars
  <2> QED BY <2>1, <2>2 DEF DocInvariant
<1> QED BY <1>1, <1>2, <1>4, <1>5 DEF DocNext

(* The invariant holds in every reachable state. *)
THEOREM DocInvariantHolds == DocSpec => []DocInvariant
<1>1. DocInvariant /\ [DocNext]_<<docVars, provVars>> => DocInvariant'
  BY DocInvariantStep
<1> QED BY DocInvariantInit, <1>1, PTL DEF DocSpec

(* Type correctness of the documents, their cache and their memos.         *)
THEOREM DocTypeCorrect == DocSpec => []DocTypeOK
<1>1. ASSUME DocInvariant PROVE DocTypeOK
  <2>1. HeapInvariant /\ ProviderInvariant /\ CellMemosRecent /\ DocMemosAgree
    BY <1>1 DEF DocInvariant, MemoInvariant
  <2>2. ToSet(cache) \subseteq Cells
    BY <2>1, LenProperties, ElementOfSeq DEF HeapInvariant, ToSet
  <2>3. \A d \in DOMAIN docs : ToSet(docs[d].cells) \subseteq Cells
    BY <2>1, LenProperties, ElementOfSeq DEF HeapInvariant, ToSet
  <2>4. \A c \in Cells : /\ DOMAIN cellMemo[c] \subseteq Schemas
                         /\ \A s \in DOMAIN cellMemo[c] : cellMemo[c][s] \in Answers
    BY <2>1 DEF CellMemosRecent
  <2>5. \A d \in DOMAIN docs : DOMAIN docs[d].memo \subseteq Schemas
    BY <2>1 DEF DocMemosAgree
  <2> QED
    BY <2>1, <2>2, <2>3, <2>4, <2>5 DEF DocTypeOK, HeapInvariant, ProviderInvariant, Answers
<1> QED BY DocInvariantHolds, <1>1, PTL

(* The statements of a live document are parses of their own source        *)
(* slices, no two of them the same object.                                 *)
THEOREM CellsAreTheDocumentsOwn == DocSpec => []CellsOwnTheirSpan
<1>1. DocInvariant => CellsOwnTheirSpan
  BY DEF DocInvariant, HeapInvariant
<1> QED BY DocInvariantHolds, <1>1, PTL

(* Where a document's answer is current, so are its cells', and they say   *)
(* the same.                                                               *)
THEOREM BothMemosAgree == DocSpec => []DocumentAgreesWithCells
<1>1. ASSUME DocInvariant PROVE DocumentAgreesWithCells
  <2> SUFFICES ASSUME NEW d \in DOMAIN docs, NEW s \in Schemas,
                      NEW answer \in MemoHit(docs[d].memo, s), NEW i \in DOMAIN docs[d].cells
               PROVE  \E own \in MemoHit(cellMemo[docs[d].cells[i]], s) :
                        own.known = answer.known[i]
    BY DEF DocumentAgreesWithCells
  <2>1. s \in DOMAIN docs[d].memo /\ docs[d].memo[s].version = provVersion[s]
        /\ answer = docs[d].memo[s]
    BY MemoHitIs
  <2> DEFINE own == cellMemo[docs[d].cells[i]][s]
  <2>2. /\ s \in DOMAIN cellMemo[docs[d].cells[i]] /\ own.version = provVersion[s]
        /\ own.known = answer.known[i]
    BY <1>1, <2>1 DEF DocInvariant, MemoInvariant, DocMemosAgree
  <2>3. MemoHit(cellMemo[docs[d].cells[i]], s) = {own}
    BY <2>2, MemoHitIs
  <2> QED BY <2>2, <2>3
<1> QED BY DocInvariantHolds, <1>1, PTL

(* What analyze() answers is what the schema knew at some moment since its *)
(* version last moved.                                                     *)
LEMMA AnswersAreSinceLastBump ==
    ASSUME DocInvariant
    PROVE  AnswersSinceLastBump
<1>0. HeapInvariant /\ MemoInvariant
  BY DEF DocInvariant
<1> SUFFICES ASSUME NEW d \in DOMAIN docs, NEW s \in Schemas,
                    NEW answer,
                    answer = IF MemoHit(docs[d].memo, s) # {}
                             THEN CHOOSE h \in MemoHit(docs[d].memo, s) : TRUE
                             ELSE DocAnalysis(d, s),
                    NEW i \in DOMAIN docs[d].texts
             PROVE  Recent(answer.known[i], docs[d].texts[i], s)
  BY DEF AnswersSinceLastBump, Recent
<1>1. i \in DOMAIN docs[d].cells /\ docs[d].cells[i] \in Cells
      /\ parsed[docs[d].cells[i]] = docs[d].texts[i]
  <2>1. docs[d].cells \in Seq(Cells) /\ Len(docs[d].cells) = Len(docs[d].texts)
        /\ docs[d].texts \in Seq(Texts)
    BY <1>0, ScriptsAreSequences DEF HeapInvariant, CellsOwnTheirSpan
  <2>2. DOMAIN docs[d].cells = DOMAIN docs[d].texts
    BY <2>1, LenProperties
  <2> QED BY <1>0, <2>1, <2>2, LenProperties, ElementOfSeq DEF HeapInvariant, CellsOwnTheirSpan
<1> DEFINE c == docs[d].cells[i]
<1>2. CASE MemoHit(docs[d].memo, s) # {}
  <2>1. s \in DOMAIN docs[d].memo /\ docs[d].memo[s].version = provVersion[s]
        /\ answer = docs[d].memo[s]
    BY <1>2, MemoHitIs
  <2>2. /\ s \in DOMAIN cellMemo[c] /\ cellMemo[c][s].version = provVersion[s]
        /\ cellMemo[c][s].known = answer.known[i]
    <3>1. DocMemosAgree
      BY <1>0 DEF MemoInvariant
    <3>2. /\ s \in DOMAIN cellMemo[c] /\ cellMemo[c][s].version = provVersion[s]
          /\ cellMemo[c][s].known = docs[d].memo[s].known[i]
      BY <1>1, <2>1, <3>1 DEF DocMemosAgree
    <3> QED BY <2>1, <3>2
  <2>3. Recent(cellMemo[c][s].known, parsed[c], s)
    BY <1>0, <1>1, <2>2 DEF MemoInvariant, CellMemosRecent
  <2> QED BY <1>1, <2>2, <2>3
<1>3. CASE MemoHit(docs[d].memo, s) = {}
  <2>1. answer.known[i] = CellAnalysis(c, s).known
    BY <1>1, <1>3 DEF DocAnalysis
  <2> QED BY <1>0, <1>1, <2>1, CellAnalysisWorks
<1> QED BY <1>2, <1>3

THEOREM AnswersStayRecent == DocSpec => []AnswersSinceLastBump
<1>1. DocInvariant => AnswersSinceLastBump
  BY AnswersAreSinceLastBump
<1> QED BY DocInvariantHolds, <1>1, PTL

(* An edit re-parses no statement it did not touch, while the statements   *)
(* before and after it fit in the cache together.                          *)
LEMMA EditKeepsCells ==
    ASSUME DocInvariant, NEW e \in Docs, NEW ts \in Scripts, WithText(e, ts),
           Cardinality(TextsOf(docs[latest]) \cup TextsOf(docs'[latest'])) <= CellCacheMax,
           NEW t \in TextsOf(docs[latest]) \cap TextsOf(docs'[latest'])
    PROVE  FirstCell(docs[latest], t) = FirstCell(docs'[latest'], t)
<1> DEFINE old == docs[latest]
           new == docs'[latest']
           B == TextsOf(old)
           b == Built(ts, cache, parsed, Live)
<1>0. HeapInvariant /\ RecentlyBuilt /\ latest \in DOMAIN docs
  BY DEF DocInvariant, HeapInvariant
<1>1. BuildInvariant(b, Len(ts), ts, parsed, Live) /\ new.texts = ts /\ new.cells = b.cells
  <2>1. /\ BuildInvariant(b, Len(ts), ts, parsed, Live) /\ latest' = e
        /\ docs'[e] = [texts |-> ts, cells |-> b.cells, memo |-> NoMemo]
    BY <1>0, WithTextWorks
  <2> HIDE DEF b
  <2> QED BY <2>1
<1>2. BuildsFrom(ts, cache, parsed, Live)
  BY <1>0, StateBuildsFrom
<1>3. /\ ts \in Seq(Texts) /\ old.texts \in Seq(Texts) /\ old.cells \in Seq(Cells)
      /\ DOMAIN ts = 1..Len(ts) /\ DOMAIN old.texts = 1..Len(old.texts)
      /\ DOMAIN old.cells = 1..Len(old.texts)
  <2>1. /\ ts \in Seq(Texts) /\ old.texts \in Seq(Texts) /\ old.cells \in Seq(Cells)
        /\ Len(old.cells) = Len(old.texts)
    BY <1>0, ScriptsAreSequences DEF HeapInvariant, CellsOwnTheirSpan
  <2> QED BY <2>1, LenProperties
<1> HIDE DEF b
<1>4. /\ IsFiniteSet(B) /\ IsFiniteSet(ToSet(ts)) /\ TextsOf(new) = ToSet(ts)
      /\ IsFiniteSet(B \cup ToSet(ts)) /\ Cardinality(B \cup ToSet(ts)) <= CellCacheMax
      /\ Cardinality(B) <= CellCacheMax
  <2>1. IsFiniteSet(B) /\ IsFiniteSet(ToSet(ts)) /\ TextsOf(new) = ToSet(ts)
    BY <1>1, <1>3, FewMembers DEF TextsOf
  <2> HIDE DEF B, new
  <2>2. IsFiniteSet(B \cup ToSet(ts)) /\ Cardinality(B \cup ToSet(ts)) <= CellCacheMax
    BY <2>1, FS_Union DEF B, new, old
  <2>3. Cardinality(B) <= Cardinality(B \cup ToSet(ts)) /\ B \subseteq B \cup ToSet(ts)
    BY <2>2, FS_Subset
  <2>4. Cardinality(B) \in Nat /\ Cardinality(B \cup ToSet(ts)) \in Nat /\ CellCacheMax \in Nat
    BY <2>1, <2>2, FS_CardinalityType, DocumentAssumptions
  <2> QED BY <2>1, <2>2, <2>3, <2>4
<1>5. Suffix(cache, parsed, B) /\ \A u \in B : FirstCell(old, u) \in ToSet(cache)
  BY <1>0, <1>4 DEF RecentlyBuilt
<1>6. ASSUME NEW u \in B PROVE parsed[FirstCell(old, u)] = u
  <2>1. PICK i \in 1..Len(old.texts) : old.texts[i] = u /\ FirstCell(old, u) = old.cells[i]
    BY <1>3, FirstCellIsFirst
  <2> QED BY <1>0, <1>3, <2>1 DEF HeapInvariant, CellsOwnTheirSpan
<1>7. Held(cache, parsed, B)
  BY <1>5, <1>6 DEF Held, ToSet
<1>8. RecentInvariant(b, Len(ts), ts, B, cache, parsed)
  <2> HIDE DEF B
  <2> QED BY <1>2, <1>4, <1>5, <1>7, BuiltIsRecent DEF b
<1>9. t \in B /\ t \in TextsOf(new)
  OBVIOUS
<1> DEFINE c == FirstCell(old, t)
           n == FirstCell(new, t)
<1>10. c \in ToSet(b.cache) /\ b.parsed[c] = t
  <2>1. c \in ToSet(cache) /\ parsed[c] = t
    BY <1>5, <1>6, <1>9
  <2> HIDE DEF c, B
  <2> QED BY <1>8, <1>9, <2>1 DEF RecentInvariant
<1>11. n \in ToSet(b.cache) /\ b.parsed[n] = t
  <2>1. PICK i \in 1..Len(ts) : ts[i] = t /\ FirstAt(ts, i) /\ n = b.cells[i]
    BY <1>1, <1>3, <1>9, FirstCellIsFirst
  <2> QED BY <1>1, <1>8, <2>1 DEF RecentInvariant, BuildInvariant
<1>12. c = n
  <2> HIDE DEF c, n
  <2> QED BY <1>1, <1>10, <1>11 DEF BuildInvariant, DistinctTexts, ToSet
<1> QED BY <1>12

THEOREM EditsKeepUntouchedCells == DocSpec => EditKeepsUntouchedCells
<1> DEFINE Kept == Cardinality(TextsOf(docs[latest]) \cup TextsOf(docs'[latest'])) <= CellCacheMax
                     => \A t \in TextsOf(docs[latest]) \cap TextsOf(docs'[latest']) :
                          FirstCell(docs[latest], t) = FirstCell(docs'[latest'], t)
<1>1. ASSUME DocInvariant, [DocNext]_<<docVars, provVars>>
      PROVE  [Kept]_docVars
  <2>0. HeapInvariant
    BY <1>1 DEF DocInvariant
  <2>1. ASSUME NEW e \in Docs, NEW ts \in Scripts, WithText(e, ts)
        PROVE  Kept
    BY <1>1, <2>1, EditKeepsCells
  <2>2. ASSUME NEW d \in DOMAIN docs, NEW s \in Schemas, Analyze(d, s)
        PROVE  Kept
    <3>1. NothingBuilt
      BY <2>0, <2>2, AnalyzeBuildsNothing
    <3>2. docs'[latest'] = [texts |-> docs[latest].texts, cells |-> docs[latest].cells,
                            memo |-> docs'[latest'].memo]
      BY <2>0, <3>1 DEF NothingBuilt, HeapInvariant
    <3>3. docs'[latest'].texts = docs[latest].texts /\ docs'[latest'].cells = docs[latest].cells
      BY <3>2
    <3> QED BY <3>3 DEF FirstCell
  <2> QED BY <1>1, <2>1, <2>2 DEF DocNext
<1> QED BY DocInvariantHolds, <1>1, PTL DEF DocSpec, EditKeepsUntouchedCells
=============================================================================
