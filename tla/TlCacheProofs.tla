---------------------------- MODULE TlCacheProofs ----------------------------
(***************************************************************************)
(* Theorems about the NAND driver, for any chip and any number of slots.   *)
(***************************************************************************)
EXTENDS TlCache, FiniteSetTheorems, TLAPS

-----------------------------------------------------------------------------
(***************************************************************************)
(* The table of good blocks: a finite set of numbers can be listed in      *)
(* ascending order, so that the CHOOSE of MapTab is not void.              *)
(***************************************************************************)
Ascending(f) == \A i, j \in DOMAIN f : i < j => f[i] < f[j]

LEMMA GreatestNumber ==
  ASSUME NEW T \in SUBSET Nat, IsFiniteSet(T), T # {}
  PROVE  \E m \in T : \A x \in T : x =< m
<1> DEFINE Above(x) == {y \in T : x < y}
<1> DEFINE F == {Above(x) : x \in T}
<1>1. F \subseteq FiniteSubsetsOf(T) /\ F # {}
  <2>1. \A x : Above(x) \in SUBSET T
    OBVIOUS
  <2>2. \A A \in SUBSET T : IsFiniteSet(A)
    BY FS_Subset
  <2> QED
    BY <2>1, <2>2 DEF FiniteSubsetsOf
<1>2. PICK A \in F : \A B \in F : <<B, A>> \notin StrictSubsetOrdering(T)
  BY <1>1, FS_StrictSubsetOrderingWellFounded, WFMin
<1>3. PICK m \in T : A = Above(m)
  OBVIOUS
<1>4. ASSUME NEW y \in Above(m) PROVE FALSE
  <2>1. m \in Nat /\ y \in Nat /\ m < y /\ y \in T
    BY <1>4
  <2>n. \A x \in T : x \in Nat
    OBVIOUS
  <2>2. Above(y) \subseteq Above(m) /\ y \notin Above(y)
    <3>1. ASSUME NEW z \in Above(y) PROVE z \in Above(m)
      <4>1. z \in Nat /\ y < z /\ z \in T
        BY <2>n, <3>1
      <4> QED
        BY <4>1, <2>1
    <3>2. y \notin Above(y)
      BY <2>1
    <3> QED
      BY <3>1, <3>2
  <2>3. Above(y) \subseteq T /\ Above(m) \subseteq T /\ Above(y) # Above(m)
    BY <2>2, <1>4
  <2>4. <<Above(y), Above(m)>> \in StrictSubsetOrdering(T)
    BY <2>2, <2>3 DEF StrictSubsetOrdering
  <2>5. Above(y) \in F
    BY <2>1
  <2> QED
    BY <2>4, <2>5, <1>2, <1>3
<1>5. \A x \in T : ~(m < x)
  BY <1>4
<1> QED
  BY <1>5

LEMMA AscendingList ==
  ASSUME NEW G \in SUBSET Nat, IsFiniteSet(G)
  PROVE  \E f \in [1..Cardinality(G) -> G] : Ascending(f)
<1> DEFINE Listed(T) == \E f \in [1..Cardinality(T) -> T] : Ascending(f)
<1> DEFINE F == {T \in SUBSET G : ~Listed(T)}
<1> SUFFICES ASSUME F # {} PROVE FALSE
  OBVIOUS
<1>1. F \subseteq FiniteSubsetsOf(G)
  BY FS_Subset DEF FiniteSubsetsOf
<1>2. PICK T \in F : \A U \in F : <<U, T>> \notin StrictSubsetOrdering(G)
  BY <1>1, FS_StrictSubsetOrderingWellFounded, WFMin
<1>3. T \subseteq Nat /\ T \subseteq G /\ IsFiniteSet(T) /\ ~Listed(T)
  BY FS_Subset
<1>4. T # {}
  <2> SUFFICES ASSUME T = {} PROVE FALSE
    OBVIOUS
  <2>1. [i \in 1..0 |-> 0] \in [1..0 -> T] /\ Ascending([i \in 1..0 |-> 0])
    BY DEF Ascending
  <2> QED
    BY <2>1, <1>3, FS_EmptySet
<1>5. PICK m \in T : \A x \in T : x =< m
  BY <1>3, <1>4, GreatestNumber
<1> DEFINE U == T \ {m}
<1> DEFINE n == Cardinality(U)
<1>6. n \in Nat /\ Cardinality(T) = n + 1
  <2>1. IsFiniteSet(U) /\ Cardinality(U) = Cardinality(T) - 1
    BY <1>3, FS_RemoveElement
  <2>2. Cardinality(U) \in Nat /\ Cardinality(T) \in Nat
    BY <2>1, <1>3, FS_CardinalityType
  <2> QED
    BY <2>1, <2>2
<1>7. Listed(U)
  <2>1. <<U, T>> \in StrictSubsetOrdering(G)
    BY <1>3 DEF StrictSubsetOrdering
  <2> HIDE DEF Listed
  <2> QED
    BY <2>1, <1>2, <1>3
<1>8. PICK f \in [1..n -> U] : Ascending(f)
  BY <1>7
<1> DEFINE g == [i \in 1..(n + 1) |-> IF i = n + 1 THEN m ELSE f[i]]
<1> HIDE DEF n, Listed
<1>9. g \in [1..(n + 1) -> T]
  BY <1>6
<1>10. Ascending(g)
  <2> SUFFICES ASSUME NEW i \in 1..(n + 1), NEW j \in 1..(n + 1), i < j
               PROVE  g[i] < g[j]
    BY DEF Ascending
  <2>1. i \in 1..n /\ f[i] \in U
    BY <1>6
  <2>2. CASE j = n + 1
    <3>1. f[i] =< m /\ f[i] # m /\ f[i] \in Nat /\ m \in Nat
      BY <2>1, <1>5, <1>3
    <3>2. g[j] = m /\ g[i] = f[i]
      BY <2>1, <2>2, <1>6
    <3> HIDE DEF g
    <3> QED
      BY <3>1, <3>2
  <2>3. CASE j # n + 1
    <3>1. j \in 1..n
      BY <2>3, <1>6
    <3> QED
      BY <3>1, <2>1, <1>6, <1>8 DEF Ascending
  <2> QED
    BY <2>2, <2>3
<1>11. Listed(T)
  BY <1>6, <1>9, <1>10 DEF Listed
<1> QED
  BY <1>11, <1>3

Usable == FirstBlk..LastBlk

LEMMA UsableBlocks ==
  /\ IsFiniteSet(Usable) /\ Cardinality(Usable) = LastBlk - FirstBlk + 1
  /\ Usable \subseteq Phys /\ Usable \subseteq Nat
  /\ LastBlk - FirstBlk \in Nat
<1>1. /\ FirstBlk \in Nat /\ LastBlk \in Nat /\ FirstBlk =< LastBlk
      /\ FirstBlk \in Int /\ LastBlk \in Int /\ ~(FirstBlk > LastBlk)
  BY TlCacheAssumption
<1>2. IsFiniteSet(Usable) /\ Cardinality(Usable) = LastBlk - FirstBlk + 1
  BY <1>1, FS_Interval DEF Usable
<1> QED
  BY <1>1, <1>2 DEF Usable, Phys

LEMMA MapTabLists ==
  ASSUME NEW b
  PROVE  /\ MapTab(b) \in Seq(Usable)
         /\ \A i \in 1..Len(MapTab(b)) : MapTab(b)[i] \in Usable
         /\ Len(MapTab(b)) \in Nat /\ DOMAIN MapTab(b) = 1..Len(MapTab(b))
         /\ Len(MapTab(b)) =< LastBlk - FirstBlk + 1
         /\ b = {} => Len(MapTab(b)) = LastBlk - FirstBlk + 1
         /\ \A i, j \in DOMAIN MapTab(b) : MapTab(b)[i] = MapTab(b)[j] => i = j
<1> DEFINE G == Usable \ b
<1> DEFINE n == Cardinality(G)
<1> DEFINE f == MapTab(b)
<1>1. G \in SUBSET Nat /\ IsFiniteSet(G) /\ n =< LastBlk - FirstBlk + 1 /\ n \in Nat
  <2>1. G \in SUBSET Usable /\ G \subseteq Nat
    BY UsableBlocks
  <2>2. IsFiniteSet(G) /\ n =< Cardinality(Usable)
    BY <2>1, UsableBlocks, FS_Subset
  <2> QED
    BY <2>1, <2>2, UsableBlocks, FS_CardinalityType
<1>2. b = {} => n = LastBlk - FirstBlk + 1
  <2> SUFFICES ASSUME b = {} PROVE Usable \ b = Usable
    BY UsableBlocks
  <2> QED
    OBVIOUS
<1> HIDE DEF n
<1>3. f \in [1..n -> G] /\ Ascending(f)
  <2>1. \E g \in [1..n -> G] : Ascending(g)
    BY <1>1, AscendingList DEF n
  <2>2. f = CHOOSE g \in [1..n -> G] : Ascending(g)
    BY DEF MapTab, Ascending, n, Usable
  <2> HIDE DEF f, G
  <2> QED
    BY <2>1, <2>2
<1> HIDE DEF f
<1>4. /\ f \in Seq(Usable) /\ Len(f) = n /\ DOMAIN f = 1..n
      /\ \A i \in 1..n : f[i] \in Usable
  <2>1. f \in [1..n -> Usable]
    BY <1>3
  <2> QED
    BY <2>1, <1>1
<1>5. ASSUME NEW i \in 1..n, NEW j \in 1..n, f[i] = f[j] PROVE i = j
  <2>1. i \in Nat /\ j \in Nat /\ f[i] \in Nat /\ f[j] \in Nat
    BY <1>1, <1>3
  <2>2. (i < j => f[i] < f[j]) /\ (j < i => f[j] < f[i])
    BY <1>3, <1>4 DEF Ascending
  <2> QED
    BY <2>1, <2>2, <1>5
<1> QED
  BY <1>1, <1>2, <1>4, <1>5 DEF f

LEMMA NoneIsNoBlock == None \notin Phys /\ 0 \in Blk /\ Blk \subseteq Nat
BY TlCacheAssumption DEF None, Phys, Blk

(***************************************************************************)
(* What a start leaves at map_tab, whether it could read it or not.        *)
(***************************************************************************)
LEMMA TableOfStart ==
  ASSUME NEW b, NEW table, table = MapTab(b) \/ table \in AnyTable
  PROVE  table \in Seq(Phys \cup {None})
<1>1. CASE table = MapTab(b)
  <2>1. table \in [1..Len(table) -> Usable] /\ Len(table) \in Nat
    BY <1>1, MapTabLists
  <2>2. table \in [1..Len(table) -> Phys \cup {None}]
    BY <2>1, UsableBlocks
  <2> QED
    BY <2>1, <2>2
<1>2. CASE table \in AnyTable
  BY <1>2, TlCacheAssumption DEF AnyTable
<1> QED
  BY <1>1, <1>2

LEMMA TableTypes ==
  ASSUME TypeOK, NEW l \in Nat
  PROVE  /\ l2pblkno(l) \in Phys \cup {None}
         /\ l2pblkno(l) # None => l + 1 \in DOMAIN good_blk /\ l < Len(good_blk)
                                  /\ l2pblkno(l) = good_blk[l + 1]
<1>1. Len(good_blk) \in Nat /\ good_blk \in Seq(Phys \cup {None})
  BY DEF TypeOK
<1>2. CASE l >= Len(good_blk)
  BY <1>2 DEF l2pblkno
<1>3. CASE ~(l >= Len(good_blk))
  <2>1. l + 1 \in 1..Len(good_blk) /\ l < Len(good_blk)
    BY <1>1, <1>3
  <2>2. good_blk[l + 1] \in Phys \cup {None}
    BY <1>1, <2>1
  <2> QED
    BY <1>1, <1>3, <2>1, <2>2 DEF l2pblkno
<1> QED
  BY <1>2, <1>3

LEMMA LostIsContent == Lost \in Content
BY DEF Lost, Content

-----------------------------------------------------------------------------
(***************************************************************************)
(* What a request does to the slot it is served from, and to no other.     *)
(***************************************************************************)
LEMMA BlkCpyEffect ==
  ASSUME TypeOK, NEW i \in Slot, NEW content \in Content, NEW l, NEW r \in Request,
         BlkCpy(i, content, l, r)
  PROVE  /\ buf' \in [Slot -> Content] /\ dirt' \in [Slot -> BOOLEAN]
         /\ \A j \in Slot \ {i} : buf'[j] = buf[j] /\ dirt'[j] = dirt[j]
         /\ ~dirt'[i] => ~dirt[i] /\ buf'[i] = content
<1> USE DEF TypeOK
<1>1. CASE r.rw = "READ"
  BY <1>1 DEF BlkCpy
<1>2. CASE r.rw # "READ"
  <2>1. r.cell \in Cell /\ r.data \in Data
    BY <1>2 DEF Request
  <2>2. [content EXCEPT ![r.cell] = r.data] \in Content
    BY <2>1 DEF Content
  <2> QED
    BY <1>2, <2>2 DEF BlkCpy
<1> QED
  BY <1>1, <1>2

LEMMA FillEffect ==
  ASSUME TypeOK, NEW i \in Slot, NEW content \in Content, NEW l, NEW r \in Request,
         Fill(i, content, l, r)
  PROVE  /\ buf' \in [Slot -> Content] /\ dirt' \in [Slot -> BOOLEAN]
         /\ \A j \in Slot \ {i} : buf'[j] = buf[j] /\ dirt'[j] = dirt[j]
         /\ ~dirt'[i] => buf'[i] = content \/ (ReadErrors /\ buf'[i] = Lost)
<1>1. CASE BlkCpy(i, content, l, r)
  BY <1>1, BlkCpyEffect
<1>2. CASE ReadErrors /\ buf' = [buf EXCEPT ![i] = Lost] /\ UNCHANGED dirt
  BY <1>2, LostIsContent DEF TypeOK
<1> QED
  BY <1>1, <1>2 DEF Fill

LEMMA RwHitStep ==
  ASSUME TypeOK, LabelsDiffer, NEW l, NEW r \in Request, RwHit(l, r)
  PROVE  /\ TypeOK' /\ LabelsDiffer'
         /\ \A j \in Slot : CopyOrUnread(j) => CopyOrUnread(j)'
<1>1. PICK i \in Slot : BlkCpy(i, buf[i], l, r)
  BY DEF RwHit, Cached
<1>2. buf[i] \in Content
  BY DEF TypeOK
<1>3. UNCHANGED <<chipVars, bootVars, blkno, wild>>
  BY DEF RwHit
<1>4. /\ buf' \in [Slot -> Content] /\ dirt' \in [Slot -> BOOLEAN]
      /\ \A j \in Slot \ {i} : buf'[j] = buf[j] /\ dirt'[j] = dirt[j]
      /\ ~dirt'[i] => ~dirt[i] /\ buf'[i] = buf[i]
  BY <1>1, <1>2, BlkCpyEffect
<1>5. TypeOK' /\ LabelsDiffer'
  BY <1>3, <1>4 DEF TypeOK, LabelsDiffer, chipVars, bootVars
<1>6. ASSUME NEW j \in Slot, CopyOrUnread(j) PROVE CopyOrUnread(j)'
  BY <1>3, <1>4, <1>6 DEF CopyOrUnread, chipVars
<1> QED
  BY <1>5, <1>6

LEMMA FirstFreeSlot ==
  ASSUME Free # {}
  PROVE  (CHOOSE i \in Free : \A j \in Free : i =< j) \in Free
<1> DEFINE n == CACHE_ST_NR
<1> DEFINE T == {n - x : x \in Free}
<1>1. n \in Nat /\ Free \subseteq 0..n
  BY TlCacheAssumption DEF Free, Slot
<1> HIDE DEF n
<1>2. \A x \in Free : x \in Nat /\ x =< n
  BY <1>1
<1>3. T \in SUBSET (0..n) /\ T # {}
  <2>1. \A x \in Free : n - x \in 0..n
    BY <1>1, <1>2
  <2> QED
    BY <2>1
<1>4. IsFiniteSet(T) /\ T \in SUBSET Nat
  <2>1. IsFiniteSet(0..n) /\ 0..n \subseteq Nat
    BY <1>1, FS_Interval
  <2> HIDE DEF T
  <2> QED
    BY <2>1, <1>3, FS_Subset
<1>5. PICK m \in T : \A x \in T : x =< m
  BY <1>3, <1>4, GreatestNumber
<1>6. PICK i \in Free : m = n - i
  OBVIOUS
<1>7. ASSUME NEW j \in Free PROVE i =< j
  <2>1. n - j =< n - i
    BY <1>5, <1>6
  <2> QED
    BY <2>1, <1>1, <1>2
<1> QED
  BY <1>7

(***************************************************************************)
(* A free slot is labelled with the block that missed, and filled.         *)
(***************************************************************************)
LEMMA RwFillStep ==
  ASSUME TypeOK, LabelsDiffer, NEW l \in Nat, NEW r \in Request, RwFill(l, r)
  PROVE  /\ TypeOK' /\ LabelsDiffer'
         /\ \A j \in Slot : CopyOrUnread(j) => CopyOrUnread(j)'
<1> DEFINE p == l2pblkno(l)
<1> DEFINE i == CHOOSE i \in Free : \A j \in Free : i =< j
<1>1. i \in Slot /\ blkno[i] = None
  BY FirstFreeSlot DEF RwFill, Free
<1>2. /\ Cached(p) = {} /\ Claim(i, p)
      /\ Fill(i, ReadBlk(p, flash), l, r)
      /\ UNCHANGED <<chipVars, bootVars, wild>>
  BY DEF RwFill
<1>3. p \in Phys \cup {None}
  BY TableTypes
<1> HIDE DEF p, i
<1>4. ReadBlk(p, flash) \in Content
  BY <1>3, LostIsContent DEF ReadBlk, TypeOK
<1>5. /\ buf' \in [Slot -> Content] /\ dirt' \in [Slot -> BOOLEAN]
      /\ \A j \in Slot \ {i} : buf'[j] = buf[j] /\ dirt'[j] = dirt[j]
      /\ ~dirt'[i] => buf'[i] = ReadBlk(p, flash) \/ (ReadErrors /\ buf'[i] = Lost)
  BY <1>1, <1>2, <1>4, FillEffect
<1>6. /\ blkno' \in [Slot -> Phys \cup {None}] /\ blkno'[i] = p
      /\ \A j \in Slot \ {i} : blkno'[j] = blkno[j]
  BY <1>1, <1>2, <1>3 DEF Claim, TypeOK
<1>7. TypeOK'
  BY <1>2, <1>5, <1>6 DEF TypeOK, chipVars, bootVars
<1>8. LabelsDiffer'
  <2> SUFFICES ASSUME NEW a \in Slot, NEW b \in Slot, blkno'[a] # None, blkno'[a] = blkno'[b]
               PROVE  a = b
    BY DEF LabelsDiffer
  <2>1. \A j \in Slot : blkno[j] = p => p = None
    BY <1>2 DEF Cached
  <2> QED
    BY <2>1, <1>6 DEF LabelsDiffer
<1>9. ASSUME NEW j \in Slot, CopyOrUnread(j) PROVE CopyOrUnread(j)'
  BY <1>2, <1>5, <1>6, <1>9 DEF CopyOrUnread, chipVars, ReadBlk
<1> QED
  BY <1>7, <1>8, <1>9

(***************************************************************************)
(* The oldest slot gives way: only its contents and its block change.      *)
(***************************************************************************)
LEMMA RwEvictStep ==
  ASSUME TypeOK, LabelsDiffer, NEW l \in Nat, NEW r \in Request, RwEvict(l, r)
  PROVE  /\ TypeOK' /\ LabelsDiffer' /\ oldest' = oldest
         /\ \A j \in Slot \ {oldest} : CopyOrUnread(j) => CopyOrUnread(j)'
<1> DEFINE p == l2pblkno(l)
<1> DEFINE q == blkno[oldest]
<1> DEFINE written == [flash EXCEPT ![q] = buf[oldest]]
<1>1. oldest \in Slot /\ q \in Phys
  BY DEF RwEvict, Free, TypeOK
<1>2. p \in Phys \cup {None}
  BY TableTypes
<1>3. /\ UNCHANGED <<bootVars, blkno>>
      /\ \/ /\ flash' = written /\ Fill(oldest, ReadBlk(p, written), l, r)
            /\ UNCHANGED <<bad, wild>>
         \/ /\ flash' = flash \/ flash' = [flash EXCEPT ![q] = Lost]
            /\ bad' = bad \cup {q} /\ wild' = TRUE
            /\ UNCHANGED <<buf, dirt>>
  BY DEF RwEvict, SyncTlCache
<1>4. written \in [Phys -> Content] /\ [flash EXCEPT ![q] = Lost] \in [Phys -> Content]
  BY <1>1, LostIsContent DEF TypeOK
<1>5. ReadBlk(p, written) \in Content
  BY <1>2, <1>4, LostIsContent DEF ReadBlk
<1>6. /\ flash' \in [Phys -> Content] /\ \A x \in Phys \ {q} : flash'[x] = flash[x]
      /\ bad' \subseteq Phys /\ wild' \in BOOLEAN
      /\ buf' \in [Slot -> Content] /\ dirt' \in [Slot -> BOOLEAN]
      /\ \A j \in Slot \ {oldest} : buf'[j] = buf[j] /\ dirt'[j] = dirt[j]
  <2>1. CASE /\ flash' = written /\ Fill(oldest, ReadBlk(p, written), l, r)
             /\ UNCHANGED <<bad, wild>>
    <3>1. /\ buf' \in [Slot -> Content] /\ dirt' \in [Slot -> BOOLEAN]
          /\ \A j \in Slot \ {oldest} : buf'[j] = buf[j] /\ dirt'[j] = dirt[j]
      BY <2>1, <1>1, <1>5, FillEffect
    <3> QED
      BY <2>1, <3>1, <1>1, <1>4 DEF TypeOK
  <2>2. CASE /\ flash' = flash \/ flash' = [flash EXCEPT ![q] = Lost]
             /\ bad' = bad \cup {q} /\ wild' = TRUE
             /\ UNCHANGED <<buf, dirt>>
    BY <2>2, <1>1, <1>4 DEF TypeOK
  <2> QED
    BY <1>3, <2>1, <2>2
<1>7. TypeOK' /\ LabelsDiffer' /\ oldest' = oldest
  BY <1>3, <1>6 DEF TypeOK, LabelsDiffer, bootVars
<1>8. ASSUME NEW j \in Slot \ {oldest}, CopyOrUnread(j) PROVE CopyOrUnread(j)'
  <2> SUFFICES ASSUME blkno[j] # None, ~dirt[j]
               PROVE  buf'[j] = flash'[blkno[j]] \/ (ReadErrors /\ buf'[j] = Lost)
    BY <1>3, <1>6 DEF CopyOrUnread
  <2>1. blkno[j] \in Phys \ {q}
    BY <1>1 DEF TypeOK, LabelsDiffer
  <2> QED
    BY <2>1, <1>6, <1>8 DEF CopyOrUnread
<1> QED
  BY <1>7, <1>8

(***************************************************************************)
(* Writing slots back: the block of each slot gets its buffer, and no      *)
(* other block changes.                                                    *)
(***************************************************************************)
LEMMA WrittenBackEffect ==
  ASSUME TypeOK, LabelsDiffer, NEW S \in SUBSET Dirty
  PROVE  /\ WrittenBack(S) \in [Phys -> Content]
         /\ \A i \in S : WrittenBack(S)[blkno[i]] = buf[i]
         /\ \A p \in Phys : (\A i \in S : blkno[i] # p) => WrittenBack(S)[p] = flash[p]
<1>1. \A i \in S : i \in Slot /\ blkno[i] # None /\ blkno[i] \in Phys
  BY DEF Dirty, TypeOK
<1>2. ASSUME NEW p \in Phys, NEW i \in S, blkno[i] = p
      PROVE  WrittenBack(S)[p] = buf[i] /\ buf[i] \in Content
  <2>1. (CHOOSE j \in S : blkno[j] = p) = i
    BY <1>1, <1>2 DEF LabelsDiffer
  <2> QED
    BY <2>1, <1>1, <1>2 DEF WrittenBack, TypeOK
<1>3. ASSUME NEW p \in Phys, \A i \in S : blkno[i] # p
      PROVE  WrittenBack(S)[p] = flash[p] /\ flash[p] \in Content
  BY <1>3 DEF WrittenBack, TypeOK
<1>4. \A p \in Phys : WrittenBack(S)[p] \in Content
  BY <1>2, <1>3
<1>5. WrittenBack(S) = [p \in Phys |-> WrittenBack(S)[p]]
  BY DEF WrittenBack
<1>6. WrittenBack(S) \in [Phys -> Content]
  BY <1>4, <1>5
<1> QED
  BY <1>1, <1>2, <1>3, <1>6

LEMMA SyncTlStep ==
  ASSUME TypeOK, LabelsDiffer, SyncTl
  PROVE  /\ TypeOK' /\ LabelsDiffer'
         /\ \A j \in Slot : CopyOrUnread(j) => CopyOrUnread(j)'
<1>1. UNCHANGED <<good_blk, listed, oldest, blkno, buf, wild>>
  BY DEF SyncTl, bootVars
<1>2. ASSUME NEW S \in SUBSET Dirty, dirt' = [i \in Slot |-> dirt[i] /\ i \notin S],
             flash' \in [Phys -> Content],
             \A i \in S : flash'[blkno[i]] = buf[i],
             \A i \in Slot \ Dirty : blkno[i] # None => flash'[blkno[i]] = flash[blkno[i]],
             bad' \subseteq Phys
      PROVE  /\ TypeOK' /\ LabelsDiffer'
             /\ \A j \in Slot : CopyOrUnread(j) => CopyOrUnread(j)'
  <2>1. dirt' \in [Slot -> BOOLEAN]
    BY <1>2 DEF TypeOK
  <2>2. TypeOK' /\ LabelsDiffer'
    BY <1>1, <1>2, <2>1 DEF TypeOK, LabelsDiffer
  <2>3. ASSUME NEW j \in Slot, CopyOrUnread(j) PROVE CopyOrUnread(j)'
    <3>1. CASE j \in S
      BY <3>1, <1>1, <1>2 DEF CopyOrUnread
    <3>2. CASE j \in Dirty \ S
      BY <3>2, <1>1, <1>2 DEF CopyOrUnread, Dirty
    <3>3. CASE j \notin Dirty
      BY <3>3, <1>1, <1>2, <2>3 DEF CopyOrUnread, Dirty
    <3> QED
      BY <3>1, <3>2, <3>3
  <2> QED
    BY <2>2, <2>3
<1>3. \A i \in Slot, j \in Slot : blkno[i] # None /\ i # j => blkno[i] # blkno[j]
  BY DEF LabelsDiffer
<1>4. CASE /\ flash' = WrittenBack(Dirty) /\ UNCHANGED bad
           /\ dirt' = [i \in Slot |-> dirt[i] /\ i \notin Dirty]
  <2>1. \A i \in Slot \ Dirty : blkno[i] # None => flash'[blkno[i]] = flash[blkno[i]]
    BY <1>3, <1>4, WrittenBackEffect DEF Dirty, TypeOK
  <2> QED
    BY <2>1, <1>2, <1>4, WrittenBackEffect DEF TypeOK
<1>5. CASE \E stop \in Dirty :
             LET p == blkno[stop]
                 back == WrittenBack(SyncUpTo(stop))
             IN  /\ flash' = IF p \in bad THEN back ELSE [back EXCEPT ![p] = Lost]
                 /\ bad' = bad \cup {p}
                 /\ dirt' = [i \in Slot |-> dirt[i] /\ i \notin SyncUpTo(stop)]
  <2>1. PICK stop \in Dirty :
          /\ \/ flash' = WrittenBack(SyncUpTo(stop))
             \/ flash' = [WrittenBack(SyncUpTo(stop)) EXCEPT ![blkno[stop]] = Lost]
          /\ bad' = bad \cup {blkno[stop]}
          /\ dirt' = [i \in Slot |-> dirt[i] /\ i \notin SyncUpTo(stop)]
    BY <1>5
  <2> DEFINE S == SyncUpTo(stop)
  <2> DEFINE p == blkno[stop]
  <2> DEFINE back == WrittenBack(S)
  <2>2. stop \in Slot /\ p \in Phys /\ p # None
    BY DEF Dirty, TypeOK
  <2>3. S \in SUBSET Dirty /\ stop \notin S
    BY <2>2, TlCacheAssumption DEF SyncUpTo, Slot
  <2>4. /\ back \in [Phys -> Content]
        /\ \A i \in S : back[blkno[i]] = buf[i]
        /\ \A q \in Phys : (\A i \in S : blkno[i] # q) => back[q] = flash[q]
    BY <2>3, WrittenBackEffect
  <2>5. flash' = back \/ flash' = [back EXCEPT ![p] = Lost]
    BY <2>1
  <2> HIDE DEF back, p, S
  <2>6. flash' \in [Phys -> Content] /\ \A q \in Phys \ {p} : flash'[q] = back[q]
    BY <2>2, <2>4, <2>5, LostIsContent
  <2>7. \A i \in S : flash'[blkno[i]] = buf[i]
    <3>1. \A i \in S : blkno[i] \in Phys \ {p}
      BY <2>2, <2>3, <1>3 DEF Dirty, TypeOK, p
    <3> QED
      BY <3>1, <2>4, <2>6
  <2>8. \A i \in Slot \ Dirty : blkno[i] # None => flash'[blkno[i]] = flash[blkno[i]]
    <3> SUFFICES ASSUME NEW i \in Slot \ Dirty, blkno[i] # None
                 PROVE  flash'[blkno[i]] = flash[blkno[i]]
      OBVIOUS
    <3>1. blkno[i] \in Phys \ {p} /\ \A k \in S : blkno[k] # blkno[i]
      BY <2>2, <2>3, <1>3 DEF Dirty, TypeOK, p
    <3> QED
      BY <3>1, <2>4, <2>6
  <2>9. bad' \subseteq Phys
    BY <2>1, <2>2 DEF TypeOK, p
  <2> QED
    BY <2>1, <2>3, <2>6, <2>7, <2>8, <2>9, <1>2 DEF S
<1> QED
  BY <1>4, <1>5 DEF SyncTl, SysSyncTl

LEMMA BlkDrvInitStep ==
  ASSUME BlkDrvInit, flash' \in [Phys -> Content], bad' \subseteq Phys
  PROVE  /\ TypeOK' /\ LabelsDiffer'
         /\ \A j \in Slot : CopyOrUnread(j)'
<1>1. /\ good_blk' \in Seq(Phys \cup {None}) /\ listed' \in BOOLEAN
      /\ oldest' \in Slot /\ wild' \in BOOLEAN
      /\ blkno' = [i \in Slot |-> None]
      /\ buf' = [i \in Slot |-> Lost] /\ dirt' = [i \in Slot |-> FALSE]
  BY TableOfStart DEF BlkDrvInit, GetMapTab
<1> QED
  BY <1>1, LostIsContent DEF TypeOK, LabelsDiffer, CopyOrUnread

LEMMA PowerFailsStep ==
  ASSUME TypeOK, LabelsDiffer, PowerFails
  PROVE  /\ TypeOK' /\ LabelsDiffer'
         /\ \A j \in Slot : CopyOrUnread(j)'
<1>1. flash' \in [Phys -> Content]
  <2>1. \A f \in [Phys -> Content] : \A p : [f EXCEPT ![p] = Lost] \in [Phys -> Content]
    BY LostIsContent
  <2>2. \A i \in Dirty : SyncUpTo(i) \in SUBSET Dirty
    BY DEF SyncUpTo
  <2>3. \A i \in Dirty : WrittenBack(SyncUpTo(i)) \in [Phys -> Content]
    BY <2>2, WrittenBackEffect
  <2> QED
    BY <2>1, <2>3 DEF PowerFails, TypeOK
<1>2. bad' \subseteq Phys /\ BlkDrvInit
  BY DEF PowerFails, TypeOK
<1> QED
  BY <1>1, <1>2, BlkDrvInitStep

-----------------------------------------------------------------------------
(***************************************************************************)
(* The invariant of the cache, for any number of requests and slots.       *)
(***************************************************************************)
LEMMA InitCacheInv == Init => CacheInv
<1> SUFFICES ASSUME Init PROVE CacheInv
  OBVIOUS
<1>1. good_blk \in Seq(Phys \cup {None}) /\ listed \in BOOLEAN
  BY TableOfStart DEF Init
<1> QED
  BY <1>1, LostIsContent DEF Init, CacheInv, TypeOK, LabelsDiffer, CopyOrUnread

LEMMA NextCacheInv == CacheInv /\ [Next]_vars => CacheInv'
<1> SUFFICES ASSUME CacheInv, [Next]_vars PROVE CacheInv'
  OBVIOUS
<1> USE DEF CacheInv
<1>1. \A l \in 0..LastReq : l \in Nat
  BY TlCacheAssumption
<1>2. CASE \E l \in 0..LastReq, r \in Request : RwHit(l, r)
  <2>1. oldest' = oldest
    BY <1>2 DEF RwHit, bootVars
  <2> QED
    BY <1>2, <2>1, RwHitStep
<1>3. CASE \E l \in 0..LastReq, r \in Request : RwFill(l, r)
  <2>1. oldest' = oldest
    BY <1>3 DEF RwFill, bootVars
  <2> QED
    BY <1>1, <1>3, <2>1, RwFillStep
<1>4. CASE \E l \in 0..LastReq, r \in Request : RwEvict(l, r)
  BY <1>1, <1>4, RwEvictStep
<1>5. CASE SyncTl
  <2>1. oldest' = oldest
    BY <1>5 DEF SyncTl, bootVars
  <2> QED
    BY <1>5, <2>1, SyncTlStep
<1>6. CASE PowerFails
  BY <1>6, PowerFailsStep
<1>7. CASE UNCHANGED vars
  BY <1>7 DEF vars, chipVars, bootVars, cacheVars, TypeOK, LabelsDiffer, CopyOrUnread
<1> QED
  BY <1>2, <1>3, <1>4, <1>5, <1>6, <1>7 DEF Next, SysRwNand

(***************************************************************************)
(* Whatever is asked for and whatever fails, no two slots are labelled     *)
(* with the same block, and every slot but the oldest is a copy of its     *)
(* block, has been written to or could not be read (blk_drv.c:357-464).    *)
(***************************************************************************)
THEOREM CacheInvariant == Spec => []CacheInv
BY InitCacheInv, NextCacheInv, PTL DEF Spec

(***************************************************************************)
(* The slots, the table and the chip keep their types.                     *)
(***************************************************************************)
THEOREM TypeCorrect == Spec => []TypeOK
<1>1. CacheInv => TypeOK
  BY DEF CacheInv
<1> QED
  BY <1>1, CacheInvariant, PTL

(***************************************************************************)
(* On a chip whose blocks can all be read, an eviction spoils the label of *)
(* the oldest slot only (blk_drv.c:401-411): the others hold their blocks. *)
(***************************************************************************)
THEOREM OthersHold ==
  ASSUME ~ReadErrors
  PROVE  Spec => []OthersHoldTheirBlocks
<1>1. CacheInv => OthersHoldTheirBlocks
  BY DEF CacheInv, CopyOrUnread, OthersHoldTheirBlocks, HoldsItsBlock
<1> QED
  BY <1>1, CacheInvariant, PTL

-----------------------------------------------------------------------------
(***************************************************************************)
(* A slot for every block that is asked for: the slots have different      *)
(* labels, all among the blocks asked for, so that a block without a slot  *)
(* leaves a slot free.                                                     *)
(***************************************************************************)
LEMMA NoEviction ==
  ASSUME SlotForEveryBlock, LabelsDiffer, LabelsAreAskedFor,
         NEW l \in 0..LastReq, NEW r, RwEvict(l, r)
  PROVE  FALSE
<1> DEFINE g == [i \in Slot |-> CHOOSE k \in 0..LastReq : blkno[i] = l2pblkno(k)]
<1>1. \A i \in Slot : blkno[i] # None
  BY DEF RwEvict, Free
<1>2. \A i \in Slot : g[i] \in 0..LastReq /\ blkno[i] = l2pblkno(g[i])
  BY <1>1 DEF LabelsAreAskedFor
<1>3. g \in Injection(Slot, 0..LastReq)
  BY <1>1, <1>2 DEF Injection, IsInjective, LabelsDiffer
<1>4. /\ IsFiniteSet(0..LastReq) /\ Cardinality(0..LastReq) = LastReq + 1
      /\ Cardinality(Slot) = CACHE_ST_NR
  <2>1. /\ 0 \in Int /\ LastReq \in Int /\ ~(0 > LastReq) /\ LastReq - 0 + 1 = LastReq + 1
        /\ CACHE_ST_NR - 1 \in Int /\ ~(0 > CACHE_ST_NR - 1)
        /\ CACHE_ST_NR - 1 - 0 + 1 = CACHE_ST_NR
    BY TlCacheAssumption
  <2> QED
    BY <2>1, FS_Interval DEF Slot
<1> HIDE DEF g
<1>5. Cardinality(Slot) =< Cardinality(0..LastReq)
  BY <1>3, <1>4, FS_Injection
<1>6. Cardinality(Slot) = Cardinality(0..LastReq)
  BY <1>4, <1>5, TlCacheAssumption DEF SlotForEveryBlock
<1>7. g \in Surjection(Slot, 0..LastReq)
  BY <1>3, <1>4, <1>6, FS_Injection
<1>8. PICK i \in Slot : g[i] = l
  BY <1>7 DEF Surjection
<1>9. i \in Cached(l2pblkno(l))
  BY <1>1, <1>2, <1>8 DEF Cached
<1> QED
  BY <1>9 DEF RwEvict

LEMMA TableStep ==
  ASSUME TableOfGoodBlocks, good_blk' = good_blk, listed' = listed, bad \subseteq bad'
  PROVE  TableOfGoodBlocks'
BY DEF TableOfGoodBlocks

LEMMA TableAtStart ==
  ASSUME NEW b
  PROVE  /\ \A i \in DOMAIN MapTab(b) : MapTab(b)[i] \in FirstBlk..LastBlk
         /\ \A i, j \in DOMAIN MapTab(b) : MapTab(b)[i] = MapTab(b)[j] => i = j
         /\ Len(MapTab(b)) =< LastBlk - FirstBlk + 1
         /\ b = {} => MapTab(b) = MapTab({}) /\ Len(MapTab(b)) = LastBlk - FirstBlk + 1
BY MapTabLists DEF Usable

LEMMA InitDeviceInv == Init => DeviceInv
<1> SUFFICES ASSUME Init PROVE DeviceInv
  OBVIOUS
<1>1. (listed => good_blk = MapTab({})) /\ bad = {}
  BY DEF Init
<1>2. TableOfGoodBlocks
  BY <1>1, TableAtStart DEF TableOfGoodBlocks
<1>3. CacheInv
  BY InitCacheInv
<1> QED
  BY <1>2, <1>3 DEF Init, DeviceInv, CopyOrUnread, LabelsAreAskedFor

LEMMA NextDeviceInv ==
  ASSUME SlotForEveryBlock
  PROVE  DeviceInv /\ [Next]_vars => DeviceInv'
<1> SUFFICES ASSUME DeviceInv, [Next]_vars PROVE DeviceInv'
  OBVIOUS
<1>1. CacheInv'
  BY NextCacheInv DEF DeviceInv
<1>2. /\ TypeOK /\ LabelsDiffer /\ TableOfGoodBlocks /\ LabelsAreAskedFor /\ ~wild
      /\ oldest \in Slot /\ CopyOrUnread(oldest)
  BY DEF DeviceInv, CacheInv, TypeOK
<1>n. \A l \in 0..LastReq : l \in Nat
  BY TlCacheAssumption
<1>3. CASE \E l \in 0..LastReq, r \in Request : RwHit(l, r)
  <2>1. UNCHANGED <<good_blk, listed, bad, oldest, blkno, wild>>
    BY <1>3 DEF RwHit, bootVars, chipVars
  <2>2. CopyOrUnread(oldest)'
    BY <1>2, <1>3, <2>1, RwHitStep
  <2>3. LabelsAreAskedFor'
    BY <1>2, <2>1 DEF LabelsAreAskedFor, l2pblkno
  <2> QED
    BY <1>1, <1>2, <2>1, <2>2, <2>3, TableStep DEF DeviceInv
<1>4. CASE \E l \in 0..LastReq, r \in Request : RwFill(l, r)
  <2>1. UNCHANGED <<good_blk, listed, bad, oldest, wild>>
    BY <1>4 DEF RwFill, bootVars, chipVars
  <2>2. CopyOrUnread(oldest)'
    BY <1>2, <1>4, <1>n, <2>1, RwFillStep
  <2>3. PICK l \in 0..LastReq : \E i : blkno' = [blkno EXCEPT ![i] = l2pblkno(l)]
    BY <1>4 DEF RwFill, Claim
  <2>4. \A k : l2pblkno(k)' = l2pblkno(k)
    BY <2>1 DEF l2pblkno
  <2>5. LabelsAreAskedFor'
    <3> SUFFICES ASSUME NEW i \in Slot, blkno'[i] # None
                 PROVE  \E k \in 0..LastReq : blkno'[i] = l2pblkno(k)
      BY <2>4 DEF LabelsAreAskedFor
    <3>1. blkno'[i] = blkno[i] \/ blkno'[i] = l2pblkno(l)
      BY <1>2, <2>3 DEF TypeOK
    <3> QED
      BY <3>1, <1>2 DEF LabelsAreAskedFor
  <2> QED
    BY <1>1, <1>2, <2>1, <2>2, <2>5, TableStep DEF DeviceInv
<1>5. CASE \E l \in 0..LastReq, r \in Request : RwEvict(l, r)
  BY <1>2, <1>5, NoEviction
<1>6. CASE SyncTl
  <2>1. UNCHANGED <<good_blk, listed, oldest, blkno, wild>> /\ bad \subseteq bad'
    BY <1>6 DEF SyncTl, SysSyncTl, bootVars
  <2>2. CopyOrUnread(oldest)'
    BY <1>2, <1>6, <2>1, SyncTlStep
  <2>3. LabelsAreAskedFor'
    BY <1>2, <2>1 DEF LabelsAreAskedFor, l2pblkno
  <2> QED
    BY <1>1, <1>2, <2>1, <2>2, <2>3, TableStep DEF DeviceInv
<1>7. CASE PowerFails
  <2>1. /\ bad' = bad /\ (listed' => good_blk' = MapTab(bad)) /\ oldest' \in Slot
        /\ blkno' = [i \in Slot |-> None] /\ wild' = FALSE
    BY <1>7 DEF PowerFails, BlkDrvInit, GetMapTab
  <2>2. CopyOrUnread(oldest)'
    BY <2>1 DEF CopyOrUnread
  <2>3. LabelsAreAskedFor'
    BY <2>1 DEF LabelsAreAskedFor
  <2>4. TableOfGoodBlocks'
    BY <2>1, TableAtStart DEF TableOfGoodBlocks
  <2> QED
    BY <1>1, <2>1, <2>2, <2>3, <2>4 DEF DeviceInv
<1>8. CASE UNCHANGED vars
  BY <1>1, <1>2, <1>8 DEF vars, chipVars, bootVars, cacheVars, DeviceInv, CopyOrUnread,
     TableOfGoodBlocks, LabelsAreAskedFor, l2pblkno
<1> QED
  BY <1>3, <1>4, <1>5, <1>6, <1>7, <1>8 DEF Next, SysRwNand

(***************************************************************************)
(* As long as no more blocks are asked for than there are slots, the       *)
(* driver never uses slot -1, every label is a block of the table, and     *)
(* every slot is a copy of its block, has been written to or could not be  *)
(* read: all this whatever table the start left, read or not               *)
(* (blk_drv.c:285, 340).  One that was read lists different blocks of the  *)
(* device, all of them while none has worn out.                            *)
(***************************************************************************)
THEOREM DeviceInvariant ==
  ASSUME SlotForEveryBlock
  PROVE  Spec => []DeviceInv
BY InitDeviceInv, NextDeviceInv, PTL DEF Spec

-----------------------------------------------------------------------------
(***************************************************************************)
(* The block device that the driver implements: what a read of a block     *)
(* returns, and what is on the medium.                                     *)
(***************************************************************************)
Disk == [l \in Blk |-> View(l)]
Stable == Medium

(***************************************************************************)
(* Where the table was read, the medium is what the table shows of it.     *)
(***************************************************************************)
LEMMA MediumListed == listed => Stable = [l \in Blk |-> OnChip(l)]
BY DEF Stable, Medium

LEMMA MediumListedNext == listed' => Stable' = [l \in Blk |-> OnChip(l)']
BY DEF Stable, Medium

LEMMA ViewOfSlot ==
  LabelsDiffer =>
    \A l : \A i \in Slot : blkno[i] = l2pblkno(l) /\ blkno[i] # None => View(l) = buf[i]
<1> SUFFICES ASSUME LabelsDiffer, NEW l, NEW i \in Slot,
                    blkno[i] = l2pblkno(l), blkno[i] # None
             PROVE  View(l) = buf[i]
  OBVIOUS
<1>1. Cached(l2pblkno(l)) = {i}
  BY DEF Cached, LabelsDiffer
<1> QED
  BY <1>1 DEF View

LEMMA ViewOfChip ==
  \A l : (\A i \in Slot : blkno[i] # None => blkno[i] # l2pblkno(l)) => View(l) = OnChip(l)
BY DEF View, Cached

LEMMA ViewOfSlotNext ==
  LabelsDiffer' =>
    \A l : \A i \in Slot : blkno'[i] = l2pblkno(l)' /\ blkno'[i] # None => View(l)' = buf'[i]
<1> SUFFICES ASSUME LabelsDiffer', NEW l, NEW i \in Slot,
                    blkno'[i] = l2pblkno(l)', blkno'[i] # None
             PROVE  View(l)' = buf'[i]
  OBVIOUS
<1>1. Cached(l2pblkno(l))' = {i}
  BY DEF Cached, LabelsDiffer
<1> QED
  BY <1>1 DEF View

LEMMA ViewOfChipNext ==
  \A l : (\A i \in Slot : blkno'[i] # None => blkno'[i] # l2pblkno(l)') => View(l)' = OnChip(l)'
<1> SUFFICES ASSUME NEW l, \A i \in Slot : blkno'[i] # None => blkno'[i] # l2pblkno(l)'
             PROVE  View(l)' = OnChip(l)'
  OBVIOUS
<1>1. Cached(l2pblkno(l))' = {}
  BY DEF Cached
<1> QED
  BY <1>1 DEF View

(***************************************************************************)
(* The table gives different blocks of the device different blocks of the  *)
(* chip, and no other number a block.                                      *)
(***************************************************************************)
LEMMA TableIsMap ==
  ASSUME TypeOK, TableOfGoodBlocks, listed
  PROVE  /\ \A x \in Nat : l2pblkno(x) # None => x \in Blk /\ l2pblkno(x) \in Phys
         /\ \A x, y \in Nat : l2pblkno(x) # None /\ l2pblkno(x) = l2pblkno(y) => x = y
         /\ bad = {} => \A x \in Blk : l2pblkno(x) # None
<1>1. Len(good_blk) \in Nat /\ DOMAIN good_blk = 1..Len(good_blk)
      /\ \A k \in 1..Len(good_blk) : good_blk[k] \in Phys
  BY UsableBlocks DEF TypeOK, TableOfGoodBlocks, Usable
<1>2. ASSUME NEW x \in Nat, l2pblkno(x) # None PROVE x \in Blk /\ l2pblkno(x) \in Phys
  <2>1. x < Len(good_blk) /\ l2pblkno(x) \in Phys
    BY <1>2, TableTypes
  <2>2. Len(good_blk) =< LastBlk - FirstBlk + 1
    BY DEF TableOfGoodBlocks
  <2> QED
    BY <1>1, <2>1, <2>2, TlCacheAssumption DEF Blk
<1>3. ASSUME NEW x \in Nat, NEW y \in Nat, l2pblkno(x) # None, l2pblkno(x) = l2pblkno(y)
      PROVE  x = y
  <2>1. /\ x + 1 \in DOMAIN good_blk /\ y + 1 \in DOMAIN good_blk
        /\ good_blk[x + 1] = good_blk[y + 1]
    BY <1>3, TableTypes
  <2>2. x + 1 = y + 1
    BY <2>1 DEF TableOfGoodBlocks
  <2> QED
    BY <2>2
<1>4. ASSUME bad = {}, NEW x \in Blk PROVE l2pblkno(x) # None
  <2>1. x \in Nat /\ ~(x >= Len(good_blk)) /\ x + 1 \in 1..Len(good_blk)
    BY <1>1, <1>4, TlCacheAssumption DEF TableOfGoodBlocks, Blk
  <2>2. l2pblkno(x) = good_blk[x + 1]
    BY <2>1 DEF l2pblkno
  <2> QED
    BY <1>1, <2>1, <2>2, NoneIsNoBlock
<1> QED
  BY <1>2, <1>3, <1>4

(***************************************************************************)
(* A request served from slot i, which shows content for its block x: it   *)
(* is a read or a write of the block.                                      *)
(***************************************************************************)
LEMMA ServedFromSlot ==
  ASSUME NEW i \in Slot, NEW x \in Blk, NEW content \in Content, NEW r \in Request,
         TypeOK, TypeOK', LabelsDiffer, LabelsDiffer', TableOfGoodBlocks, listed, listed',
         BlkCpy(i, content, x, r), View(x) = content, l2pblkno(x) # None,
         UNCHANGED <<flash, bad, good_blk>>,
         blkno'[i] = l2pblkno(x), \A j \in Slot \ {i} : blkno'[j] = blkno[j],
         blkno[i] = blkno'[i] \/ blkno[i] = None
  PROVE  \E c \in Cell : Device!Read(x, c) \/ \E d \in Data : Device!Write(x, c, d)
<1>1. \A y : l2pblkno(y)' = l2pblkno(y) /\ OnChip(y)' = OnChip(y)
  BY DEF l2pblkno, OnChip
<1>2. \A j \in Slot \ {i} : buf'[j] = buf[j]
  BY BlkCpyEffect
<1>3. ASSUME NEW y \in Blk \ {x} PROVE View(y)' = View(y)
  <2>0. x \in Nat /\ y \in Nat
    BY DEF Blk
  <2>1. l2pblkno(y) # l2pblkno(x)
    BY <2>0, <1>3, TableIsMap
  <2>2. CASE \E j \in Slot : blkno[j] = l2pblkno(y) /\ blkno[j] # None
    <3>1. PICK j \in Slot : blkno[j] = l2pblkno(y) /\ blkno[j] # None
      BY <2>2
    <3>2. j # i
      BY <3>1, <2>1
    <3> QED
      BY <3>1, <3>2, <1>1, <1>2, ViewOfSlot, ViewOfSlotNext
  <2>3. CASE \A j \in Slot : blkno[j] # None => blkno[j] # l2pblkno(y)
    <3>1. \A j \in Slot : blkno'[j] # None => blkno'[j] # l2pblkno(y)
      BY <2>1, <2>3
    <3> QED
      BY <3>1, <2>3, <1>1, ViewOfChip, ViewOfChipNext
  <2> QED
    BY <2>2, <2>3
<1>4. View(x)' = buf'[i]
  BY <1>1, ViewOfSlotNext
<1>5. Stable' = Stable /\ (bad # {})' = (bad # {})
  BY <1>1, MediumListed, MediumListedNext
<1>6. r.cell \in Cell
  BY DEF Request
<1>7. CASE r.rw = "READ"
  <2>1. buf'[i] = content /\ answer' = Reply(x, content[r.cell])
    BY <1>7 DEF BlkCpy, TypeOK
  <2>2. \A y \in Blk : View(y)' = View(y)
    BY <2>1, <1>3, <1>4
  <2>3. Disk' = Disk /\ Disk[x][r.cell] = content[r.cell]
    BY <2>2 DEF Disk
  <2>4. Device!Read(x, r.cell)
    BY <2>1, <2>3, <1>5 DEF Device!Read, Device!Reply, Reply, Disk, Stable
  <2> QED
    BY <2>4, <1>6
<1>8. CASE r.rw # "READ"
  <2>1. /\ buf'[i] = [content EXCEPT ![r.cell] = r.data] /\ answer' = Reply(x, "done")
        /\ r.data \in Data
    BY <1>8 DEF BlkCpy, TypeOK, Request
  <2>2. Disk' = [Disk EXCEPT ![x][r.cell] = r.data]
    <3>1. Disk' = [y \in Blk |-> View(y)']
      BY DEF Disk
    <3>2. \A y \in Blk : View(y)' = [Disk EXCEPT ![x][r.cell] = r.data][y]
      BY <2>1, <1>3, <1>4 DEF Disk
    <3>3. DOMAIN [Disk EXCEPT ![x][r.cell] = r.data] = Blk
      BY DEF Disk
    <3> QED
      BY <3>1, <3>2, <3>3 DEF Disk
  <2>3. Device!Write(x, r.cell, r.data)
    BY <2>1, <2>2, <1>5 DEF Device!Write, Device!Reply, Reply, Disk, Stable
  <2> QED
    BY <2>1, <2>3, <1>6
<1> QED
  BY <1>7, <1>8

LEMMA HitIsDeviceStep ==
  ASSUME DeviceInv, DeviceInv', listed, NEW l \in Nat, NEW r \in Request, RwHit(l, r)
  PROVE  Device!Served
<1>1. /\ TypeOK /\ TypeOK' /\ LabelsDiffer /\ LabelsDiffer' /\ TableOfGoodBlocks
  BY DEF DeviceInv, CacheInv
<1>2. PICK i \in Slot : /\ blkno[i] = l2pblkno(l) /\ blkno[i] # None
                        /\ BlkCpy(i, buf[i], l, r)
  BY DEF RwHit, Cached
<1>3. /\ l \in Blk /\ View(l) = buf[i] /\ buf[i] \in Content
      /\ UNCHANGED <<flash, bad, good_blk, listed, blkno>>
  BY <1>1, <1>2, TableIsMap, ViewOfSlot DEF RwHit, chipVars, bootVars, TypeOK
<1>4. \E c \in Cell : Device!Read(l, c) \/ \E d \in Data : Device!Write(l, c, d)
  BY <1>1, <1>2, <1>3, ServedFromSlot
<1> QED
  BY <1>3, <1>4 DEF Device!Served

LEMMA FillIsDeviceStep ==
  ASSUME DeviceInv, DeviceInv', listed, NEW l \in Nat, NEW r \in Request, RwFill(l, r)
  PROVE  Device!Served
<1> DEFINE p == l2pblkno(l)
<1> DEFINE i == CHOOSE i \in Free : \A j \in Free : i =< j
<1>1. /\ TypeOK /\ TypeOK' /\ LabelsDiffer /\ LabelsDiffer' /\ TableOfGoodBlocks
  BY DEF DeviceInv, CacheInv
<1>2. i \in Slot /\ blkno[i] = None
  BY FirstFreeSlot DEF RwFill, Free
<1>3. /\ Cached(p) = {} /\ Fill(i, ReadBlk(p, flash), l, r)
      /\ UNCHANGED <<flash, bad, good_blk, listed, oldest, wild>>
      /\ Claim(i, p)
  BY DEF RwFill, chipVars, bootVars
<1> HIDE DEF i
<1>4. blkno'[i] = p /\ \A j \in Slot \ {i} : blkno'[j] = blkno[j]
  BY <1>1, <1>2, <1>3 DEF Claim, TypeOK
<1>5. p \in Phys \cup {None} /\ ReadBlk(p, flash) \in Content
  BY <1>1, TableTypes, LostIsContent DEF ReadBlk, TypeOK
<1>6. \A j \in Slot \ {i} : buf'[j] = buf[j]
  BY <1>1, <1>2, <1>3, <1>5, FillEffect
<1>7. \A y : l2pblkno(y)' = l2pblkno(y) /\ OnChip(y)' = OnChip(y)
  BY <1>3 DEF l2pblkno, OnChip
<1>8. ASSUME NEW y \in Blk, l2pblkno(y) # p \/ p = None PROVE View(y)' = View(y)
  <2>2. CASE \E j \in Slot : blkno[j] = l2pblkno(y) /\ blkno[j] # None
    <3>1. PICK j \in Slot : blkno[j] = l2pblkno(y) /\ blkno[j] # None
      BY <2>2
    <3>2. j # i
      BY <3>1, <1>2
    <3> QED
      BY <3>1, <3>2, <1>1, <1>4, <1>6, <1>7, ViewOfSlot, ViewOfSlotNext
  <2>3. CASE \A j \in Slot : blkno[j] # None => blkno[j] # l2pblkno(y)
    <3>1. \A j \in Slot : blkno'[j] # None => blkno'[j] # l2pblkno(y)
      BY <1>4, <1>8, <2>3
    <3> QED
      BY <3>1, <2>3, <1>7, ViewOfChip, ViewOfChipNext
  <2> QED
    BY <2>2, <2>3
<1>9. Stable' = Stable /\ (bad # {})' = (bad # {})
  BY <1>3, <1>7, MediumListed, MediumListedNext
<1>10. CASE p = None
  <2>1. Disk' = Disk
    BY <1>8, <1>10 DEF Disk
  <2>2. l \notin Blk \/ bad # {}
    BY <1>1, <1>10, TableIsMap
  <2>3. answer' \in {Reply(l, v) : v \in {"failed", "done", Junk}}
    <3>1. ReadBlk(p, flash) = Lost /\ \A c \in Cell : Lost[c] = Junk
      BY <1>10 DEF ReadBlk, Lost
    <3>2. r.cell \in Cell
      BY DEF Request
    <3> QED
      BY <3>1, <3>2, <1>3 DEF Fill, BlkCpy
  <2>4. answer'.block = l
    BY <2>3 DEF Reply
  <2>5. Device!Outside(l)
    BY <2>1, <2>2, <2>3, <1>9 DEF Device!Outside, Device!Reply, Reply, Disk, Stable
  <2> QED
    BY <2>4, <2>5 DEF Device!Served
<1>11. CASE p # None /\ BlkCpy(i, ReadBlk(p, flash), l, r)
  <2>1. l \in Blk
    BY <1>1, <1>11, TableIsMap
  <2>2. View(l) = ReadBlk(p, flash)
    BY <1>3, <1>11, ViewOfChip DEF Cached, OnChip, ReadBlk
  <2>3. \E c \in Cell : Device!Read(l, c) \/ \E d \in Data : Device!Write(l, c, d)
    BY <1>1, <1>2, <1>3, <1>4, <1>5, <1>11, <2>1, <2>2, ServedFromSlot
  <2> QED
    BY <2>1, <2>3 DEF Device!Served
<1>12. CASE p # None /\ buf' = [buf EXCEPT ![i] = Lost] /\ answer' = Reply(l, "failed")
  <2>1. l \in Blk
    BY <1>1, <1>12, TableIsMap
  <2>2. View(l)' = Lost
    BY <1>1, <1>2, <1>4, <1>7, <1>12, ViewOfSlotNext DEF TypeOK
  <2>3. \A y \in Blk \ {l} : View(y)' = View(y)
    <3>1. \A y \in Blk \ {l} : l2pblkno(y) # p
      BY <1>1, <1>12, TableIsMap DEF Blk
    <3> QED
      BY <3>1, <1>8
  <2>4. Disk' = [Disk EXCEPT ![l] = Lost]
    BY <2>1, <2>2, <2>3 DEF Disk
  <2>5. Device!Unreadable(l)
    BY <2>4, <1>9, <1>12 DEF Device!Unreadable, Device!Reply, Device!Lost, Lost, Reply, Disk,
       Stable
  <2> QED
    BY <2>1, <2>5 DEF Device!Served
<1> QED
  BY <1>3, <1>10, <1>11, <1>12 DEF Fill

-----------------------------------------------------------------------------
(***************************************************************************)
(* Writing back.  MediumOf(f) is the medium when the chip holds f.         *)
(***************************************************************************)
MediumOf(f) == [x \in Blk |-> IF l2pblkno(x) = None THEN Lost ELSE f[l2pblkno(x)]]

BlocksOf(S) == {x \in Blk : \E i \in S : blkno[i] = l2pblkno(x)}

LEMMA SavedListed ==
  ASSUME listed, NEW S, NEW x \in Blk
  PROVE  Device!Saved(S, x) = IF x \notin S THEN {OnChip(x)}
                              ELSE IF View(x) = Lost THEN {View(x), OnChip(x)}
                              ELSE {View(x)}
<1>1. Medium[x] = OnChip(x)
  BY DEF Medium
<1> QED
  BY <1>1 DEF Device!Saved, Device!Lost, Lost

LEMMA LabelIsBlock ==
  ASSUME DeviceInv, listed, NEW i \in Slot, blkno[i] # None
  PROVE  \E x \in Blk : l2pblkno(x) = blkno[i]
<1>1. PICK x \in 0..LastReq : blkno[i] = l2pblkno(x)
  BY DEF DeviceInv, LabelsAreAskedFor
<1>2. x \in Nat /\ TypeOK /\ TableOfGoodBlocks
  BY TlCacheAssumption DEF DeviceInv, CacheInv
<1> QED
  BY <1>1, <1>2, TableIsMap

LEMMA SavedBySlots ==
  ASSUME DeviceInv, listed, NEW S \in SUBSET Dirty, NEW x \in Blk
  PROVE  MediumOf(WrittenBack(S))[x] \in Device!Saved(BlocksOf(S), x)
<1> DEFINE p == l2pblkno(x)
<1>1. TypeOK /\ LabelsDiffer /\ TableOfGoodBlocks /\ x \in Nat
  BY DEF DeviceInv, CacheInv, Blk
<1>2. /\ \A i \in S : i \in Slot /\ blkno[i] # None
      /\ \A i \in S : WrittenBack(S)[blkno[i]] = buf[i]
      /\ \A q \in Phys : (\A i \in S : blkno[i] # q) => WrittenBack(S)[q] = flash[q]
  BY <1>1, WrittenBackEffect DEF Dirty
<1>3. CASE \E i \in S : blkno[i] = p
  <2>1. PICK i \in S : blkno[i] = p
    BY <1>3
  <2>2. View(x) = buf[i] /\ MediumOf(WrittenBack(S))[x] = buf[i]
    BY <1>1, <1>2, <2>1, ViewOfSlot DEF MediumOf
  <2>3. x \in BlocksOf(S)
    BY <2>1 DEF BlocksOf
  <2> QED
    BY <2>2, <2>3, SavedListed
<1>4. CASE ~\E i \in S : blkno[i] = p
  <2>1. x \notin BlocksOf(S)
    BY <1>4 DEF BlocksOf
  <2>2. MediumOf(WrittenBack(S))[x] = OnChip(x)
    BY <1>1, <1>2, <1>4, TableIsMap DEF MediumOf, OnChip
  <2> QED
    BY <2>1, <2>2, SavedListed
<1> QED
  BY <1>3, <1>4

LEMMA SavedByAll ==
  ASSUME DeviceInv, listed, NEW x \in Blk
  PROVE  MediumOf(WrittenBack(Dirty))[x] \in Device!Saved(Blk, x)
<1> DEFINE p == l2pblkno(x)
<1>1. TypeOK /\ LabelsDiffer /\ TableOfGoodBlocks /\ x \in Nat
  BY DEF DeviceInv, CacheInv, Blk
<1>2. CASE \E i \in Slot : blkno[i] # None /\ ~dirt[i] /\ blkno[i] = p
  <2>1. PICK i \in Slot : blkno[i] # None /\ ~dirt[i] /\ blkno[i] = p
    BY <1>2
  <2>2. p \in Phys /\ \A j \in Dirty : blkno[j] # p
    BY <1>1, <2>1 DEF LabelsDiffer, Dirty, TypeOK
  <2>3. MediumOf(WrittenBack(Dirty))[x] = flash[p] /\ OnChip(x) = flash[p]
    BY <1>1, <2>1, <2>2, WrittenBackEffect DEF MediumOf, OnChip
  <2>4. View(x) = buf[i] /\ (buf[i] = flash[p] \/ buf[i] = Lost)
    BY <1>1, <2>1, ViewOfSlot DEF DeviceInv, CacheInv, CopyOrUnread
  <2> QED
    BY <2>3, <2>4, SavedListed
<1>3. CASE \A i \in Slot : blkno[i] # None => blkno[i] # p
  <2>1. View(x) = OnChip(x)
    BY <1>3, ViewOfChip
  <2>2. MediumOf(WrittenBack(Dirty))[x] = OnChip(x)
    BY <1>1, <1>3, TableIsMap, WrittenBackEffect DEF MediumOf, OnChip, Dirty
  <2> QED
    BY <2>1, <2>2, SavedListed
<1>4. CASE \E i \in Dirty : blkno[i] = p
  <2>1. PICK i \in Dirty : blkno[i] = p
    BY <1>4
  <2>2. View(x) = buf[i] /\ MediumOf(WrittenBack(Dirty))[x] = buf[i]
    BY <1>1, <2>1, ViewOfSlot, WrittenBackEffect DEF MediumOf, Dirty
  <2> QED
    BY <2>2, SavedListed
<1> QED
  BY <1>2, <1>3, <1>4 DEF Dirty

(***************************************************************************)
(* The slots before stop are written back, and the block of stop keeps its *)
(* contents or loses them.                                                 *)
(***************************************************************************)
LEMMA StoppedAt ==
  ASSUME DeviceInv, listed, NEW stop \in Dirty, NEW f,
         LET back == WrittenBack(SyncUpTo(stop))
         IN  f = back \/ f = [back EXCEPT ![blkno[stop]] = Lost]
  PROVE  \E S \in SUBSET Blk, b \in Blk :
           /\ \A x \in Blk \ {b} : MediumOf(f)[x] \in Device!Saved(S, x)
           /\ b \notin S
           /\ l2pblkno(b) = blkno[stop]
           /\ MediumOf(f)[b] \in {OnChip(b), Lost}
<1> DEFINE U == SyncUpTo(stop)
<1> DEFINE back == WrittenBack(U)
<1>1. TypeOK /\ LabelsDiffer /\ TableOfGoodBlocks
  BY DEF DeviceInv, CacheInv
<1>2. stop \in Slot /\ blkno[stop] # None /\ blkno[stop] \in Phys
  BY <1>1 DEF Dirty, TypeOK
<1>3. U \in SUBSET Dirty /\ stop \notin U
  BY <1>2, TlCacheAssumption DEF SyncUpTo, Slot
<1>4. PICK b \in Blk : l2pblkno(b) = blkno[stop]
  BY <1>2, LabelIsBlock
<1>5. /\ back \in [Phys -> Content]
      /\ \A q \in Phys : (\A i \in U : blkno[i] # q) => back[q] = flash[q]
  BY <1>1, <1>3, WrittenBackEffect
<1>6. \A i \in U : blkno[i] # blkno[stop]
  BY <1>1, <1>2, <1>3 DEF LabelsDiffer, Dirty
<1>7. f = back \/ f = [back EXCEPT ![blkno[stop]] = Lost]
  OBVIOUS
<1>8. \A x \in Blk : MediumOf(back)[x] \in Device!Saved(BlocksOf(U), x)
  BY <1>3, SavedBySlots
<1> HIDE DEF back, U
<1>9. f[blkno[stop]] \in {flash[blkno[stop]], Lost}
      /\ \A q \in Phys \ {blkno[stop]} : f[q] = back[q]
  BY <1>2, <1>5, <1>6, <1>7
<1>10. ASSUME NEW x \in Blk \ {b} PROVE MediumOf(f)[x] \in Device!Saved(BlocksOf(U), x)
  <2>1. x \in Nat /\ b \in Nat
    BY DEF Blk
  <2>2. l2pblkno(x) # None => l2pblkno(x) \in Phys \ {blkno[stop]}
    BY <1>1, <1>2, <1>4, <2>1, TableIsMap
  <2>3. MediumOf(f)[x] = MediumOf(back)[x]
    BY <1>9, <2>2 DEF MediumOf
  <2> QED
    BY <2>3, <1>8
<1>11. MediumOf(f)[b] \in {OnChip(b), Lost}
  BY <1>2, <1>4, <1>9 DEF MediumOf, OnChip
<1>12. BlocksOf(U) \in SUBSET Blk /\ b \notin BlocksOf(U)
  BY <1>4, <1>6 DEF BlocksOf
<1> QED
  BY <1>4, <1>10, <1>11, <1>12

LEMMA SyncIsDeviceStep ==
  ASSUME DeviceInv, DeviceInv', listed, SyncTl
  PROVE  Device!Served
<1>1. /\ TypeOK /\ LabelsDiffer /\ LabelsDiffer' /\ TableOfGoodBlocks
      /\ UNCHANGED <<good_blk, listed, blkno, buf>>
  BY DEF DeviceInv, CacheInv, SyncTl, bootVars
<1>2. \A y : l2pblkno(y)' = l2pblkno(y)
  BY <1>1 DEF l2pblkno
<1>3. Stable' = MediumOf(flash') /\ DOMAIN Stable' = Blk
  BY <1>1, <1>2, MediumListedNext DEF MediumOf, OnChip
<1>4. ASSUME \A q \in Phys : (\A i \in Dirty : blkno[i] # q) => flash'[q] = flash[q]
      PROVE  Disk' = Disk
  <2>1. ASSUME NEW y \in Blk PROVE View(y)' = View(y)
    <3>1. CASE \E j \in Slot : blkno[j] = l2pblkno(y) /\ blkno[j] # None
      BY <3>1, <1>1, <1>2, ViewOfSlot, ViewOfSlotNext
    <3>2. CASE \A j \in Slot : blkno[j] # None => blkno[j] # l2pblkno(y)
      <4>1. OnChip(y)' = OnChip(y)
        <5>1. y \in Nat /\ \A i \in Dirty : blkno[i] # l2pblkno(y)
          BY <3>2 DEF Dirty, Blk
        <5> QED
          BY <5>1, <1>1, <1>2, <1>4, TableIsMap DEF OnChip
      <4> QED
        BY <3>2, <4>1, <1>1, <1>2, ViewOfChip, ViewOfChipNext
    <3> QED
      BY <3>1, <3>2
  <2> QED
    BY <2>1 DEF Disk
<1>5. CASE /\ flash' = WrittenBack(Dirty) /\ UNCHANGED bad
           /\ answer' = Reply(None, "done")
  <2>1. Disk' = Disk
    BY <1>1, <1>4, <1>5, WrittenBackEffect
  <2>2. \A x \in Blk : Stable'[x] \in Device!Saved(Blk, x)
    BY <1>3, <1>5, SavedByAll
  <2>3. Device!Sync
    BY <1>3, <1>5, <2>1, <2>2 DEF Device!Sync, Device!Reply, Device!None, Reply, None, Disk, Stable
  <2> QED
    BY <2>3 DEF Device!Served
<1>6. ASSUME NEW stop \in Dirty,
             LET p == blkno[stop]
                 back == WrittenBack(SyncUpTo(stop))
             IN  /\ flash' = IF p \in bad THEN back ELSE [back EXCEPT ![p] = Lost]
                 /\ bad' = bad \cup {p}
                 /\ answer' = Reply(None, "failed")
      PROVE  Device!Served
  <2>1. /\ \/ flash' = WrittenBack(SyncUpTo(stop))
           \/ flash' = [WrittenBack(SyncUpTo(stop)) EXCEPT ![blkno[stop]] = Lost]
        /\ bad' # {} /\ answer' = Reply(None, "failed")
    BY <1>6
  <2>2. PICK S \in SUBSET Blk, b \in Blk :
          /\ \A x \in Blk \ {b} : MediumOf(flash')[x] \in Device!Saved(S, x)
          /\ MediumOf(flash')[b] \in {OnChip(b), Lost}
    BY <2>1, StoppedAt
  <2>3. Disk' = Disk
    <3>1. SyncUpTo(stop) \in SUBSET Dirty /\ blkno[stop] \in Phys
      BY <1>1 DEF SyncUpTo, Dirty, TypeOK
    <3>2. /\ WrittenBack(SyncUpTo(stop)) \in [Phys -> Content]
          /\ \A q \in Phys : (\A i \in SyncUpTo(stop) : blkno[i] # q)
                             => WrittenBack(SyncUpTo(stop))[q] = flash[q]
      BY <1>1, <3>1, WrittenBackEffect
    <3> QED
      BY <1>4, <2>1, <3>1, <3>2
  <2>4. Device!SyncFails
    <3>1. Stable'[b] \in {Stable[b], Device!Lost}
      BY <2>2, <1>3, MediumListed DEF Device!Lost, Lost
    <3> QED
      BY <1>3, <2>1, <2>2, <2>3, <3>1
      DEF Device!SyncFails, Device!Reply, Device!None, Reply, None, Disk, Stable
  <2> QED
    BY <2>4 DEF Device!Served
<1> QED
  BY <1>5, <1>6 DEF SyncTl, SysSyncTl

(***************************************************************************)
(* A start that could not read the table: no request touches the medium,   *)
(* because nothing is evicted.                                             *)
(***************************************************************************)
LEMMA RequestIsAstray ==
  ASSUME ~listed, NEW l, NEW r, RwHit(l, r) \/ RwFill(l, r)
  PROVE  Device!Astray /\ ~listed'
<1>1. UNCHANGED <<flash, bad, listed>>
  BY DEF RwHit, RwFill, chipVars, bootVars
<1>2. Medium' = Medium
  BY <1>1 DEF Medium, Listing
<1> QED
  BY <1>1, <1>2 DEF Device!Astray

LEMMA SyncIsAstray ==
  ASSUME ~listed, SyncTl
  PROVE  Device!Astray /\ ~listed'
<1>1. ~listed' /\ answer'.block = None /\ bad \subseteq bad'
  BY DEF SyncTl, SysSyncTl, bootVars, Reply
<1> QED
  BY <1>1 DEF Device!Astray, Device!None, None

(***************************************************************************)
(* A power failure: the cache is empty, and the next start reads the table *)
(* again, which is the same unless a block has worn out.  If it cannot,    *)
(* the medium is still what that table would have shown.                   *)
(***************************************************************************)
LEMMA MediumOfStart ==
  ASSUME BlkDrvInit, bad' = bad
  PROVE  /\ Medium' = [x \in Blk |-> IF x >= Len(MapTab(bad)) THEN Lost
                                     ELSE flash'[MapTab(bad)[x + 1]]]
         /\ listed' => Disk' = Medium'
<1>1. blkno' = [i \in Slot |-> None] /\ (listed' => good_blk' = MapTab(bad))
  BY DEF BlkDrvInit, GetMapTab
<1>2. CASE ~listed'
  BY <1>2 DEF Medium, Listing
<1>3. CASE listed'
  <2>1. good_blk' = MapTab(bad)
    BY <1>1, <1>3
  <2>2. ASSUME NEW x \in Blk
        PROVE  OnChip(x)' = IF x >= Len(MapTab(bad)) THEN Lost
                            ELSE flash'[MapTab(bad)[x + 1]]
    <3>1. CASE x >= Len(MapTab(bad))
      BY <2>1, <3>1 DEF OnChip, l2pblkno
    <3>2. CASE ~(x >= Len(MapTab(bad)))
      <4>1. x \in Nat /\ x + 1 \in 1..Len(MapTab(bad))
        BY <3>2, MapTabLists, NoneIsNoBlock
      <4>2. MapTab(bad)[x + 1] \in Phys
        BY <4>1, MapTabLists, UsableBlocks
      <4>3. l2pblkno(x)' = MapTab(bad)[x + 1] /\ l2pblkno(x)' # None
        BY <2>1, <3>2, <4>2, NoneIsNoBlock DEF l2pblkno
      <4> QED
        BY <3>2, <4>3 DEF OnChip
    <3> QED
      BY <3>1, <3>2
  <2>3. \A y : View(y)' = OnChip(y)'
    BY <1>1, ViewOfChipNext
  <2> QED
    BY <1>3, <2>2, <2>3, MediumListedNext DEF Disk, Stable
<1> QED
  BY <1>2, <1>3

LEMMA PowerFailsIsDeviceStep ==
  ASSUME DeviceInv, DeviceInv', PowerFails
  PROVE  Device!Restart
<1>1. /\ TypeOK /\ LabelsDiffer /\ TableOfGoodBlocks /\ ~wild
  BY DEF DeviceInv, CacheInv
<1>2. bad' = bad /\ BlkDrvInit /\ answer' = Reply(None, "none")
  BY DEF PowerFails, BlkDrvInit
<1>3. (listed' => Disk' = Stable') /\ DOMAIN Stable' = Blk
  BY <1>2, MediumOfStart DEF Stable
<1>4. ASSUME bad = {}, listed
      PROVE  \E S \in SUBSET Blk, b \in Blk :
               /\ \A x \in Blk \ {b} : Stable'[x] \in Device!Saved(S, x)
               /\ Stable'[b] \in Device!Saved(S, b) \cup {Lost}
  <2>0. \A S : \A x \in Blk : x \notin S => Device!Saved(S, x) = {OnChip(x)}
    BY <1>4, SavedListed
  <2>1. good_blk = MapTab(bad)
    BY <1>1, <1>4 DEF TableOfGoodBlocks
  <2>2. \A x \in Blk : l2pblkno(x) # None
    BY <1>1, <1>4, TableIsMap
  <2>3. Stable' = MediumOf(flash')
    <3>1. \A x \in Blk : ~(x >= Len(good_blk)) /\ l2pblkno(x) = good_blk[x + 1]
      BY <2>2 DEF l2pblkno
    <3> QED
      BY <1>2, <2>1, <2>2, <3>1, MediumOfStart DEF Stable, MediumOf
  <2>4. CASE flash' = flash
    <3>1. \A x \in Blk : Stable'[x] = OnChip(x)
      BY <2>3, <2>4 DEF MediumOf, OnChip
    <3>2. 0 \in Blk /\ {} \in SUBSET Blk
      BY NoneIsNoBlock
    <3>3. \A x \in Blk : Stable'[x] \in Device!Saved({}, x)
      BY <2>0, <3>1
    <3> QED
      BY <3>2, <3>3
  <2>5. ASSUME NEW stop \in Dirty,
               flash' = [WrittenBack(SyncUpTo(stop)) EXCEPT ![blkno[stop]] = Lost]
        PROVE  \E S \in SUBSET Blk, b \in Blk :
                 /\ \A x \in Blk \ {b} : Stable'[x] \in Device!Saved(S, x)
                 /\ Stable'[b] \in Device!Saved(S, b) \cup {Lost}
    <3>1. PICK S \in SUBSET Blk, b \in Blk :
            /\ \A x \in Blk \ {b} : MediumOf(flash')[x] \in Device!Saved(S, x)
            /\ b \notin S
            /\ MediumOf(flash')[b] \in {OnChip(b), Lost}
      BY <1>4, <2>5, StoppedAt
    <3>2. Device!Saved(S, b) = {OnChip(b)}
      BY <2>0, <3>1
    <3> QED
      BY <2>3, <3>1, <3>2
  <2>6. CASE Free = {} /\ flash' = [flash EXCEPT ![blkno[SyncTlCache]] = Lost]
    <3>1. oldest \in Slot /\ blkno[oldest] # None /\ blkno[oldest] \in Phys
      BY <1>1, <2>6 DEF Free, TypeOK
    <3>2. PICK b \in Blk : l2pblkno(b) = blkno[oldest]
      BY <1>4, <3>1, LabelIsBlock
    <3>3. ASSUME NEW x \in Blk \ {b} PROVE Stable'[x] = OnChip(x)
      <4>1. x \in Nat /\ b \in Nat
        BY DEF Blk
      <4>2. l2pblkno(x) # None => l2pblkno(x) \in Phys \ {blkno[oldest]}
        BY <1>1, <1>4, <3>1, <3>2, <4>1, TableIsMap
      <4> QED
        BY <2>3, <2>6, <4>2, <1>1 DEF MediumOf, OnChip, SyncTlCache, TypeOK
    <3>4. Stable'[b] = Lost
      BY <2>3, <2>6, <3>1, <3>2, <1>1 DEF MediumOf, SyncTlCache, TypeOK
    <3>5. {} \in SUBSET Blk /\ \A x \in Blk : Device!Saved({}, x) = {OnChip(x)}
      BY <2>0
    <3> QED
      BY <3>3, <3>4, <3>5
  <2> QED
    BY <2>4, <2>5, <2>6 DEF PowerFails
<1> QED
  BY <1>2, <1>3, <1>4
  DEF Device!Restart, Device!Reply, Device!None, Device!Lost, Lost, Reply, None, Disk, Stable

LEMMA InitIsDeviceInit == Init => Device!Init
<1> SUFFICES ASSUME Init PROVE Device!Init
  OBVIOUS
<1>1. /\ TypeOK /\ blkno = [i \in Slot |-> None] /\ bad = {}
      /\ answer = Reply(None, "none") /\ (listed => good_blk = MapTab({}))
  BY InitCacheInv DEF Init, CacheInv
<1>2. \A x \in Blk : OnChip(x) \in Content /\ View(x) = OnChip(x)
  <2>1. \A x \in Blk : l2pblkno(x) \in Phys \cup {None}
    BY <1>1, TableTypes, NoneIsNoBlock
  <2> QED
    BY <1>1, <2>1, LostIsContent, ViewOfChip DEF OnChip, TypeOK
<1>3. Stable \in [Blk -> Content] /\ (listed => Disk = Stable)
  <2>1. CASE listed
    BY <1>2, <2>1, MediumListed DEF Disk
  <2>2. CASE ~listed
    <3>1. ASSUME NEW x \in Blk, ~(x >= Len(MapTab({}))) PROVE flash[MapTab({})[x + 1]] \in Content
      <4>1. x \in Nat /\ x + 1 \in 1..Len(MapTab({}))
        BY <3>1, MapTabLists, NoneIsNoBlock
      <4>2. MapTab({})[x + 1] \in Phys
        BY <4>1, MapTabLists, UsableBlocks
      <4> QED
        BY <1>1, <4>2 DEF TypeOK
    <3>2. \A x \in Blk : (IF x >= Len(MapTab(bad)) THEN Lost ELSE flash[MapTab(bad)[x + 1]])
                          \in Content
      BY <1>1, <3>1, LostIsContent
    <3>3. Stable = [x \in Blk |-> IF x >= Len(MapTab(bad)) THEN Lost
                                  ELSE flash[MapTab(bad)[x + 1]]]
      BY <2>2 DEF Stable, Medium, Listing
    <3> QED
      BY <2>2, <3>2, <3>3
  <2> QED
    BY <2>1, <2>2
<1>4. listed \in BOOLEAN
  BY <1>1 DEF TypeOK
<1> QED
  BY <1>1, <1>3, <1>4
  DEF Device!Init, Device!Content, Content, Device!Reply, Device!None, Reply, None, Disk, Stable

(***************************************************************************)
(* The driver is the block device it is meant to be (blk_drv.c:357-464): a *)
(* read returns what was written last, a sync that succeeds makes it       *)
(* durable, one that fails spoils one block, and a power failure takes a   *)
(* block back to what is durable; as long as no more erase blocks are      *)
(* asked for than there are slots.  After a start that could not read the  *)
(* table of good blocks (blk_drv.c:285, 340, 385) its requests leave the   *)
(* medium alone, its syncs do not, and all of this holds again from the    *)
(* next start that can read the table, with what is then on the medium.    *)
(***************************************************************************)
THEOREM DriverIsDevice ==
  ASSUME SlotForEveryBlock
  PROVE  Spec => DeviceSpec
<1>1. DeviceInv /\ DeviceInv' /\ [Next]_vars => [Device!Next]_(Device!vars)
  <2> SUFFICES ASSUME DeviceInv, DeviceInv', [Next]_vars
               PROVE  Device!Next \/ UNCHANGED Device!vars
    OBVIOUS
  <2>n. \A l \in 0..LastReq : l \in Nat
    BY TlCacheAssumption
  <2>1. CASE \E l \in 0..LastReq, r \in Request : RwHit(l, r) \/ RwFill(l, r)
    <3>1. listed' = listed
      BY <2>1 DEF RwHit, RwFill, bootVars
    <3>2. CASE listed
      BY <2>1, <2>n, <3>1, <3>2, HitIsDeviceStep, FillIsDeviceStep DEF Device!Next
    <3>3. CASE ~listed
      BY <2>1, <3>3, RequestIsAstray DEF Device!Next
    <3> QED
      BY <3>2, <3>3
  <2>2. CASE \E l \in 0..LastReq, r \in Request : RwEvict(l, r)
    BY <2>2, NoEviction DEF DeviceInv, CacheInv
  <2>3. CASE SyncTl
    <3>1. listed' = listed
      BY <2>3 DEF SyncTl, bootVars
    <3>2. CASE listed
      BY <2>3, <3>1, <3>2, SyncIsDeviceStep DEF Device!Next
    <3>3. CASE ~listed
      BY <2>3, <3>3, SyncIsAstray DEF Device!Next
    <3> QED
      BY <3>2, <3>3
  <2>4. CASE PowerFails
    BY <2>4, PowerFailsIsDeviceStep DEF Device!Next
  <2>5. CASE UNCHANGED vars
    <3>1. \A x : OnChip(x)' = OnChip(x) /\ View(x)' = View(x)
      BY <2>5 DEF vars, chipVars, bootVars, cacheVars, OnChip, View, Cached, l2pblkno
    <3>2. Medium' = Medium
      BY <2>5, <3>1 DEF vars, chipVars, bootVars, Medium, Listing
    <3>3. UNCHANGED <<Disk, Stable, listed, bad, answer>>
      BY <2>5, <3>1, <3>2 DEF vars, chipVars, bootVars, Disk, Stable
    <3> QED
      BY <3>3 DEF Device!vars, Disk, Stable
  <2> QED
    BY <2>1, <2>2, <2>3, <2>4, <2>5 DEF Next, SysRwNand
<1> QED
  BY <1>1, InitIsDeviceInit, DeviceInvariant, PTL DEF Spec, DeviceSpec, Device!Spec
=============================================================================
