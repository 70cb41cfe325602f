------------------------------ MODULE BuddyProofs ------------------------------
(***************************************************************************)
(* Theorems about the page allocator, for any number of pages and orders.  *)
(***************************************************************************)
EXTENDS Buddy, FiniteSetTheorems, WellFoundedInduction, TLAPS

(***************************************************************************)
(* Induction on the turns of a loop; a loop whose turns keep to a set S    *)
(* has a run.                                                              *)
(***************************************************************************)

LEMMA LeastNumber ==
  ASSUME NEW T \in SUBSET Nat, IsFiniteSet(T), T # {}
  PROVE  \E m \in T : \A x \in T : m =< x
<1> DEFINE Below(x) == {y \in T : y < x}
<1> DEFINE F == {Below(x) : x \in T}
<1>1. F \subseteq FiniteSubsetsOf(T) /\ F # {}
  <2>1. \A x : Below(x) \in SUBSET T
    OBVIOUS
  <2>2. \A A \in SUBSET T : IsFiniteSet(A)
    BY FS_Subset
  <2> QED
    BY <2>1, <2>2 DEF FiniteSubsetsOf
<1>2. PICK A \in F : \A B \in F : <<B, A>> \notin StrictSubsetOrdering(T)
  BY <1>1, FS_StrictSubsetOrderingWellFounded, WFMin
<1>3. PICK m \in T : A = Below(m)
  OBVIOUS
<1>4. ASSUME NEW y \in Below(m) PROVE FALSE
  <2>1. m \in Nat /\ y \in Nat /\ y < m /\ y \in T
    BY <1>4
  <2>2. Below(y) \subseteq Below(m)
    <3>1. ASSUME NEW z \in Below(y) PROVE z \in Below(m)
      <4>1. z \in Nat /\ z < y /\ z \in T
        BY <3>1
      <4> QED
        BY <4>1, <2>1
    <3> QED
      BY <3>1
  <2>3. Below(y) \subseteq T /\ Below(m) \subseteq T /\ y \in Below(m) /\ y \notin Below(y)
    BY <2>1
  <2>4. <<Below(y), Below(m)>> \in StrictSubsetOrdering(T)
    BY <2>2, <2>3 DEF StrictSubsetOrdering
  <2>5. Below(y) \in F
    BY <2>1
  <2> QED
    BY <2>4, <2>5, <1>2, <1>3
<1>5. \A x \in T : ~(x < m)
  BY <1>4
<1> QED
  BY <1>5

LEMMA TurnByTurn ==
  ASSUME NEW N \in Nat, NEW P, P[0], \A t \in 1..N : P[t - 1] => P[t]
  PROVE  \A t \in 0..N : P[t]
<1> DEFINE T == {t \in 0..N : ~P[t]}
<1> SUFFICES ASSUME T # {} PROVE FALSE
  OBVIOUS
<1>1. T \in SUBSET Nat /\ IsFiniteSet(T)
  <2>1. IsFiniteSet(0..N)
    BY FS_Interval
  <2> QED
    BY <2>1, FS_Subset
<1>2. PICK m \in T : \A x \in T : m =< x
  BY <1>1, LeastNumber
<1>3. m \in 1..N
  <2>1. m # 0 /\ m \in 0..N
    OBVIOUS
  <2> QED
    BY <2>1
<1>4. m - 1 \in 0..N /\ ~(m =< m - 1)
  BY <1>3
<1>5. P[m - 1]
  BY <1>2, <1>4
<1> QED
  BY <1>3, <1>5

RunOf(f, N, S, x0, step) ==
  /\ f \in [0..N -> S] /\ f[0] = x0
  /\ \A t \in 1..N : f[t] = step[t][f[t - 1]]

LEMMA RunExists ==
  ASSUME NEW N \in Nat, NEW S, NEW x0 \in S, NEW step \in [1..N -> [S -> S]]
  PROVE  \E f : RunOf(f, N, S, x0, step)
<1> DEFINE Run(n) == \E f \in [0..n -> S] :
                       f[0] = x0 /\ \A t \in 1..n : f[t] = step[t][f[t - 1]]
<1> DEFINE P == [n \in 0..N |-> Run(n)]
<1>1. P[0]
  <2>1. [t \in 0..0 |-> x0] \in [0..0 -> S] /\ 0 \in 0..0 /\ 1..0 = {}
    OBVIOUS
  <2>2. Run(0)
    BY <2>1
  <2> QED
    BY <2>2
<1>2. ASSUME NEW n \in 1..N, P[n - 1] PROVE P[n]
  <2>1. n \in Nat /\ n - 1 \in 0..N
    OBVIOUS
  <2>2. PICK f \in [0..(n - 1) -> S] :
          f[0] = x0 /\ \A t \in 1..(n - 1) : f[t] = step[t][f[t - 1]]
    BY <1>2, <2>1
  <2> DEFINE g == [t \in 0..n |-> IF t = n THEN step[n][f[n - 1]] ELSE f[t]]
  <2>3. f[n - 1] \in S
    BY <2>1
  <2>4. step[n] \in [S -> S]
    OBVIOUS
  <2>5. g \in [0..n -> S]
    <3>1. \A t \in 0..n : t # n => t \in 0..(n - 1)
      BY <2>1
    <3> QED
      BY <2>3, <2>4, <3>1
  <2>6. g[0] = x0
    BY <2>1, <2>2
  <2>7. ASSUME NEW t \in 1..n PROVE g[t] = step[t][g[t - 1]]
    <3>1. t - 1 \in 0..n /\ t - 1 # n /\ t \in 0..n /\ (t # n => t \in 1..(n - 1))
      BY <2>1
    <3>2. g[t - 1] = f[t - 1]
      BY <3>1
    <3> QED
      BY <3>1, <3>2, <2>2
  <2> HIDE DEF g
  <2>8. Run(n) /\ n \in 0..N
    BY <2>5, <2>6, <2>7
  <2> HIDE DEF Run
  <2> QED
    BY <2>8
<1> HIDE DEF P, Run
<1>3. P[N]
  <2>1. \A n \in 0..N : P[n]
    BY <1>1, <1>2, TurnByTurn
  <2>2. N \in 0..N
    OBVIOUS
  <2> QED
    BY <2>1, <2>2
<1> QED
  <2>1. N \in 0..N
    OBVIOUS
  <2>2. Run(N)
    BY <2>1, <1>3 DEF P
  <2> QED
    BY <2>2 DEF Run, RunOf

-----------------------------------------------------------------------------
(***************************************************************************)
(* Multiples of a number s, and the run of s numbers that each begins.     *)
(***************************************************************************)
Start(x, s) == x - (x % s)

LEMMA ProductStep ==
  ASSUME NEW a \in Nat, NEW b \in Nat, NEW s \in Nat, a < b
  PROVE  a * s + s =< b * s
<1> DEFINE c == b - a - 1
<1>1. c \in Nat /\ b = a + c + 1
  OBVIOUS
<1>2. b * s = a * s + c * s + s
  BY <1>1
<1>3. c * s >= 0
  BY <1>1
<1> HIDE DEF c
<1>4. a * s \in Nat /\ b * s \in Nat /\ c * s \in Nat
  BY <1>1
<1> QED
  BY <1>2, <1>3, <1>4

LEMMA DivMod ==
  ASSUME NEW p \in Nat, NEW s \in Nat \ {0}
  PROVE  /\ p = (p \div s) * s + (p % s)
         /\ p \div s \in Nat /\ p % s \in Nat /\ p % s < s
  OBVIOUS

LEMMA RestIsUnique ==
  ASSUME NEW q \in Nat, NEW s \in Nat \ {0}, NEW r \in Nat, r < s
  PROVE  (q * s + r) % s = r
<1> DEFINE p == q * s + r
<1> DEFINE d == p \div s
<1> DEFINE m == p % s
<1>1. p \in Nat /\ q * s \in Nat /\ p = q * s + r
  OBVIOUS
<1>2. p = d * s + m /\ d \in Nat /\ m \in Nat /\ m < s
  BY <1>1, DivMod
<1> HIDE DEF p, d, m
<1>3. ASSUME q < d PROVE FALSE
  <2>1. q * s + s =< d * s /\ d * s \in Nat
    BY <1>2, <1>3, ProductStep
  <2> QED
    BY <2>1, <1>1, <1>2
<1>4. ASSUME d < q PROVE FALSE
  <2>1. d * s + s =< q * s /\ d * s \in Nat
    BY <1>2, <1>4, ProductStep
  <2> QED
    BY <2>1, <1>1, <1>2
<1>5. d * s = q * s
  BY <1>2, <1>3, <1>4
<1> QED
  BY <1>5, <1>1, <1>2 DEF m, p

LEMMA MultipleBy ==
  ASSUME NEW p \in Nat, NEW s \in Nat \ {0}, p % s = 0
  PROVE  \E q \in Nat : p = q * s
  BY DivMod

LEMMA ByMultiple ==
  ASSUME NEW q \in Nat, NEW s \in Nat \ {0}
  PROVE  (q * s) % s = 0
<1>1. q * s + 0 = q * s
  OBVIOUS
<1> QED
  BY <1>1, RestIsUnique

LEMMA RestInRun ==
  ASSUME NEW p \in Nat, NEW s \in Nat \ {0}, p % s = 0, NEW r \in Nat, r < s
  PROVE  (p + r) % s = r
<1>1. PICK q \in Nat : p = q * s
  BY MultipleBy
<1> QED
  BY <1>1, RestIsUnique

LEMMA StartOfRun ==
  ASSUME NEW p \in Nat, NEW s \in Nat \ {0}, p % s = 0,
         NEW x \in p..(p + s - 1)
  PROVE  x % s = x - p /\ Start(x, s) = p
<1> DEFINE r == x - p
<1>1. r \in Nat /\ r < s /\ x = p + r /\ x \in Nat
  OBVIOUS
<1>2. (p + r) % s = r
  BY <1>1, RestInRun
<1> QED
  BY <1>1, <1>2 DEF Start

LEMMA StartIsMultiple ==
  ASSUME NEW x \in Nat, NEW s \in Nat \ {0}
  PROVE  /\ Start(x, s) \in Nat /\ Start(x, s) % s = 0
         /\ x \in Start(x, s)..(Start(x, s) + s - 1)
<1> DEFINE q == x \div s
<1>1. x = q * s + (x % s) /\ q \in Nat /\ x % s \in Nat /\ x % s < s
  BY DivMod
<1> HIDE DEF q
<1>2. q * s \in Nat /\ Start(x, s) = q * s
  BY <1>1 DEF Start
<1>3. (q * s) % s = 0
  BY <1>1, ByMultiple
<1> DEFINE st == Start(x, s)
<1>4. st \in Nat /\ st % s = 0 /\ x = st + (x % s)
  BY <1>1, <1>2, <1>3
<1> HIDE DEF st
<1>5. x \in st..(st + s - 1)
  BY <1>4, <1>1
<1> QED
  BY <1>4, <1>5 DEF st

LEMMA MultipleOfMultiple ==
  ASSUME NEW s \in Nat \ {0}, NEW m \in Nat \ {0}, NEW p \in Nat, p % (m * s) = 0
  PROVE  p % s = 0
<1>0. m * s \in Nat \ {0}
  <2>1. 0 * s + s =< m * s /\ m * s \in Nat /\ 0 * s = 0
    BY ProductStep
  <2> QED
    BY <2>1
<1>1. PICK q \in Nat : p = q * (m * s)
  BY <1>0, MultipleBy
<1>2. p = (q * m) * s /\ q * m \in Nat
  BY <1>1
<1> QED
  BY <1>2, ByMultiple

-----------------------------------------------------------------------------
(***************************************************************************)
(* The sizes of the blocks.                                                *)
(***************************************************************************)
LEMMA Sizes ==
  /\ Size[0] = 1
  /\ \A k \in 1..MAX_BUDDY_PAGE_NUM : Size[k] = 2 * Size[k - 1]
  /\ \A k \in 0..MAX_BUDDY_PAGE_NUM : Size[k] \in Nat \ {0}
<1> DEFINE M == MAX_BUDDY_PAGE_NUM
<1> DEFINE step == [t \in 1..M |-> [x \in Nat \ {0} |-> 2 * x]]
<1>1. M \in Nat /\ M # 0
  BY BuddyAssumption
<1>2. 1 \in Nat \ {0} /\ step \in [1..M -> [Nat \ {0} -> Nat \ {0}]]
  OBVIOUS
<1> HIDE DEF M
<1>3. PICK f : RunOf(f, M, Nat \ {0}, 1, step)
  <2> HIDE DEF step
  <2> QED
    BY <1>1, <1>2, RunExists
<1>4. f \in [0..M -> Nat \ {0}] /\ f[0] = 1 /\ \A t \in 1..M : f[t] = 2 * f[t - 1]
  <2>1. \A t \in 1..M : t - 1 \in 0..M
    BY <1>1
  <2>2. f \in [0..M -> Nat \ {0}] /\ f[0] = 1 /\ \A t \in 1..M : f[t] = step[t][f[t - 1]]
    BY <1>3 DEF RunOf
  <2> QED
    BY <2>1, <2>2
<1>5. f = [k \in 0..M |-> IF k = 0 THEN 1 ELSE 2 * f[k - 1]]
  <2>1. \A k \in 0..M : k = 0 \/ k \in 1..M
    BY <1>1
  <2>2. \A k \in 0..M : f[k] = IF k = 0 THEN 1 ELSE 2 * f[k - 1]
    BY <2>1, <1>4
  <2> QED
    BY <2>2, <1>4
<1>6. Size = [k \in 0..M |-> IF k = 0 THEN 1 ELSE 2 * Size[k - 1]]
  BY <1>5 DEF Size, M
<1>7. Size[0] = 1 /\ \A k \in 1..M : Size[k] = 2 * Size[k - 1]
  <2>1. 0 \in 0..M /\ \A k \in 1..M : k \in 0..M /\ k # 0
    BY <1>1
  <2> QED
    BY <2>1, <1>6
<1>8. \A k \in 0..M : Size[k] \in Nat \ {0}
  <2> DEFINE P == [k \in 0..M |-> Size[k] \in Nat \ {0}]
  <2>1. P[0]
    <3>1. 0 \in 0..M /\ Size[0] \in Nat \ {0}
      BY <1>1, <1>7
    <3> QED
      BY <3>1
  <2>2. ASSUME NEW k \in 1..M, P[k - 1] PROVE P[k]
    <3>1. k - 1 \in 0..M /\ k \in 0..M
      BY <1>1
    <3>2. Size[k - 1] \in Nat \ {0}
      BY <2>2, <3>1
    <3>3. Size[k] \in Nat \ {0}
      BY <3>2, <1>7
    <3> QED
      BY <3>1, <3>3
  <2> HIDE DEF P
  <2>3. \A k \in 0..M : P[k]
    BY <2>1, <2>2, <1>1, TurnByTurn
  <2> QED
    BY <2>3 DEF P
<1> QED
  BY <1>7, <1>8 DEF M

LEMMA OrderFacts ==
  /\ MAX_BUDDY_PAGE_NUM \in Nat /\ MAX_BUDDY_PAGE_NUM >= 1
  /\ KERNEL_PAGE_NUM \in Nat /\ KERNEL_PAGE_NUM >= 1
  /\ Order \subseteq Nat /\ 0 \in Order /\ TopOrder \in Order
  /\ \A k \in Order : /\ Size[k] \in Nat \ {0} /\ k =< TopOrder
                      /\ k + 1 \in 1..MAX_BUDDY_PAGE_NUM /\ Size[k + 1] = 2 * Size[k]
                      /\ Size[k + 1] \in Nat \ {0}
                      /\ k # TopOrder => k + 1 \in Order
                      /\ k # 0 => k - 1 \in Order /\ Size[k] = 2 * Size[k - 1]
<1>1. /\ MAX_BUDDY_PAGE_NUM \in Nat /\ MAX_BUDDY_PAGE_NUM >= 1
      /\ KERNEL_PAGE_NUM \in Nat /\ KERNEL_PAGE_NUM >= 1
  BY BuddyAssumption
<1>2. Order \subseteq Nat /\ 0 \in Order /\ TopOrder \in Order
  BY <1>1 DEF Order, TopOrder
<1>3. ASSUME NEW k \in Order
      PROVE  /\ k \in 0..MAX_BUDDY_PAGE_NUM /\ k =< TopOrder
             /\ k + 1 \in 1..MAX_BUDDY_PAGE_NUM /\ k + 1 \in 0..MAX_BUDDY_PAGE_NUM
             /\ (k + 1) - 1 = k
             /\ k # TopOrder => k + 1 \in Order
             /\ k # 0 => k - 1 \in Order /\ k \in 1..MAX_BUDDY_PAGE_NUM
  BY <1>1 DEF Order, TopOrder
<1>4. ASSUME NEW k \in Order PROVE Size[k + 1] = 2 * Size[k]
  <2>1. k + 1 \in 1..MAX_BUDDY_PAGE_NUM /\ (k + 1) - 1 = k
    BY <1>3
  <2> QED
    BY <2>1, Sizes
<1> QED
  BY <1>1, <1>2, <1>3, <1>4, Sizes

(***************************************************************************)
(* The size of a block is a multiple of that of a smaller one.             *)
(***************************************************************************)
LEMMA SizeDivides ==
  ASSUME NEW j \in 0..MAX_BUDDY_PAGE_NUM, NEW k \in 0..MAX_BUDDY_PAGE_NUM, j =< k
  PROVE  \E m \in Nat \ {0} : Size[k] = m * Size[j]
<1> DEFINE M == MAX_BUDDY_PAGE_NUM
<1> DEFINE P == [t \in 0..(M - j) |-> \E m \in Nat \ {0} : Size[j + t] = m * Size[j]]
<1>1. M \in Nat /\ j \in Nat /\ k \in Nat /\ j =< M /\ k =< M /\ M - j \in Nat
  BY OrderFacts
<1>2. P[0]
  <2>1. Size[j] \in Nat /\ j + 0 = j /\ 0 \in 0..(M - j)
    BY <1>1, Sizes
  <2>2. Size[j + 0] = 1 * Size[j]
    BY <2>1
  <2> QED
    BY <2>1, <2>2
<1>3. ASSUME NEW t \in 1..(M - j), P[t - 1] PROVE P[t]
  <2>1. t - 1 \in 0..(M - j) /\ t \in 0..(M - j) /\ j + t \in 1..M /\ (j + t) - 1 = j + (t - 1)
    BY <1>1
  <2>2. PICK m \in Nat \ {0} : Size[j + (t - 1)] = m * Size[j]
    BY <1>3, <2>1
  <2>3. Size[j + t] = 2 * Size[j + (t - 1)]
    BY <2>1, Sizes
  <2>4. Size[j] \in Nat
    BY Sizes
  <2>5. Size[j + t] = (2 * m) * Size[j] /\ 2 * m \in Nat \ {0}
    BY <2>2, <2>3, <2>4
  <2> QED
    BY <2>1, <2>5
<1> HIDE DEF P, M
<1>4. \A t \in 0..(M - j) : P[t]
  BY <1>1, <1>2, <1>3, TurnByTurn
<1>5. k - j \in 0..(M - j) /\ j + (k - j) = k
  BY <1>1
<1> QED
  BY <1>4, <1>5 DEF P

LEMMA AlignedSmaller ==
  ASSUME NEW j \in 0..MAX_BUDDY_PAGE_NUM, NEW k \in 0..MAX_BUDDY_PAGE_NUM, j =< k,
         NEW p \in Nat, p % Size[k] = 0
  PROVE  p % Size[j] = 0 /\ Size[j] =< Size[k]
<1>1. PICK m \in Nat \ {0} : Size[k] = m * Size[j]
  BY SizeDivides
<1>2. Size[j] \in Nat \ {0}
  BY Sizes
<1>3. p % Size[j] = 0
  BY <1>1, <1>2, MultipleOfMultiple
<1>4. Size[j] =< m * Size[j]
  <2>1. 0 * Size[j] + Size[j] =< m * Size[j] /\ m * Size[j] \in Nat /\ 0 * Size[j] = 0
    BY <1>2, ProductStep
  <2> QED
    BY <2>1, <1>2
<1> QED
  BY <1>1, <1>3, <1>4
-----------------------------------------------------------------------------
(***************************************************************************)
(* The free lists by which list a page is on, None when it is on none, and *)
(* its place on that list, counted from 1.                                 *)
(***************************************************************************)
None == -1
ListMap == [Page -> Order \cup {None}]
PlaceMap == [Page -> 1..KERNEL_PAGE_NUM]

On(lst, n, k) == n = ListHead(k) \/ (n \in Page /\ lst[n] = k)

Linked(nx, pv, lst) ==
  \A k \in Order : \A n \in Node : On(lst, n, k) =>
    On(lst, nx[n], k) /\ On(lst, pv[n], k) /\ pv[nx[n]] = n /\ nx[pv[n]] = n

InBlocks(nx, pv, lst) ==
  \A p \in Page : \A k \in Order : lst[p] = k =>
    /\ p % Size[k] # 0 => pv[p] = p - 1
    /\ (p + 1) % Size[k] # 0 => nx[p] = p + 1

InPlace(nx, lst, at) ==
  /\ \A p \in Page : lst[p] # None /\ nx[p] \in Page => at[nx[p]] = at[p] + 1
  /\ \A k \in Order : nx[ListHead(k)] \in Page => at[nx[ListHead(k)]] = 1

OneAPlace(lst, at) ==
  \A p, q \in Page : lst[p] = lst[q] /\ lst[p] # None /\ at[p] = at[q] => p = q

LargeInBulk(lst) == \A p \in Page : lst[p] \in Order /\ lst[p] # 0 => p < Bulk

Lists(nx, pv, lst, at) ==
  /\ nx \in [Node -> Node] /\ pv \in [Node -> Node]
  /\ lst \in ListMap /\ at \in PlaceMap
  /\ Linked(nx, pv, lst) /\ InBlocks(nx, pv, lst)
  /\ InPlace(nx, lst, at) /\ OneAPlace(lst, at) /\ LargeInBulk(lst)

(***************************************************************************)
(* A free block smaller than the largest was cut from a larger one, of     *)
(* which some page is in T.                                                *)
(***************************************************************************)
Parent(p, k) == Start(p, Size[k + 1])

Small(lst, p) == lst[p] \in Order /\ lst[p] # TopOrder /\ p < Bulk

HaveParents(lst, T) ==
  \A p \in Page : Small(lst, p) => \E t \in T : Parent(t, lst[p]) = Parent(p, lst[p])

(***************************************************************************)
(* The inductive invariant.                                                *)
(***************************************************************************)
HeldBlocks ==
  /\ \A b \in held : b.first % Size[b.order] = 0 /\ BlockPages(b) \subseteq Page
  /\ \A b, c \in held : b # c => BlockPages(b) \cap BlockPages(c) = {}

ListedAre(lst, at) ==
  /\ Lists(next, prev, lst, at)
  /\ \A p \in Page : lst[p] = None <=> p \in Taken
  /\ HaveParents(lst, Taken)

IInv ==
  /\ TypeOK /\ wild = FALSE /\ HeldBlocks
  /\ \E lst, at : ListedAre(lst, at)
-----------------------------------------------------------------------------
LEMMA NodeFacts ==
  /\ \A k \in Order : /\ ListHead(k) \in Node /\ ListHead(k) \notin Page
                      /\ ListOf(ListHead(k)) = k /\ k # None
  /\ \A j, k \in Order : ListHead(j) = ListHead(k) => j = k
  /\ \A n \in Node : n \in Page \/ \E k \in Order : n = ListHead(k)
  /\ \A p \in Page : p \in Nat /\ p < KERNEL_PAGE_NUM /\ p \in Node
  /\ \A p \in Nat : p < KERNEL_PAGE_NUM => p \in Page
<1>1. \A k \in Order : k \in Nat
  BY OrderFacts
<1>2. \A p \in Page : p \in Nat /\ p < KERNEL_PAGE_NUM
  BY OrderFacts DEF Page
<1>3. \A p \in Nat : p < KERNEL_PAGE_NUM => p \in Page
  BY OrderFacts DEF Page
<1> QED
  BY <1>1, <1>2, <1>3 DEF ListHead, ListOf, Node, Heads, None

LEMMA BulkFacts ==
  /\ Bulk \in Nat /\ Bulk =< KERNEL_PAGE_NUM
  /\ \A k \in 0..MAX_BUDDY_PAGE_NUM : Bulk % Size[k] = 0
<1> DEFINE M == MAX_BUDDY_PAGE_NUM
<1>1. M \in 0..M /\ M \in Nat /\ \A k \in 0..M : k =< M
  BY OrderFacts
<1>2. Twice \in Nat \ {0}
  BY <1>1, Sizes DEF Twice
<1>3. KERNEL_PAGE_NUM \in Nat /\ Bulk = Start(KERNEL_PAGE_NUM, Twice)
  BY OrderFacts DEF Bulk, Start
<1>4. Bulk \in Nat /\ Bulk % Twice = 0 /\ KERNEL_PAGE_NUM \in Bulk..(Bulk + Twice - 1)
  BY <1>2, <1>3, StartIsMultiple
<1>5. Bulk =< KERNEL_PAGE_NUM
  BY <1>2, <1>3, <1>4
<1>6. \A k \in 0..M : Bulk % Size[k] = 0
  BY <1>1, <1>4, AlignedSmaller DEF Twice
<1> QED
  BY <1>4, <1>5, <1>6

LEMMA RingFacts ==
  /\ \A p \in Page : /\ RingOf(p) \in Order
                     /\ First(RingOf(p)) =< p /\ p =< Last(RingOf(p))
                     /\ First(RingOf(p)) \in Nat
                     /\ p # Last(RingOf(p)) => p + 1 \in Page /\ RingOf(p + 1) = RingOf(p)
                     /\ p # First(RingOf(p)) => p - 1 \in Page /\ RingOf(p - 1) = RingOf(p)
  /\ \A k \in Order : Filled(k) =>
       /\ First(k) \in Page /\ RingOf(First(k)) = k
       /\ Last(k) \in Page /\ RingOf(Last(k)) = k
<1>1. /\ Bulk \in Nat /\ Bulk =< KERNEL_PAGE_NUM /\ KERNEL_PAGE_NUM \in Nat
      /\ TopOrder \in Nat /\ TopOrder \in Order /\ 0 \in Order
  BY BulkFacts, OrderFacts
<1>2. ASSUME NEW p \in Page
      PROVE  /\ RingOf(p) \in Order
             /\ First(RingOf(p)) =< p /\ p =< Last(RingOf(p))
             /\ First(RingOf(p)) \in Nat
             /\ p # Last(RingOf(p)) => p + 1 \in Page /\ RingOf(p + 1) = RingOf(p)
             /\ p # First(RingOf(p)) => p - 1 \in Page /\ RingOf(p - 1) = RingOf(p)
  <2>1. p \in Nat /\ p < KERNEL_PAGE_NUM
    BY NodeFacts
  <2>2. p # Last(RingOf(p)) => p + 1 < KERNEL_PAGE_NUM /\ RingOf(p + 1) = RingOf(p)
    BY <1>1, <2>1 DEF RingOf, Last
  <2>3. p # First(RingOf(p)) => p - 1 \in Nat /\ RingOf(p - 1) = RingOf(p)
    BY <1>1, <2>1 DEF RingOf, First
  <2>4. /\ RingOf(p) \in Order /\ First(RingOf(p)) \in Nat
        /\ First(RingOf(p)) =< p /\ p =< Last(RingOf(p))
    BY <1>1, <2>1 DEF RingOf, First, Last
  <2>5. \A q \in Nat : q < KERNEL_PAGE_NUM => q \in Page
    BY NodeFacts
  <2>6. p + 1 \in Nat /\ p - 1 < KERNEL_PAGE_NUM
    BY <1>1, <2>1
  <2> QED
    BY <2>2, <2>3, <2>4, <2>5, <2>6
<1>3. ASSUME NEW k \in Order, Filled(k)
      PROVE  /\ First(k) \in Page /\ RingOf(First(k)) = k
             /\ Last(k) \in Page /\ RingOf(Last(k)) = k
  <2>1. k = 0 \/ k = TopOrder
    BY <1>1, <1>3 DEF Filled, First, Last
  <2>2. /\ First(k) \in Nat /\ First(k) < KERNEL_PAGE_NUM /\ RingOf(First(k)) = k
        /\ Last(k) \in Nat /\ Last(k) < KERNEL_PAGE_NUM /\ RingOf(Last(k)) = k
    BY <1>1, <1>3, <2>1 DEF Filled, First, Last, RingOf
  <2> QED
    BY <2>2, NodeFacts
<1> QED
  BY <1>2, <1>3

LEMMA RingsAreLists ==
  Lists([n \in Node |-> FirstNext(n)], [n \in Node |-> FirstPrev(n)],
        [p \in Page |-> RingOf(p)], [p \in Page |-> p - First(RingOf(p)) + 1])
<1> DEFINE nx == [n \in Node |-> FirstNext(n)]
<1> DEFINE pv == [n \in Node |-> FirstPrev(n)]
<1> DEFINE lst == [p \in Page |-> RingOf(p)]
<1> DEFINE at == [p \in Page |-> p - First(RingOf(p)) + 1]
<1>1. ASSUME NEW p \in Page
      PROVE  /\ p \in Node /\ lst[p] = RingOf(p) /\ at[p] = p - First(RingOf(p)) + 1
             /\ nx[p] = IF p = Last(RingOf(p)) THEN ListHead(RingOf(p)) ELSE p + 1
             /\ pv[p] = IF p = First(RingOf(p)) THEN ListHead(RingOf(p)) ELSE p - 1
  BY NodeFacts DEF FirstNext, FirstPrev
<1>2. ASSUME NEW k \in Order
      PROVE  /\ nx[ListHead(k)] = IF Filled(k) THEN First(k) ELSE ListHead(k)
             /\ pv[ListHead(k)] = IF Filled(k) THEN Last(k) ELSE ListHead(k)
  BY NodeFacts DEF FirstNext, FirstPrev
<1>3. nx \in [Node -> Node] /\ pv \in [Node -> Node]
  <2>1. ASSUME NEW p \in Page PROVE nx[p] \in Node /\ pv[p] \in Node
    BY <1>1, RingFacts, NodeFacts
  <2> HIDE DEF nx, pv
  <2>2. ASSUME NEW k \in Order PROVE nx[ListHead(k)] \in Node /\ pv[ListHead(k)] \in Node
    <3>1. ListHead(k) \in Node /\ (Filled(k) => First(k) \in Node /\ Last(k) \in Node)
      BY RingFacts, NodeFacts
    <3> QED
      BY <1>2, <3>1
  <2>3. \A n \in Node : nx[n] \in Node /\ pv[n] \in Node
    BY <2>1, <2>2, NodeFacts
  <2> QED
    BY <2>3 DEF nx, pv
<1>4. lst \in ListMap
  BY RingFacts DEF ListMap
<1>5. at \in PlaceMap
  <2>1. ASSUME NEW p \in Page PROVE p - First(RingOf(p)) + 1 \in 1..KERNEL_PAGE_NUM
    <3>1. p \in Nat /\ p < KERNEL_PAGE_NUM /\ KERNEL_PAGE_NUM \in Nat
      BY NodeFacts, OrderFacts
    <3>2. First(RingOf(p)) \in Nat /\ First(RingOf(p)) =< p
      BY RingFacts
    <3> QED
      BY <3>1, <3>2
  <2> QED
    BY <2>1 DEF PlaceMap
<1> HIDE DEF nx, pv, lst, at
<1>6. Linked(nx, pv, lst)
  <2>1. ASSUME NEW k \in Order, NEW p \in Page, lst[p] = k
        PROVE  On(lst, nx[p], k) /\ pv[nx[p]] = p /\ On(lst, pv[p], k) /\ nx[pv[p]] = p
    <3>1. RingOf(p) = k /\ First(k) =< p /\ p =< Last(k) /\ p \in Nat /\ First(k) \in Nat
      BY <2>1, <1>1, RingFacts, NodeFacts
    <3>2. Filled(k)
      <4>1. Last(k) \in Int
        BY BulkFacts, OrderFacts DEF Last
      <4> QED
        BY <3>1, <4>1 DEF Filled
    <3>3. On(lst, nx[p], k) /\ pv[nx[p]] = p
      <4>1. CASE p = Last(k)
        BY <4>1, <3>1, <3>2, <1>1, <1>2 DEF On
      <4>2. CASE p # Last(k)
        <5>1. nx[p] = p + 1 /\ p + 1 \in Page /\ RingOf(p + 1) = k
          BY <3>1, <4>2, <1>1, RingFacts
        <5>2. p + 1 # First(k) /\ (p + 1) - 1 = p
          BY <3>1
        <5> QED
          BY <5>1, <5>2, <1>1 DEF On
      <4> QED
        BY <4>1, <4>2
    <3>4. On(lst, pv[p], k) /\ nx[pv[p]] = p
      <4>1. CASE p = First(k)
        BY <4>1, <3>1, <3>2, <1>1, <1>2 DEF On
      <4>2. CASE p # First(k)
        <5>1. pv[p] = p - 1 /\ p - 1 \in Page /\ RingOf(p - 1) = k
          BY <3>1, <4>2, <1>1, RingFacts
        <5>2. p - 1 # Last(k) /\ (p - 1) + 1 = p
          <6>1. Last(k) \in Int
            BY BulkFacts, OrderFacts DEF Last
          <6> QED
            BY <3>1, <6>1
        <5> QED
          BY <5>1, <5>2, <1>1 DEF On
      <4> QED
        BY <4>1, <4>2
    <3> QED
      BY <3>3, <3>4
  <2>2. ASSUME NEW k \in Order
        PROVE  LET h == ListHead(k) IN
               On(lst, nx[h], k) /\ pv[nx[h]] = h /\ On(lst, pv[h], k) /\ nx[pv[h]] = h
    <3>1. CASE Filled(k)
      BY <3>1, <1>1, <1>2, RingFacts DEF On
    <3>2. CASE ~Filled(k)
      BY <3>2, <1>2 DEF On
    <3> QED
      BY <3>1, <3>2
  <2> QED
    BY <2>1, <2>2 DEF Linked, On
<1>7. InBlocks(nx, pv, lst)
  <2> SUFFICES ASSUME NEW p \in Page, NEW k \in Order, lst[p] = k
               PROVE  /\ p % Size[k] # 0 => pv[p] = p - 1
                      /\ (p + 1) % Size[k] # 0 => nx[p] = p + 1
    BY DEF InBlocks
  <2>1. RingOf(p) = k
    BY <1>1
  <2>2. /\ Bulk \in Nat /\ Bulk % Size[k] = 0 /\ k \in 0..MAX_BUDDY_PAGE_NUM
        /\ p \in Nat /\ KERNEL_PAGE_NUM \in Nat /\ Size[k] \in Nat \ {0}
    BY BulkFacts, OrderFacts, NodeFacts DEF Order
  <2>3. 0 % Size[k] = 0
    BY <2>2
  <2>4. k = 0 => Size[k] = 1
    BY Sizes
  <2>5. k = 0 \/ (k = TopOrder /\ Bulk > p)
    BY <2>1, <2>2 DEF RingOf
  <2>6. CASE k = 0
    BY <2>6, <2>2, <2>4
  <2>7. CASE k # 0
    <3>1. First(k) = 0 /\ Last(k) = Bulk - 1
      BY <2>5, <2>7 DEF First, Last
    <3>2. p % Size[k] # 0 => p # First(k)
      BY <3>1, <2>3
    <3>3. (p + 1) % Size[k] # 0 => p # Last(k)
      BY <3>1, <2>2
    <3> QED
      BY <3>2, <3>3, <2>1, <1>1
  <2> QED
    BY <2>6, <2>7
<1>8. InPlace(nx, lst, at)
  <2>1. ASSUME NEW p \in Page, nx[p] \in Page PROVE at[nx[p]] = at[p] + 1
    <3>1. nx[p] = p + 1 /\ RingOf(p + 1) = RingOf(p)
      BY <2>1, <1>1, RingFacts, NodeFacts
    <3> QED
      BY <3>1, <2>1, <1>1, RingFacts, NodeFacts
  <2>2. ASSUME NEW k \in Order, nx[ListHead(k)] \in Page PROVE at[nx[ListHead(k)]] = 1
    <3>1. Filled(k) /\ nx[ListHead(k)] = First(k)
      BY <2>2, <1>2, NodeFacts
    <3>2. First(k) \in Page /\ RingOf(First(k)) = k /\ First(k) \in Nat
      BY <3>1, RingFacts, NodeFacts
    <3> QED
      BY <3>1, <3>2, <1>1
  <2> QED
    BY <2>1, <2>2 DEF InPlace
<1>9. OneAPlace(lst, at)
  <2> SUFFICES ASSUME NEW p \in Page, NEW q \in Page, lst[p] = lst[q], at[p] = at[q]
               PROVE  p = q
    BY DEF OneAPlace
  <2>1. p \in Nat /\ q \in Nat /\ First(RingOf(p)) \in Nat /\ RingOf(p) = RingOf(q)
    BY <1>1, RingFacts, NodeFacts
  <2>2. p - First(RingOf(p)) + 1 = q - First(RingOf(p)) + 1
    BY <2>1, <1>1
  <2> QED
    BY <2>1, <2>2
<1>10. LargeInBulk(lst)
  BY <1>1 DEF LargeInBulk, RingOf
<1>11. Lists(nx, pv, lst, at)
  BY <1>3, <1>4, <1>5, <1>6, <1>7, <1>8, <1>9, <1>10 DEF Lists
<1> QED
  BY <1>11 DEF nx, pv, lst, at

LEMMA InitIInv == Init => IInv
<1> SUFFICES ASSUME Init PROVE IInv
  OBVIOUS
<1> DEFINE lst == [p \in Page |-> RingOf(p)]
<1> DEFINE at == [p \in Page |-> p - First(RingOf(p)) + 1]
<1>1. Lists(next, prev, lst, at)
  BY RingsAreLists DEF Init
<1>2. held = {} /\ Taken = {} /\ wild = FALSE /\ busy = {}
  BY DEF Init, Taken
<1>3. order \in [Page -> Order \cup {-1}]
  BY OrderFacts DEF Init, FirstOrder
<1>4. HeldBlocks
  BY <1>2 DEF HeldBlocks
<1>5. \A p \in Page : lst[p] # None
  BY RingFacts, NodeFacts
<1>6. HaveParents(lst, Taken)
  <2> SUFFICES ASSUME NEW p \in Page PROVE ~Small(lst, p)
    BY DEF HaveParents
  <2> QED
    BY DEF Small, RingOf
<1> HIDE DEF lst, at
<1>7. ListedAre(lst, at)
  BY <1>1, <1>2, <1>5, <1>6 DEF ListedAre
<1>8. TypeOK
  BY <1>1, <1>2, <1>3 DEF TypeOK, Lists
<1> QED
  BY <1>2, <1>4, <1>7, <1>8 DEF IInv
-----------------------------------------------------------------------------
(***************************************************************************)
(* The first block of a list: its pages follow each other and have the     *)
(* first places.                                                           *)
(***************************************************************************)
Block(p, k) == p..(p + Size[k] - 1)

LEMMA ListsFacts ==
  ASSUME NEW nx, NEW pv, NEW lst, NEW at, Lists(nx, pv, lst, at)
  PROVE  /\ nx \in [Node -> Node] /\ pv \in [Node -> Node]
         /\ lst \in [Page -> Order \cup {None}]
         /\ \A p \in Page : at[p] \in Nat /\ 1 =< at[p] /\ at[p] =< KERNEL_PAGE_NUM
<1>1. at \in [Page -> 1..KERNEL_PAGE_NUM] /\ KERNEL_PAGE_NUM \in Nat
  BY OrderFacts DEF Lists, PlaceMap
<1>2. \A p \in Page : at[p] \in Nat /\ 1 =< at[p] /\ at[p] =< KERNEL_PAGE_NUM
  BY <1>1
<1> QED
  BY <1>2 DEF Lists, ListMap

LEMMA FirstBlock ==
  ASSUME NEW nx, NEW pv, NEW lst, NEW at, Lists(nx, pv, lst, at),
         NEW k \in Order, NEW pg, pg = nx[ListHead(k)], pg # ListHead(k)
  PROVE  /\ pg \in Page /\ pg \in Nat /\ pg % Size[k] = 0
         /\ \A i \in 0..(Size[k] - 1) :
              pg + i \in Page /\ lst[pg + i] = k /\ at[pg + i] = i + 1
         /\ \A i \in 1..(Size[k] - 1) : nx[pg + (i - 1)] = pg + i /\ pv[pg + i] = pg + (i - 1)
<1>1. Size[k] \in Nat \ {0} /\ ListHead(k) \in Node /\ ListHead(k) \notin Page
  BY OrderFacts, NodeFacts
<1>2. /\ pg \in Page /\ lst[pg] = k /\ pv[pg] = ListHead(k) /\ at[pg] = 1
      /\ pg \in Nat /\ pg \in Node
  <2>1. On(lst, ListHead(k), k)
    BY DEF On
  <2>2. On(lst, pg, k) /\ pv[pg] = ListHead(k)
    BY <1>1, <2>1 DEF Lists, Linked
  <2>3. pg \in Page /\ lst[pg] = k
    BY <2>2 DEF On
  <2>4. at[pg] = 1
    BY <2>3 DEF Lists, InPlace
  <2> QED
    BY <2>2, <2>3, <2>4, NodeFacts
<1>3. pg % Size[k] = 0
  <2> SUFFICES ASSUME pg % Size[k] # 0 PROVE FALSE
    OBVIOUS
  <2>1. pv[pg] = pg - 1
    BY <1>2 DEF Lists, InBlocks
  <2>2. pg # 0
    BY <1>1
  <2>3. pg - 1 \in Nat /\ k \in Nat
    BY <1>2, <2>2, OrderFacts
  <2> QED
    BY <2>1, <2>3, <1>2 DEF ListHead
<1> DEFINE Good(i) == pg + i \in Page /\ lst[pg + i] = k /\ at[pg + i] = i + 1
<1> DEFINE n == Size[k] - 1
<1> DEFINE P == [i \in 0..n |-> Good(i)]
<1>4. n \in Nat
  BY <1>1
<1>5. ASSUME NEW i \in 1..n, Good(i - 1)
      PROVE  Good(i) /\ nx[pg + (i - 1)] = pg + i /\ pv[pg + i] = pg + (i - 1)
  <2>1. i \in Nat /\ i < Size[k] /\ i # 0 /\ i - 1 \in Nat /\ pg + (i - 1) + 1 = pg + i
    BY <1>1, <1>2
  <2>2. (pg + i) % Size[k] = i
    BY <1>1, <1>2, <1>3, <2>1, RestInRun
  <2> DEFINE q == pg + (i - 1)
  <2>3. q \in Page /\ lst[q] = k /\ at[q] = (i - 1) + 1 /\ q + 1 = pg + i /\ q \in Node
    BY <1>5, <2>1, NodeFacts
  <2> HIDE DEF q
  <2>4. nx[q] = pg + i
    BY <2>1, <2>2, <2>3 DEF Lists, InBlocks
  <2>5. On(lst, q, k)
    BY <2>3 DEF On
  <2>6. On(lst, pg + i, k) /\ pv[pg + i] = q
    BY <2>3, <2>4, <2>5 DEF Lists, Linked
  <2>7. pg + i # ListHead(k)
    <3>1. k \in Nat /\ pg + i \in Nat
      BY <1>2, <2>1, OrderFacts
    <3> QED
      BY <3>1 DEF ListHead
  <2>8. pg + i \in Page /\ lst[pg + i] = k
    BY <2>6, <2>7 DEF On
  <2>9. at[pg + i] = at[q] + 1
    BY <2>3, <2>4, <2>8, NodeFacts DEF Lists, InPlace
  <2>10. at[pg + i] = i + 1
    BY <2>9, <2>3, <2>1
  <2> QED
    BY <2>4, <2>6, <2>8, <2>10 DEF q
<1>6. \A i \in 0..n : P[i]
  <2>1. P[0]
    <3>1. pg + 0 = pg /\ 0 + 1 = 1 /\ 0 \in 0..n
      BY <1>2, <1>4
    <3>2. Good(0)
      BY <3>1, <1>2
    <3> QED
      BY <3>1, <3>2
  <2>2. ASSUME NEW i \in 1..n, P[i - 1] PROVE P[i]
    <3>1. i \in 0..n /\ i - 1 \in 0..n
      BY <1>4
    <3>2. Good(i - 1)
      BY <2>2, <3>1
    <3>3. Good(i)
      BY <3>2, <1>5
    <3> HIDE DEF Good
    <3> QED
      BY <3>1, <3>3
  <2> HIDE DEF P, n
  <2> QED
    BY <2>1, <2>2, <1>4, TurnByTurn
<1>7. \A i \in 0..n : Good(i)
  <2> HIDE DEF Good
  <2> QED
    BY <1>6
<1>8. ASSUME NEW i \in 1..n
      PROVE  nx[pg + (i - 1)] = pg + i /\ pv[pg + i] = pg + (i - 1)
  <2>1. i - 1 \in 0..n
    BY <1>4
  <2>2. Good(i - 1)
    BY <2>1, <1>7
  <2> HIDE DEF Good
  <2> QED
    BY <2>2, <1>5
<1> QED
  BY <1>2, <1>3, <1>7, <1>8
(***************************************************************************)
(* With its first block taken off, a list is one still.                    *)
(***************************************************************************)
Without(lst, p, k) == [q \in Page |-> IF q \in Block(p, k) THEN None ELSE lst[q]]

MovedUp(lst, at, p, k) ==
  [q \in Page |-> IF lst[q] = k /\ q \notin Block(p, k) THEN at[q] - Size[k] ELSE at[q]]

LEMMA TakenOffLists ==
  ASSUME NEW nx, NEW pv, NEW lst, NEW at, Lists(nx, pv, lst, at),
         NEW k \in Order, NEW pg, pg = nx[ListHead(k)], pg # ListHead(k)
  PROVE  /\ Lists([nx EXCEPT ![ListHead(k)] = nx[End(pg, k)]],
                  [pv EXCEPT ![nx[End(pg, k)]] = ListHead(k)],
                  Without(lst, pg, k), MovedUp(lst, at, pg, k))
         /\ nx[End(pg, k)] \notin Block(pg, k) /\ nx[End(pg, k)] \in Node
<1> DEFINE h == ListHead(k)
<1> DEFINE s == Size[k]
<1> DEFINE B == Block(pg, k)
<1> DEFINE e == End(pg, k)
<1> DEFINE y == nx[e]
<1> DEFINE nx1 == [nx EXCEPT ![h] = y]
<1> DEFINE pv1 == [pv EXCEPT ![y] = h]
<1> DEFINE lst1 == Without(lst, pg, k)
<1> DEFINE at1 == MovedUp(lst, at, pg, k)
<1>1. /\ s \in Nat \ {0} /\ h \in Node /\ h \notin Page /\ k \in Nat
      /\ \A j \in Order : j # k => ListHead(j) # h
      /\ \A p \in Page : p \in Nat /\ p \in Node
      /\ \A j \in Order : j # None
  BY OrderFacts, NodeFacts
<1>2. /\ nx \in [Node -> Node] /\ pv \in [Node -> Node]
      /\ lst \in [Page -> Order \cup {None}]
      /\ \A p \in Page : at[p] \in Nat /\ 1 =< at[p] /\ at[p] =< KERNEL_PAGE_NUM
  BY ListsFacts
<1>3. /\ pg \in Page /\ pg \in Nat /\ pg % s = 0
      /\ \A i \in 0..(s - 1) : pg + i \in Page /\ lst[pg + i] = k /\ at[pg + i] = i + 1
      /\ \A i \in 1..(s - 1) : nx[pg + (i - 1)] = pg + i /\ pv[pg + i] = pg + (i - 1)
  BY FirstBlock
<1>4. nx[h] = pg /\ pv[pg] = h
  BY <1>1 DEF Lists, Linked, On
<1>0. B = pg..(pg + s - 1) /\ e = pg + s - 1
  BY DEF Block, End
<1>s. s \in Nat /\ s # 0 /\ pg \in Nat
  BY <1>1, <1>3
<1> HIDE DEF s, B, e, y
<1>5. /\ B \subseteq Page /\ pg \in B /\ e \in B /\ h \notin B /\ e \in Node
      /\ \A q \in B : lst[q] = k /\ at[q] =< s
      /\ \A q \in B : q # e => nx[q] \in B
      /\ \A q \in B : q # pg => pv[q] \in B
      /\ at[e] = s
  <2>1. ASSUME NEW q \in B
        PROVE  /\ q \in Page /\ lst[q] = k /\ at[q] = q - pg + 1 /\ at[q] =< s
               /\ q # e => nx[q] \in B
               /\ q # pg => pv[q] \in B
    <3>1. q - pg \in 0..(s - 1) /\ pg + (q - pg) = q /\ q \in Nat
      BY <1>0, <1>s
    <3>2. q \in Page /\ lst[q] = k /\ at[q] = q - pg + 1
      BY <3>1, <1>3
    <3>3. q # e => nx[q] = q + 1 /\ q + 1 \in B
      <4> SUFFICES ASSUME q # e PROVE nx[q] = q + 1 /\ q + 1 \in B
        OBVIOUS
      <4>0. q \in Nat /\ pg =< q /\ q < pg + s - 1
        BY <3>1, <1>0, <1>s
      <4>1. /\ q + 1 - pg \in 1..(s - 1) /\ pg + (q + 1 - pg) = q + 1
            /\ pg + ((q + 1 - pg) - 1) = q
        BY <4>0, <1>s
      <4>2. q + 1 \in B
        BY <4>0, <1>0, <1>s
      <4> QED
        BY <4>1, <4>2, <1>3
    <3>4. q # pg => pv[q] = q - 1 /\ q - 1 \in B
      <4> SUFFICES ASSUME q # pg PROVE pv[q] = q - 1 /\ q - 1 \in B
        OBVIOUS
      <4>0. q \in Nat /\ pg < q /\ q =< pg + s - 1
        BY <3>1, <1>0, <1>s
      <4>1. q - pg \in 1..(s - 1) /\ pg + ((q - pg) - 1) = q - 1
        BY <4>0, <1>s
      <4>2. q - 1 \in B
        BY <4>0, <1>0, <1>s
      <4> QED
        BY <3>1, <4>1, <4>2, <1>3
    <3>5. at[q] =< s
      BY <3>1, <3>2, <1>1
    <3> QED
      BY <3>2, <3>3, <3>4, <3>5
  <2>2. pg \in B /\ e \in B /\ e - pg + 1 = s
    BY <1>0, <1>s
  <2>3. at[e] = s
    BY <2>1, <2>2
  <2> QED
    BY <2>1, <2>2, <2>3, <1>1
<1>6. \A n \in Node : \A j \in Order : On(lst, n, j) =>
        On(lst, nx[n], j) /\ On(lst, pv[n], j) /\ pv[nx[n]] = n /\ nx[pv[n]] = n
  BY DEF Lists, Linked
<1>7. /\ On(lst, y, k) /\ pv[y] = e /\ y \notin B /\ y \in Node
      /\ y \in Page => at[y] = s + 1
  <2>1. On(lst, y, k) /\ pv[y] = e /\ y \in Node
    BY <1>2, <1>5, <1>6 DEF y, On
  <2>2. y \in Page => at[y] = s + 1
    BY <1>1, <1>5 DEF y, Lists, InPlace
  <2>3. y \notin B
    <3> SUFFICES ASSUME y \in B PROVE FALSE
      OBVIOUS
    <3>1. at[y] = s + 1 /\ at[y] =< s
      BY <2>2, <1>5
    <3> QED
      BY <3>1, <1>1
  <2> QED
    BY <2>1, <2>2, <2>3
<1>8. /\ lst1 \in [Page -> Order \cup {None}]
      /\ \A q \in Page : lst1[q] = IF q \in B THEN None ELSE lst[q]
      /\ \A q \in Page : at1[q] = IF lst[q] = k /\ q \notin B THEN at[q] - s ELSE at[q]
      /\ \A n \in Node : \A j \in Order : On(lst1, n, j) <=> On(lst, n, j) /\ n \notin B
  <2>1. /\ lst1 \in [Page -> Order \cup {None}]
        /\ \A q \in Page : lst1[q] = IF q \in B THEN None ELSE lst[q]
        /\ \A q \in Page : at1[q] = IF lst[q] = k /\ q \notin B THEN at[q] - s ELSE at[q]
    BY <1>2 DEF Without, MovedUp, B, s
  <2> HIDE DEF lst1, at1
  <2>2. \A n \in Node : \A j \in Order : On(lst1, n, j) <=> On(lst, n, j) /\ n \notin B
    <3> SUFFICES ASSUME NEW n \in Node, NEW j \in Order
                 PROVE  On(lst1, n, j) <=> On(lst, n, j) /\ n \notin B
      OBVIOUS
    <3>1. ListHead(j) \notin B /\ j # None
      BY <1>5, NodeFacts
    <3> QED
      BY <3>1, <2>1 DEF On
  <2> QED
    BY <2>1, <2>2
<1>9. /\ nx1 \in [Node -> Node] /\ pv1 \in [Node -> Node]
      /\ nx1[h] = y /\ pv1[y] = h
      /\ \A n \in Node : n # h => nx1[n] = nx[n]
      /\ \A n \in Node : n # y => pv1[n] = pv[n]
  BY <1>1, <1>2, <1>7
<1> HIDE DEF nx1, pv1, lst1, at1, h
<1>10. \A n \in Node : \A j \in Order : On(lst, n, j) /\ j # k => ~On(lst, n, k)
  BY <1>1, NodeFacts DEF On, h
<1>11. ASSUME NEW n \in Node, On(lst, n, k), n \notin B
       PROVE  /\ n # h => nx[n] \notin B /\ nx[n] # y
              /\ n # y => pv[n] \notin B /\ pv[n] # h
  <2>1. pv[nx[n]] = n /\ nx[pv[n]] = n /\ nx[n] \in Node /\ pv[n] \in Node
    BY <1>2, <1>6, <1>11
  <2>2. ASSUME n # h PROVE nx[n] \notin B /\ nx[n] # y
    <3>1. ASSUME nx[n] \in B PROVE FALSE
      BY <3>1, <2>1, <2>2, <1>4, <1>5, <1>11
    <3>2. nx[n] # y
      BY <2>1, <1>5, <1>7, <1>11
    <3> QED
      BY <3>1, <3>2
  <2>3. ASSUME n # y PROVE pv[n] \notin B /\ pv[n] # h
    <3>1. ASSUME pv[n] \in B PROVE FALSE
      BY <3>1, <2>1, <2>3, <1>5, <1>11 DEF y
    <3>2. pv[n] # h
      BY <2>1, <1>4, <1>5, <1>11
    <3> QED
      BY <3>1, <3>2
  <2> QED
    BY <2>2, <2>3
<1>12. Linked(nx1, pv1, lst1)
  <2> SUFFICES ASSUME NEW j \in Order, NEW n \in Node, On(lst1, n, j)
               PROVE  /\ On(lst1, nx1[n], j) /\ pv1[nx1[n]] = n
                      /\ On(lst1, pv1[n], j) /\ nx1[pv1[n]] = n
    BY DEF Linked
  <2>1. On(lst, n, j) /\ n \notin B
    BY <1>8
  <2>2. /\ On(lst, nx[n], j) /\ On(lst, pv[n], j) /\ pv[nx[n]] = n /\ nx[pv[n]] = n
        /\ nx[n] \in Node /\ pv[n] \in Node
    BY <1>2, <1>6, <2>1
  <2>3. CASE j # k
    <3>1. n # h /\ n # y /\ nx[n] # y /\ nx[n] \notin B /\ pv[n] # h /\ pv[n] \notin B
      <4>1. On(lst, h, k) /\ \A q \in B : On(lst, q, k)
        BY <1>5 DEF On, h
      <4> QED
        BY <2>1, <2>2, <2>3, <4>1, <1>7, <1>10
    <3> QED
      BY <3>1, <2>2, <1>8, <1>9
  <2>4. CASE j = k
    <3>0. On(lst1, h, k) /\ On(lst1, y, k)
      BY <1>7, <1>8, <1>1, <1>5 DEF On, h
    <3>1. On(lst1, nx1[n], k) /\ pv1[nx1[n]] = n
      <4>1. CASE n = h
        BY <4>1, <3>0, <1>9
      <4>2. CASE n # h
        BY <4>2, <2>1, <2>2, <2>4, <1>8, <1>9, <1>11
      <4> QED
        BY <4>1, <4>2
    <3>2. On(lst1, pv1[n], k) /\ nx1[pv1[n]] = n
      <4>1. CASE n = y
        BY <4>1, <3>0, <1>9
      <4>2. CASE n # y
        BY <4>2, <2>1, <2>2, <2>4, <1>8, <1>9, <1>11
      <4> QED
        BY <4>1, <4>2
    <3> QED
      BY <3>1, <3>2, <2>4
  <2> QED
    BY <2>3, <2>4
<1>13. InBlocks(nx1, pv1, lst1)
  <2> SUFFICES ASSUME NEW p \in Page, NEW j \in Order, lst1[p] = j
               PROVE  /\ p % Size[j] # 0 => pv1[p] = p - 1
                      /\ (p + 1) % Size[j] # 0 => nx1[p] = p + 1
    BY DEF InBlocks
  <2>1. p \notin B /\ lst[p] = j /\ p \in Node /\ p # h /\ p \in Nat
    BY <1>1, <1>8
  <2>2. /\ p % Size[j] # 0 => pv[p] = p - 1
        /\ (p + 1) % Size[j] # 0 => nx[p] = p + 1
    BY <2>1 DEF Lists, InBlocks
  <2>3. p = y => p % Size[j] = 0
    <3> SUFFICES ASSUME p = y, p % Size[j] # 0 PROVE FALSE
      OBVIOUS
    <3>1. On(lst, p, j) /\ On(lst, p, k)
      BY <1>7, <2>1 DEF On
    <3>2. j = k
      BY <3>1, <2>1, <1>10
    <3>3. p - 1 = e
      BY <2>2, <1>7
    <3>4. p = pg + s
      BY <3>3, <1>0, <1>s, <2>1
    <3>5. (pg + s) % s = 0
      <4>2. PICK q \in Nat : pg = q * s
        BY <1>1, <1>3, MultipleBy
      <4>3. pg + s = (q + 1) * s /\ q + 1 \in Nat
        BY <4>2, <1>1
      <4> QED
        BY <4>3, <1>1, ByMultiple
    <3> QED
      BY <3>2, <3>4, <3>5 DEF s
  <2> QED
    BY <2>1, <2>2, <2>3, <1>9
<1>14. InPlace(nx1, lst1, at1)
  <2>1. ASSUME NEW p \in Page, lst1[p] # None, nx1[p] \in Page PROVE at1[nx1[p]] = at1[p] + 1
    <3>1. p \notin B /\ lst[p] # None /\ p \in Node /\ nx1[p] = nx[p] /\ lst[p] \in Order
      BY <2>1, <1>1, <1>2, <1>8, <1>9
    <3>2. at[nx[p]] = at[p] + 1 /\ at[p] \in Nat
      BY <2>1, <3>1, <1>2 DEF Lists, InPlace
    <3>3. On(lst, p, lst[p])
      BY DEF On
    <3>4. On(lst, nx[p], lst[p])
      BY <3>1, <3>3, <1>6
    <3>5. lst[nx[p]] = lst[p]
      BY <3>1, <3>4, <2>1, NodeFacts DEF On
    <3>6. nx[p] \notin B
      <4>1. CASE lst[p] = k
        BY <4>1, <3>1, <3>3, <1>1, <1>11
      <4>2. CASE lst[p] # k
        BY <4>2, <3>5, <1>5
      <4> QED
        BY <4>1, <4>2
    <3> QED
      BY <2>1, <3>1, <3>2, <3>5, <3>6, <1>1, <1>8
  <2>2. ASSUME NEW j \in Order, nx1[ListHead(j)] \in Page PROVE at1[nx1[ListHead(j)]] = 1
    <3>1. CASE j = k
      <4>1. nx1[ListHead(j)] = y /\ y \in Page
        BY <3>1, <2>2, <1>9 DEF h
      <4>2. lst[y] = k /\ at[y] = s + 1 /\ y \notin B
        BY <4>1, <1>7, NodeFacts DEF On
      <4> QED
        BY <4>1, <4>2, <1>1, <1>8
    <3>2. CASE j # k
      <4>1. ListHead(j) \in Node /\ ListHead(j) # h /\ On(lst, ListHead(j), j)
        BY <3>2, <1>1, NodeFacts DEF On
      <4>2. nx1[ListHead(j)] = nx[ListHead(j)]
        BY <4>1, <1>9
      <4>3. at[nx[ListHead(j)]] = 1
        BY <4>2, <2>2 DEF Lists, InPlace
      <4>4. On(lst, nx[ListHead(j)], j)
        BY <4>1, <1>6
      <4>5. lst[nx[ListHead(j)]] # k
        BY <4>2, <4>4, <2>2, <3>2, NodeFacts DEF On
      <4> QED
        BY <4>2, <4>3, <4>5, <2>2, <1>8
    <3> QED
      BY <3>1, <3>2
  <2> QED
    BY <2>1, <2>2 DEF InPlace
<1>15. ASSUME NEW p \in Page, lst[p] = k, p \notin B PROVE at[p] > s
  <2> SUFFICES ASSUME at[p] =< s PROVE FALSE
    BY <1>1, <1>2
  <2> DEFINE i == at[p] - 1
  <2>1. i \in 0..(s - 1) /\ i + 1 = at[p]
    BY <1>1, <1>2
  <2> HIDE DEF i
  <2>2. pg + i \in Page /\ lst[pg + i] = k /\ at[pg + i] = at[p] /\ pg + i \in B
    <3>1. pg + i \in B
      BY <2>1, <1>0, <1>s
    <3> QED
      BY <3>1, <2>1, <1>3
  <2>3. pg + i = p
    BY <2>2, <1>15, <1>1 DEF Lists, OneAPlace
  <2> QED
    BY <2>2, <2>3, <1>15
<1>16. at1 \in PlaceMap
  <2>1. ASSUME NEW p \in Page PROVE at1[p] \in 1..KERNEL_PAGE_NUM
    <3>1. at[p] \in Nat /\ 1 =< at[p] /\ at[p] =< KERNEL_PAGE_NUM /\ KERNEL_PAGE_NUM \in Nat
      BY <1>2, OrderFacts
    <3> QED
      BY <3>1, <1>1, <1>8, <1>15
  <2>2. at1 = [q \in Page |-> at1[q]]
    BY DEF at1, MovedUp
  <2> QED
    BY <2>1, <2>2 DEF PlaceMap
<1>17. OneAPlace(lst1, at1)
  <2> SUFFICES ASSUME NEW p \in Page, NEW q \in Page,
                      lst1[p] = lst1[q], lst1[p] # None, at1[p] = at1[q]
               PROVE  p = q
    BY DEF OneAPlace
  <2>1. p \notin B /\ q \notin B /\ lst[p] = lst[q] /\ lst[p] # None
    BY <1>8
  <2>2. at[p] = at[q]
    BY <2>1, <1>1, <1>2, <1>8
  <2> QED
    BY <2>1, <2>2 DEF Lists, OneAPlace
<1>18. LargeInBulk(lst1)
  BY <1>1, <1>8, NodeFacts DEF Lists, LargeInBulk
<1>19. Lists(nx1, pv1, lst1, at1)
  BY <1>8, <1>9, <1>12, <1>13, <1>14, <1>16, <1>17, <1>18 DEF Lists, ListMap
<1> QED
  BY <1>19, <1>7 DEF nx1, pv1, lst1, at1, h, y, e, B
-----------------------------------------------------------------------------
(***************************************************************************)
(* No page is on the list of a head that points to itself: the first of    *)
(* them would follow the head.                                             *)
(***************************************************************************)
LEMMA EmptyList ==
  ASSUME NEW nx, NEW pv, NEW lst, NEW at, Lists(nx, pv, lst, at),
         NEW k \in Order, nx[ListHead(k)] = ListHead(k), NEW q \in Page, lst[q] = k
  PROVE  FALSE
<1> DEFINE T == {at[p] : p \in {x \in Page : lst[x] = k}}
<1>1. \A p \in Page : at[p] \in Nat /\ at[p] \in 1..KERNEL_PAGE_NUM
  BY OrderFacts DEF Lists, PlaceMap
<1>2. T \in SUBSET Nat /\ T \subseteq 1..KERNEL_PAGE_NUM /\ T # {}
  BY <1>1
<1>3. IsFiniteSet(T)
  <2>1. IsFiniteSet(1..KERNEL_PAGE_NUM)
    BY OrderFacts, FS_Interval
  <2> QED
    BY <1>2, <2>1, FS_Subset
<1>4. PICK m \in T : \A x \in T : m =< x
  BY <1>2, <1>3, LeastNumber
<1>5. PICK p \in Page : lst[p] = k /\ at[p] = m
  OBVIOUS
<1>6. On(lst, pv[p], k) /\ nx[pv[p]] = p
  BY <1>5, NodeFacts DEF Lists, Linked, On
<1>7. pv[p] # ListHead(k)
  BY <1>6, NodeFacts
<1>8. pv[p] \in Page /\ lst[pv[p]] = k
  BY <1>6, <1>7 DEF On
<1>9. at[p] = at[pv[p]] + 1
  BY <1>6, <1>8, NodeFacts DEF Lists, InPlace
<1>10. at[pv[p]] \in T
  BY <1>8
<1>11. m =< at[pv[p]]
  BY <1>4, <1>10
<1>12. at[pv[p]] \in Nat
  BY <1>1, <1>8
<1> HIDE DEF T
<1> QED
  BY <1>5, <1>9, <1>11, <1>12

(***************************************************************************)
(* A block of pages that follow each other is put on an empty list.        *)
(***************************************************************************)
With(lst, p, k) == [q \in Page |-> IF q \in Block(p, k) THEN k ELSE lst[q]]
PlacedFrom(at, p, k) == [q \in Page |-> IF q \in Block(p, k) THEN q - p + 1 ELSE at[q]]

Chained(nx, pv, B) == \A q \in B : q + 1 \in B => nx[q] = q + 1 /\ pv[q + 1] = q

LEMMA AddedLists ==
  ASSUME NEW nx, NEW pv, NEW lst, NEW at, Lists(nx, pv, lst, at),
         NEW k \in Order, nx[ListHead(k)] = ListHead(k),
         NEW pg \in Nat, pg % Size[k] = 0, Block(pg, k) \subseteq Page,
         \A q \in Block(pg, k) : lst[q] = None /\ (k # 0 => q < Bulk),
         Chained(nx, pv, Block(pg, k)),
         NEW l, l = AddChainTail(nx, pv, pg, End(pg, k), ListHead(k))
  PROVE  /\ Lists(l.next, l.prev, With(lst, pg, k), PlacedFrom(at, pg, k))
         /\ \A n \in Node : n # ListHead(k) /\ n \notin Block(pg, k) =>
              l.next[n] = nx[n] /\ l.prev[n] = pv[n]
<1> DEFINE h == ListHead(k)
<1> DEFINE s == Size[k]
<1> DEFINE B == Block(pg, k)
<1> DEFINE e == End(pg, k)
<1> DEFINE nx1 == l.next
<1> DEFINE pv1 == l.prev
<1> DEFINE lst1 == With(lst, pg, k)
<1> DEFINE at1 == PlacedFrom(at, pg, k)
<1>1. /\ h \in Node /\ h \notin Page /\ \A j \in Order : j # k => ListHead(j) # h
      /\ \A p \in Page : p \in Nat /\ p \in Node
      /\ \A j \in Order : j # None
  BY NodeFacts
<1>2. /\ nx \in [Node -> Node] /\ pv \in [Node -> Node]
      /\ lst \in [Page -> Order \cup {None}]
      /\ \A p \in Page : at[p] \in Nat /\ 1 =< at[p] /\ at[p] =< KERNEL_PAGE_NUM
  BY ListsFacts
<1>s. s \in Nat /\ s # 0 /\ pg \in Nat
  BY OrderFacts
<1>0. B = pg..(pg + s - 1) /\ e = pg + s - 1
  BY DEF Block, End
<1>3. pv[h] = h /\ nx[h] = h
  <2>1. pv[nx[h]] = h
    BY <1>1 DEF Lists, Linked, On
  <2> QED
    BY <2>1
<1>4. nx1 = [nx EXCEPT ![h] = pg, ![e] = h] /\ pv1 = [pv EXCEPT ![pg] = h, ![h] = e]
  BY <1>3 DEF AddChainTail
<1> HIDE DEF s, B, e, h, nx1, pv1
<1>5. /\ B \subseteq Page /\ pg \in B /\ e \in B /\ h \notin B
      /\ \A q \in B : q \in Nat /\ q \in Node /\ pg =< q /\ q =< e /\ q < pg + s
      /\ \A q \in B : q # e => q + 1 \in B
      /\ \A q \in B : q # pg => q - 1 \in B
      /\ \A q \in B : lst[q] = None /\ (k # 0 => q < Bulk)
  <2>1. B \subseteq Page /\ \A q \in B : lst[q] = None /\ (k # 0 => q < Bulk)
    BY DEF B
  <2>2. ASSUME NEW q \in B
        PROVE  /\ q \in Nat /\ pg =< q /\ q =< e /\ q < pg + s
               /\ q # e => q + 1 \in B
               /\ q # pg => q - 1 \in B
    <3>1. q \in Nat /\ pg =< q /\ q =< pg + s - 1
      BY <1>0, <1>s
    <3>2. q # e => q + 1 \in B
      <4> SUFFICES ASSUME q # e PROVE q + 1 \in B
        OBVIOUS
      <4>1. q # pg + s - 1
        BY <1>0
      <4>2. q < pg + s - 1
        BY <4>1, <3>1, <1>s
      <4> QED
        BY <4>2, <3>1, <1>0, <1>s
    <3>3. q # pg => q - 1 \in B
      BY <3>1, <1>0, <1>s
    <3> QED
      BY <3>1, <3>2, <3>3, <1>0, <1>s
  <2>3. pg \in B /\ e \in B
    BY <1>0, <1>s
  <2> QED
    BY <2>1, <2>2, <2>3, <1>1
<1>6. /\ nx1 \in [Node -> Node] /\ pv1 \in [Node -> Node]
      /\ nx1[h] = pg /\ nx1[e] = h /\ pv1[pg] = h /\ pv1[h] = e
      /\ \A n \in Node : n # h /\ n # e => nx1[n] = nx[n]
      /\ \A n \in Node : n # h /\ n # pg => pv1[n] = pv[n]
  <2>1. h \in Node /\ e \in Node /\ pg \in Node /\ h # e /\ h # pg
    BY <1>1, <1>5
  <2> QED
    BY <2>1, <1>2, <1>4
<1>7. ASSUME NEW q \in B
      PROVE  /\ q # e => nx1[q] = q + 1 /\ q + 1 \in B
             /\ q # pg => pv1[q] = q - 1 /\ q - 1 \in B
  <2>1. q # h /\ q \in Node /\ q \in Nat
    BY <1>5
  <2>2. q # e => nx1[q] = q + 1 /\ q + 1 \in B
    BY <2>1, <1>5, <1>6 DEF Chained, B
  <2>3. q # pg => pv1[q] = q - 1 /\ q - 1 \in B
    <3> SUFFICES ASSUME q # pg PROVE pv1[q] = q - 1 /\ q - 1 \in B
      OBVIOUS
    <3>1. q - 1 \in B /\ (q - 1) + 1 = q
      BY <2>1, <1>5
    <3>2. pv[q] = q - 1
      BY <3>1 DEF Chained, B
    <3> QED
      BY <3>1, <3>2, <2>1, <1>6
  <2> QED
    BY <2>2, <2>3
<1>8. /\ lst1 \in [Page -> Order \cup {None}]
      /\ \A q \in Page : lst1[q] = IF q \in B THEN k ELSE lst[q]
      /\ \A q \in Page : at1[q] = IF q \in B THEN q - pg + 1 ELSE at[q]
  BY <1>2 DEF With, PlacedFrom, B
<1> HIDE DEF lst1, at1
<1>9. \A q \in Page : lst[q] # k
  BY <1>3, EmptyList DEF h
<1>10. \A n \in Node : On(lst1, n, k) <=> n = h \/ n \in B
  BY <1>5, <1>8, <1>9 DEF On, h
<1>11. ASSUME NEW j \in Order, j # k, NEW n \in Node
       PROVE  On(lst1, n, j) <=> On(lst, n, j) /\ n # h /\ n \notin B
  <2>1. ListHead(j) # h /\ ListHead(j) \notin Page /\ j # None
    BY <1>1, <1>11, NodeFacts
  <2> QED
    BY <2>1, <1>1, <1>5, <1>8, <1>11 DEF On
<1>12. \A j \in Order : \A n \in Node : j # k /\ On(lst, n, j) => n # h /\ n \notin B
  <2> SUFFICES ASSUME NEW j \in Order, NEW n \in Node, j # k, On(lst, n, j)
               PROVE  n # h /\ n \notin B
    OBVIOUS
  <2>1. ListHead(j) # h /\ ListHead(j) \notin Page /\ j # None
    BY <1>1, NodeFacts
  <2> QED
    BY <2>1, <1>1, <1>5 DEF On
<1>13. Linked(nx1, pv1, lst1)
  <2> SUFFICES ASSUME NEW j \in Order, NEW n \in Node, On(lst1, n, j)
               PROVE  /\ On(lst1, nx1[n], j) /\ pv1[nx1[n]] = n
                      /\ On(lst1, pv1[n], j) /\ nx1[pv1[n]] = n
    BY DEF Linked
  <2>1. CASE j = k
    <3>1. n = h \/ n \in B
      BY <2>1, <1>10
    <3>2. On(lst1, h, k) /\ \A q \in B : On(lst1, q, k)
      BY <1>1, <1>5, <1>10
    <3>3. CASE n = h
      BY <2>1, <3>2, <3>3, <1>5, <1>6
    <3>4. CASE n \in B
      <4>1. On(lst1, nx1[n], k) /\ pv1[nx1[n]] = n
        <5>1. CASE n = e
          BY <5>1, <3>2, <1>6
        <5>2. CASE n # e
          <6>1. nx1[n] = n + 1 /\ n + 1 \in B /\ n \in Nat /\ pg =< n
            BY <3>4, <5>2, <1>5, <1>7
          <6>2. n + 1 # pg /\ (n + 1) - 1 = n
            BY <6>1, <1>s
          <6> QED
            BY <6>1, <6>2, <3>2, <1>7
        <5> QED
          BY <5>1, <5>2
      <4>2. On(lst1, pv1[n], k) /\ nx1[pv1[n]] = n
        <5>1. CASE n = pg
          BY <5>1, <3>2, <1>6
        <5>2. CASE n # pg
          <6>1. pv1[n] = n - 1 /\ n - 1 \in B /\ n \in Nat /\ n =< pg + s - 1
            BY <3>4, <5>2, <1>0, <1>5, <1>7
          <6>2. n - 1 # pg + s - 1 /\ (n - 1) + 1 = n
            BY <6>1, <1>s
          <6>3. n - 1 # e
            BY <6>2, <1>0
          <6> QED
            BY <6>1, <6>2, <6>3, <3>2, <1>7
        <5> QED
          BY <5>1, <5>2
      <4> QED
        BY <2>1, <4>1, <4>2
    <3> QED
      BY <3>1, <3>3, <3>4
  <2>2. CASE j # k
    <3>1. On(lst, n, j) /\ n # h /\ n \notin B
      BY <2>2, <1>11
    <3>2. /\ On(lst, nx[n], j) /\ On(lst, pv[n], j) /\ pv[nx[n]] = n /\ nx[pv[n]] = n
          /\ nx[n] \in Node /\ pv[n] \in Node
      BY <3>1, <1>2 DEF Lists, Linked
    <3>3. nx[n] # h /\ nx[n] \notin B /\ pv[n] # h /\ pv[n] \notin B
      BY <2>2, <3>2, <1>12
    <3>4. nx1[n] = nx[n] /\ pv1[n] = pv[n] /\ pv1[nx[n]] = n /\ nx1[pv[n]] = n
      BY <3>1, <3>2, <3>3, <1>5, <1>6
    <3> QED
      BY <2>2, <3>2, <3>3, <3>4, <1>11
  <2> QED
    BY <2>1, <2>2
<1>14. InBlocks(nx1, pv1, lst1)
  <2> SUFFICES ASSUME NEW p \in Page, NEW j \in Order, lst1[p] = j
               PROVE  /\ p % Size[j] # 0 => pv1[p] = p - 1
                      /\ (p + 1) % Size[j] # 0 => nx1[p] = p + 1
    BY DEF InBlocks
  <2>1. CASE p \in B
    <3>1. j = k /\ pg % s = 0
      BY <2>1, <1>8 DEF s
    <3>2. p = pg => p % s = 0
      BY <3>1
    <3>3. p = e => (p + 1) % s = 0
      <4> SUFFICES ASSUME p = e PROVE (p + 1) % s = 0
        OBVIOUS
      <4>1. p + 1 = pg + s
        BY <1>0, <1>s
      <4>2. s \in Nat \ {0}
        BY <1>s
      <4>3. PICK q \in Nat : pg = q * s
        BY <3>1, <4>2, MultipleBy
      <4>4. pg + s = (q + 1) * s /\ q + 1 \in Nat
        BY <4>3, <1>s
      <4>5. ((q + 1) * s) % s = 0
        BY <4>2, <4>4, ByMultiple
      <4> QED
        BY <4>1, <4>4, <4>5
    <3> QED
      BY <2>1, <3>1, <3>2, <3>3, <1>7 DEF s
  <2>2. CASE p \notin B
    <3>1. lst[p] = j /\ p \in Node /\ p # h /\ p # e /\ p # pg
      BY <2>2, <1>1, <1>5, <1>8
    <3>2. nx1[p] = nx[p] /\ pv1[p] = pv[p]
      BY <3>1, <1>6
    <3> QED
      BY <3>1, <3>2 DEF Lists, InBlocks
  <2> QED
    BY <2>1, <2>2
<1>15. InPlace(nx1, lst1, at1)
  <2>1. ASSUME NEW p \in Page, lst1[p] # None, nx1[p] \in Page PROVE at1[nx1[p]] = at1[p] + 1
    <3>1. CASE p \in B
      <4>1. p # e
        BY <2>1, <1>1, <1>6
      <4>2. nx1[p] = p + 1 /\ p + 1 \in B /\ p \in Nat
        BY <3>1, <4>1, <1>5, <1>7
      <4>3. at1[p + 1] = (p + 1) - pg + 1 /\ at1[p] = p - pg + 1
        BY <3>1, <4>2, <1>5, <1>8
      <4> QED
        BY <4>2, <4>3, <1>s
    <3>2. CASE p \notin B
      <4>1. lst1[p] = lst[p] /\ lst[p] \in Order /\ lst[p] # k /\ p \in Node
        BY <2>1, <3>2, <1>1, <1>2, <1>8, <1>9
      <4>2. nx1[p] = nx[p]
        BY <3>2, <1>1, <1>5, <1>6
      <4>3. On(lst, p, lst[p])
        BY DEF On
      <4>4. On(lst, nx[p], lst[p]) /\ nx[p] \in Node
        BY <4>1, <4>3, <1>2 DEF Lists, Linked
      <4>5. nx[p] \notin B
        BY <4>1, <4>4, <1>12
      <4>6. at[nx[p]] = at[p] + 1
        BY <2>1, <4>1, <4>2, <1>1 DEF Lists, InPlace
      <4> QED
        BY <2>1, <3>2, <4>2, <4>5, <4>6, <1>8
    <3> QED
      BY <3>1, <3>2
  <2>2. ASSUME NEW j \in Order, nx1[ListHead(j)] \in Page PROVE at1[nx1[ListHead(j)]] = 1
    <3>1. CASE j = k
      <4>1. nx1[ListHead(j)] = pg /\ pg \in Page /\ pg - pg + 1 = 1
        BY <3>1, <1>5, <1>6, <1>s DEF h
      <4> QED
        BY <4>1, <1>5, <1>8
    <3>2. CASE j # k
      <4>1. ListHead(j) \in Node /\ ListHead(j) # h /\ ListHead(j) # e
        BY <3>2, <1>1, <1>5, NodeFacts
      <4>2. nx1[ListHead(j)] = nx[ListHead(j)]
        BY <4>1, <1>6
      <4>3. On(lst, nx[ListHead(j)], j) /\ nx[ListHead(j)] \in Node
        BY <4>1, <1>2 DEF Lists, Linked, On
      <4>4. nx[ListHead(j)] \notin B
        BY <3>2, <4>3, <1>12
      <4> QED
        BY <2>2, <4>2, <4>4, <1>8 DEF Lists, InPlace
    <3> QED
      BY <3>1, <3>2
  <2> QED
    BY <2>1, <2>2 DEF InPlace
<1>16. at1 \in PlaceMap
  <2>1. ASSUME NEW p \in Page PROVE at1[p] \in 1..KERNEL_PAGE_NUM
    <3>1. at[p] \in Nat /\ 1 =< at[p] /\ at[p] =< KERNEL_PAGE_NUM /\ KERNEL_PAGE_NUM \in Nat
      BY <1>2, OrderFacts
    <3>2. p \in Nat /\ p < KERNEL_PAGE_NUM
      BY NodeFacts
    <3>3. p \in B => pg =< p
      BY <1>5
    <3>4. p \in B => p - pg + 1 \in 1..KERNEL_PAGE_NUM
      BY <3>1, <3>2, <3>3, <1>s
    <3> QED
      BY <3>1, <3>4, <1>8
  <2>2. at1 = [q \in Page |-> at1[q]]
    BY DEF at1, PlacedFrom
  <2> QED
    BY <2>1, <2>2 DEF PlaceMap
<1>17. OneAPlace(lst1, at1)
  <2> SUFFICES ASSUME NEW p \in Page, NEW q \in Page,
                      lst1[p] = lst1[q], lst1[p] # None, at1[p] = at1[q]
               PROVE  p = q
    BY DEF OneAPlace
  <2>1. p \in B <=> q \in B
    BY <1>8, <1>9
  <2>2. CASE p \in B
    <3>1. p - pg + 1 = q - pg + 1 /\ p \in Nat /\ q \in Nat
      BY <2>1, <2>2, <1>1, <1>8
    <3> QED
      BY <3>1, <1>s
  <2>3. CASE p \notin B
    BY <2>1, <2>3, <1>8 DEF Lists, OneAPlace
  <2> QED
    BY <2>2, <2>3
<1>18. LargeInBulk(lst1)
  <2> SUFFICES ASSUME NEW p \in Page, lst1[p] \in Order, lst1[p] # 0 PROVE p < Bulk
    BY DEF LargeInBulk
  <2>1. CASE p \in B
    BY <2>1, <1>5, <1>8
  <2>2. CASE p \notin B
    BY <2>2, <1>8 DEF Lists, LargeInBulk
  <2> QED
    BY <2>1, <2>2
<1>19. Lists(nx1, pv1, lst1, at1)
  BY <1>6, <1>8, <1>13, <1>14, <1>15, <1>16, <1>17, <1>18 DEF Lists, ListMap
<1>20. \A n \in Node : n # h /\ n \notin B => nx1[n] = nx[n] /\ pv1[n] = pv[n]
  BY <1>5, <1>6
<1> QED
  BY <1>19, <1>20 DEF nx1, pv1, lst1, at1, h, B
-----------------------------------------------------------------------------
(***************************************************************************)
(* The cutting loop.  A block of order k is at hand and on no list; it is  *)
(* cut down to order ord, and the lists of the orders between are empty.   *)
(***************************************************************************)
HandParents(lst, hand) ==
  \A p \in Page : Small(lst, p) =>
    \/ \E t \in Taken : Parent(t, lst[p]) = Parent(p, lst[p])
    \/ \A t \in hand : Parent(t, lst[p]) = Parent(p, lst[p])

AtHand(s, k, ord, lst, at) ==
  /\ s.pg \in Nat /\ s.pg % Size[k] = 0
  /\ Block(s.pg, k) \subseteq Page /\ Block(s.pg, k) \cap Taken = {}
  /\ k # 0 => \A p \in Block(s.pg, k) : p < Bulk
  /\ Chained(s.next, s.prev, Block(s.pg, k))
  /\ s.order \in [Page -> Order \cup {-1}]
  /\ Lists(s.next, s.prev, lst, at)
  /\ \A p \in Page : lst[p] = None <=> p \in Taken \cup Block(s.pg, k)
  /\ \A i \in Order : ord =< i /\ i < k => s.next[ListHead(i)] = ListHead(i)
  /\ HandParents(lst, Block(s.pg, k))

LEMMA CutStep ==
  ASSUME NEW s, NEW j \in Order, NEW ord \in Order, NEW i \in Order, i = j - 1, ord < j,
         NEW lst, NEW at, AtHand(s, j, ord, lst, at)
  PROVE  AtHand(Cut(s, i), i, ord, With(lst, s.pg, i), PlacedFrom(at, s.pg, i))
<1> DEFINE pg == s.pg
<1> DEFINE z == Size[i]
<1> DEFINE F == Block(pg, i)
<1> DEFINE R == Block(pg + z, i)
<1> DEFINE H == Block(pg, j)
<1> DEFINE l == AddChainTail(s.next, s.prev, pg, End(pg, i), ListHead(i))
<1> DEFINE c == Cut(s, i)
<1> DEFINE lst1 == With(lst, pg, i)
<1> DEFINE at1 == PlacedFrom(at, pg, i)
<1>1. /\ z \in Nat /\ z # 0 /\ pg \in Nat /\ Size[j] = 2 * z /\ i \in Nat /\ j \in Nat /\ ord \in Nat
      /\ j # 0 /\ i < j /\ ord =< i /\ j = i + 1
      /\ i \in 0..MAX_BUDDY_PAGE_NUM /\ j \in 0..MAX_BUDDY_PAGE_NUM
  <2>1. i \in Nat /\ j \in Nat /\ ord \in Nat
    BY OrderFacts
  <2>2. j # 0 /\ i < j /\ ord =< i /\ j = i + 1
    BY <2>1
  <2>3. Size[j] = 2 * Size[i] /\ Size[i] \in Nat \ {0}
    BY <2>2, OrderFacts
  <2>4. i \in 0..MAX_BUDDY_PAGE_NUM /\ j \in 0..MAX_BUDDY_PAGE_NUM
    BY OrderFacts DEF Order
  <2>5. pg \in Nat
    BY DEF AtHand
  <2> QED
    BY <2>1, <2>2, <2>3, <2>4, <2>5
<1>2. pg % z = 0 /\ (pg + z) % z = 0 /\ pg % Size[j] = 0
  <2>1. pg % Size[j] = 0
    BY DEF AtHand
  <2>2. pg % z = 0
    BY <2>1, <1>1, AlignedSmaller
  <2>3. z \in Nat \ {0}
    BY <1>1
  <2>4. PICK q \in Nat : pg = q * z
    BY <1>1, <2>2, <2>3, MultipleBy
  <2>5. pg + z = (q + 1) * z /\ q + 1 \in Nat
    BY <2>4, <1>1
  <2>6. ((q + 1) * z) % z = 0
    BY <2>3, <2>5, ByMultiple
  <2> QED
    BY <2>1, <2>2, <2>5, <2>6
<1>3. /\ c.pg = pg + z /\ c.next = l.next /\ c.prev = l.prev
      /\ c.order = [s.order EXCEPT ![pg] = i]
  BY DEF Cut, CutFirst
<1>4. F = pg..(pg + z - 1) /\ R = (pg + z)..(pg + z + z - 1) /\ H = pg..(pg + 2 * z - 1)
  BY <1>1 DEF Block
<1>5. \A x : x \in H <=> x \in F \/ x \in R
  <2> HIDE DEF F, R, H, pg, z
  <2>1. ASSUME NEW x \in H PROVE x \in F \/ x \in R
    BY <1>1, <1>4
  <2>2. ASSUME NEW x \in F PROVE x \in H
    BY <1>1, <1>4
  <2>3. ASSUME NEW x \in R PROVE x \in H
    BY <1>1, <1>4
  <2> QED
    BY <2>1, <2>2, <2>3
<1>6. \A x \in R : x \notin F
  <2> HIDE DEF F, R, H, pg, z
  <2> QED
    BY <1>1, <1>4
<1>7. /\ H \subseteq Page /\ H \cap Taken = {} /\ Chained(s.next, s.prev, H)
      /\ \A p \in H : p < Bulk
      /\ s.order \in [Page -> Order \cup {-1}]
      /\ Lists(s.next, s.prev, lst, at)
      /\ \A p \in Page : lst[p] = None <=> p \in Taken \cup H
      /\ \A n \in Order : ord =< n /\ n < j => s.next[ListHead(n)] = ListHead(n)
      /\ HandParents(lst, H)
  BY <1>1 DEF AtHand
<1> HIDE DEF F, R, H, l, c, lst1, at1
<1>8. Chained(s.next, s.prev, F)
  BY <1>5, <1>7 DEF Chained
<1>9. s.next[ListHead(i)] = ListHead(i)
  BY <1>1, <1>7
<1>10. /\ Lists(l.next, l.prev, lst1, at1)
       /\ \A n \in Node : n # ListHead(i) /\ n \notin F =>
            l.next[n] = s.next[n] /\ l.prev[n] = s.prev[n]
  <2>1. F \subseteq Page /\ \A q \in F : lst[q] = None /\ (i # 0 => q < Bulk)
    BY <1>5, <1>7
  <2> QED
    BY <2>1, <1>1, <1>2, <1>7, <1>8, <1>9, AddedLists DEF F, l, lst1, at1
<1>11. \A q \in Page : lst1[q] = IF q \in F THEN i ELSE lst[q]
  BY DEF lst1, With, F
<1>12. R \subseteq Page /\ R \cap Taken = {} /\ F \subseteq Page /\ F \cap Taken = {}
  BY <1>5, <1>7
<1>13. Chained(c.next, c.prev, R)
  <2> SUFFICES ASSUME NEW q \in R, q + 1 \in R
               PROVE  c.next[q] = q + 1 /\ c.prev[q + 1] = q
    BY DEF Chained
  <2>1. s.next[q] = q + 1 /\ s.prev[q + 1] = q
    BY <1>5, <1>7 DEF Chained
  <2>2. q \in Node /\ q # ListHead(i) /\ q + 1 \in Node /\ q + 1 # ListHead(i)
    BY <1>12, NodeFacts
  <2> QED
    BY <2>1, <2>2, <1>3, <1>6, <1>10
<1>14. c.order \in [Page -> Order \cup {-1}]
  BY <1>3, <1>7
<1>15. \A p \in Page : lst1[p] = None <=> p \in Taken \cup R
  <2>1. i # None
    BY NodeFacts
  <2> QED
    BY <2>1, <1>5, <1>6, <1>7, <1>11, <1>12
<1>16. ASSUME NEW n \in Order, ord =< n, n < i PROVE c.next[ListHead(n)] = ListHead(n)
  <2>1. n < j /\ n # i
    BY <1>1, <1>16, OrderFacts
  <2>2. ListHead(n) \in Node /\ ListHead(n) # ListHead(i) /\ ListHead(n) \notin F
    BY <2>1, <1>12, NodeFacts
  <2> QED
    BY <2>1, <2>2, <1>3, <1>7, <1>10, <1>16
<1>17. HandParents(lst1, R)
  <2> SUFFICES ASSUME NEW p \in Page, Small(lst1, p)
               PROVE  \/ \E t \in Taken : Parent(t, lst1[p]) = Parent(p, lst1[p])
                      \/ \A t \in R : Parent(t, lst1[p]) = Parent(p, lst1[p])
    BY DEF HandParents
  <2>1. CASE p \in F
    <3>1. lst1[p] = i
      BY <2>1, <1>11
    <3>2. \A x \in H : Parent(x, i) = pg
      <4>1. Size[j] \in Nat \ {0}
        BY OrderFacts
      <4>2. \A x \in pg..(pg + Size[j] - 1) : Start(x, Size[j]) = pg
        BY <4>1, <1>1, <1>2, StartOfRun
      <4> QED
        BY <4>2, <1>1 DEF Parent, H, Block
    <3> QED
      BY <3>1, <3>2, <2>1, <1>5
  <2>2. CASE p \notin F
    <3>1. lst1[p] = lst[p] /\ Small(lst, p)
      BY <2>2, <1>11 DEF Small
    <3> QED
      BY <3>1, <1>5, <1>7 DEF HandParents
  <2> QED
    BY <2>1, <2>2
<1>18. Block(c.pg, i) = R
  BY <1>3 DEF R
<1>19. c.pg \in Nat /\ c.pg % Size[i] = 0
  BY <1>1, <1>2, <1>3
<1>20. \A p \in R : p < Bulk
  BY <1>5, <1>7
<1>21. AtHand(c, i, ord, lst1, at1)
  BY <1>3, <1>10, <1>12, <1>13, <1>14, <1>15, <1>16, <1>17, <1>18, <1>19, <1>20 DEF AtHand
<1> QED
  BY <1>21 DEF c, lst1, at1
(***************************************************************************)
(* The loop has a run, and each of its turns keeps the block at hand.      *)
(***************************************************************************)
CutState == [pg : Int, order : [Page -> Int], next : [Node -> Int], prev : [Node -> Int]]

LEMMA CutRuns ==
  ASSUME NEW k \in Order, NEW ord \in Order, ord =< k, NEW off \in CutState
  PROVE  /\ CutRun(off, k, ord)[0] = off
         /\ \A t \in 1..(k - ord) : CutRun(off, k, ord)[t] = Cut(CutRun(off, k, ord)[t - 1], k - t)
<1> DEFINE n == k - ord
<1> DEFINE step == [t \in 1..n |-> [s \in CutState |-> Cut(s, k - t)]]
<1>1. n \in Nat /\ k \in Nat /\ ord \in Nat
  BY OrderFacts
<1>2. step \in [1..n -> [CutState -> CutState]]
  <2> SUFFICES ASSUME NEW t \in 1..n, NEW s \in CutState PROVE Cut(s, k - t) \in CutState
    OBVIOUS
  <2> DEFINE i == k - t
  <2>1. i \in Nat /\ i \in 0..MAX_BUDDY_PAGE_NUM
    <3>1. i \in Nat /\ i =< k
      BY <1>1
    <3>2. k =< TopOrder /\ TopOrder = MAX_BUDDY_PAGE_NUM - 1 /\ MAX_BUDDY_PAGE_NUM \in Nat
      BY OrderFacts DEF TopOrder
    <3> QED
      BY <3>1, <3>2, <1>1
  <2>2. Size[i] \in Nat
    BY <2>1, Sizes
  <2> HIDE DEF i
  <2>3. /\ s.pg \in Int /\ s.order \in [Page -> Int]
        /\ s.next \in [Node -> Int] /\ s.prev \in [Node -> Int]
    BY DEF CutState
  <2>4. s.pg + Size[i] \in Int /\ End(s.pg, i) \in Int /\ ListHead(i) \in Int
    BY <2>1, <2>2, <2>3 DEF End, ListHead
  <2>5. ListHead(i) \in Node
    <3>1. i \in Order
      BY <1>1, OrderFacts DEF i, Order
    <3> QED
      BY <3>1, NodeFacts
  <2>6. s.prev[ListHead(i)] \in Int
    BY <2>3, <2>5
  <2> DEFINE l == AddChainTail(s.next, s.prev, s.pg, End(s.pg, i), ListHead(i))
  <2>7. l.next \in [Node -> Int] /\ l.prev \in [Node -> Int]
    BY <2>3, <2>4, <2>6 DEF AddChainTail
  <2>8. [s.order EXCEPT ![s.pg] = i] \in [Page -> Int]
    <3> DEFINE o == s.order
    <3>1. o \in [Page -> Int] /\ i \in Int
      BY <2>1, <2>3
    <3> HIDE DEF o
    <3>2. [o EXCEPT ![s.pg] = i] \in [Page -> Int]
      BY <3>1
    <3> QED
      BY <3>2 DEF o
  <2> HIDE DEF l
  <2>9. Cut(s, i) = [pg |-> s.pg + Size[i], next |-> l.next, prev |-> l.prev,
                     order |-> [s.order EXCEPT ![s.pg] = i]]
    BY DEF Cut, CutFirst, l
  <2> QED
    BY <2>4, <2>7, <2>8, <2>9 DEF CutState, i
<1>3. PICK f : RunOf(f, n, CutState, off, step)
  <2> HIDE DEF n, step
  <2> QED
    BY <1>1, <1>2, RunExists
<1>4. f \in [0..n -> CutState] /\ f[0] = off /\ \A t \in 1..n : f[t] = Cut(f[t - 1], k - t)
  <2>1. f \in [0..n -> CutState] /\ f[0] = off /\ \A t \in 1..n : f[t] = step[t][f[t - 1]]
    BY <1>3 DEF RunOf
  <2>2. \A t \in 1..n : t - 1 \in 0..n
    BY <1>1
  <2> HIDE DEF n
  <2> QED
    BY <2>1, <2>2
<1> HIDE DEF step
<1>5. f = [t \in 0..n |-> IF t = 0 THEN off ELSE Cut(f[t - 1], k - t)]
  <2>1. \A t \in 0..n : t = 0 \/ t \in 1..n
    BY <1>1
  <2>2. \A t \in 0..n : f[t] = IF t = 0 THEN off ELSE Cut(f[t - 1], k - t)
    BY <2>1, <1>4
  <2> QED
    BY <2>2, <1>4
<1> DEFINE run == CutRun(off, k, ord)
<1>6. run = [t \in 0..n |-> IF t = 0 THEN off ELSE Cut(run[t - 1], k - t)]
  BY <1>5 DEF CutRun
<1> HIDE DEF run, n
<1>7. run[0] = off /\ \A t \in 1..n : run[t] = Cut(run[t - 1], k - t)
  <2>1. 0 \in 0..n /\ \A t \in 1..n : t \in 0..n /\ t # 0
    BY <1>1
  <2> QED
    BY <2>1, <1>6
<1> QED
  BY <1>7 DEF run, n

LEMMA CutKeepsHand ==
  ASSUME NEW k \in Order, NEW ord \in Order, ord =< k, NEW off \in CutState,
         NEW lst, NEW at, AtHand(off, k, ord, lst, at)
  PROVE  \E lst1, at1 : AtHand(CutDown(off, k, ord), ord, ord, lst1, at1)
<1> DEFINE n == k - ord
<1> DEFINE run == CutRun(off, k, ord)
<1> DEFINE Held(t) == \E lst1, at1 : AtHand(run[t], k - t, ord, lst1, at1)
<1> DEFINE P == [t \in 0..n |-> Held(t)]
<1>1. n \in Nat /\ k \in Nat /\ ord \in Nat /\ k - 0 = k /\ k - n = ord /\ n \in 0..n
  BY OrderFacts
<1>2. run[0] = off /\ \A t \in 1..n : run[t] = Cut(run[t - 1], k - t)
  BY CutRuns
<1> HIDE DEF run, n
<1>3. Held(0)
  BY <1>1, <1>2
<1>4. ASSUME NEW t \in 1..n, Held(t - 1) PROVE Held(t)
  <2>1. PICK l, a : AtHand(run[t - 1], k - (t - 1), ord, l, a)
    BY <1>4
  <2>2. /\ k - (t - 1) \in Order /\ k - t \in Order /\ k - t = (k - (t - 1)) - 1
        /\ ord < k - (t - 1)
    <3>1. t \in Nat /\ t # 0 /\ t =< k - ord
      BY <1>1 DEF n
    <3>2. k \in 0..(MAX_BUDDY_PAGE_NUM - 1) /\ MAX_BUDDY_PAGE_NUM \in Nat
      BY OrderFacts DEF Order
    <3> QED
      BY <3>1, <3>2, <1>1 DEF Order
  <2>3. run[t] = Cut(run[t - 1], k - t)
    BY <1>2
  <2>4. AtHand(Cut(run[t - 1], k - t), k - t, ord,
               With(l, run[t - 1].pg, k - t), PlacedFrom(a, run[t - 1].pg, k - t))
    BY <2>1, <2>2, CutStep
  <2> QED
    BY <2>3, <2>4
<1>5. \A t \in 0..n : P[t]
  <2>1. P[0]
    <3>1. 0 \in 0..n
      BY <1>1
    <3> HIDE DEF Held
    <3> QED
      BY <3>1, <1>3
  <2>2. ASSUME NEW t \in 1..n, P[t - 1] PROVE P[t]
    <3>1. t \in 0..n /\ t - 1 \in 0..n
      BY <1>1
    <3> HIDE DEF Held
    <3>2. Held(t - 1)
      BY <2>2, <3>1
    <3>3. Held(t)
      BY <3>2, <1>4
    <3> QED
      BY <3>1, <3>3
  <2> HIDE DEF P
  <2> QED
    BY <2>1, <2>2, <1>1, TurnByTurn
<1>6. Held(n)
  <2> HIDE DEF Held
  <2> QED
    BY <1>1, <1>5
<1> QED
  BY <1>1, <1>6 DEF CutDown, run, n
-----------------------------------------------------------------------------
(***************************************************************************)
(* alloc_pages().                                                          *)
(***************************************************************************)
LEMMA FirstFitIs ==
  ASSUME NEW ord \in Order, Fits(ord) # {}
  PROVE  /\ FirstFit(ord) \in Order /\ ord =< FirstFit(ord)
         /\ next[ListHead(FirstFit(ord))] # ListHead(FirstFit(ord))
         /\ \A i \in Order : ord =< i /\ i < FirstFit(ord) => next[ListHead(i)] = ListHead(i)
<1>1. Fits(ord) \in SUBSET Nat /\ Fits(ord) \subseteq Order /\ IsFiniteSet(Fits(ord))
  <2>1. IsFiniteSet(Order)
    <3>1. 0 \in Int /\ MAX_BUDDY_PAGE_NUM - 1 \in Int
      BY OrderFacts
    <3> QED
      BY <3>1, FS_Interval DEF Order
  <2>2. Fits(ord) \subseteq Order
    BY DEF Fits
  <2> QED
    BY <2>1, <2>2, OrderFacts, FS_Subset
<1>2. \E k \in Fits(ord) : \A j \in Fits(ord) : k =< j
  BY <1>1, LeastNumber
<1>3. FirstFit(ord) \in Fits(ord) /\ \A j \in Fits(ord) : FirstFit(ord) =< j
  BY <1>2 DEF FirstFit
<1> DEFINE k == FirstFit(ord)
<1> HIDE DEF k
<1>4. k \in Order /\ k >= ord /\ next[ListHead(k)] # ListHead(k) /\ k \in Nat /\ ord \in Nat
  BY <1>1, <1>3, OrderFacts DEF Fits, k
<1>5. ASSUME NEW i \in Order, ord =< i, i < k PROVE next[ListHead(i)] = ListHead(i)
  <2> SUFFICES ASSUME next[ListHead(i)] # ListHead(i) PROVE FALSE
    OBVIOUS
  <2>1. i \in Nat /\ i >= ord
    BY <1>4, <1>5, OrderFacts
  <2>2. i \in Fits(ord)
    BY <2>1 DEF Fits
  <2>3. k =< i
    BY <2>2, <1>3 DEF k
  <2> QED
    BY <2>1, <2>3, <1>4, <1>5
<1> QED
  BY <1>4, <1>5 DEF k

LEMMA TakenOffAtHand ==
  ASSUME TypeOK, NEW lst, NEW at, ListedAre(lst, at),
         NEW k \in Order, NEW ord \in Order, NEW pg, pg = next[ListHead(k)], pg # ListHead(k),
         \A i \in Order : ord =< i /\ i < k => next[ListHead(i)] = ListHead(i)
  PROVE  /\ End(pg, k) \in Page
         /\ TakeOff(pg, k) \in CutState
         /\ AtHand(TakeOff(pg, k), k, ord, Without(lst, pg, k), MovedUp(lst, at, pg, k))
<1> DEFINE o == TakeOff(pg, k)
<1> DEFINE B == Block(pg, k)
<1> DEFINE h == ListHead(k)
<1> DEFINE y == next[End(pg, k)]
<1>1. /\ Lists(next, prev, lst, at) /\ HaveParents(lst, Taken)
      /\ \A p \in Page : lst[p] = None <=> p \in Taken
  BY DEF ListedAre
<1>2. /\ pg \in Page /\ pg \in Nat /\ pg % Size[k] = 0
      /\ \A i \in 0..(Size[k] - 1) : pg + i \in Page /\ lst[pg + i] = k /\ at[pg + i] = i + 1
      /\ \A i \in 1..(Size[k] - 1) : next[pg + (i - 1)] = pg + i /\ prev[pg + i] = pg + (i - 1)
  BY <1>1, FirstBlock
<1>3. /\ Lists(o.next, o.prev, Without(lst, pg, k), MovedUp(lst, at, pg, k))
      /\ y \notin B /\ y \in Node
  BY <1>1, TakenOffLists DEF TakeOff
<1>4. /\ o.pg = pg /\ o.order = order
      /\ o.next = [next EXCEPT ![h] = y] /\ o.prev = [prev EXCEPT ![y] = h]
  BY DEF TakeOff
<1>s. Size[k] \in Nat /\ Size[k] # 0 /\ pg \in Nat
  BY <1>2, OrderFacts
<1> DEFINE s == Size[k]
<1>0. B = pg..(pg + s - 1) /\ End(pg, k) = pg + s - 1
  BY DEF Block, End
<1> HIDE DEF s, B
<1>5. ASSUME NEW q \in B
      PROVE  /\ q \in Page /\ lst[q] = k
             /\ q + 1 \in B => next[q] = q + 1 /\ prev[q + 1] = q
  <2>1. q \in Nat /\ pg =< q /\ q =< pg + s - 1
    BY <1>0, <1>s DEF s
  <2>2. q - pg \in 0..(s - 1) /\ pg + (q - pg) = q
    BY <2>1, <1>s DEF s
  <2>3. q + 1 \in B => next[q] = q + 1 /\ prev[q + 1] = q
    <3> SUFFICES ASSUME q + 1 \in B PROVE next[q] = q + 1 /\ prev[q + 1] = q
      OBVIOUS
    <3>1. q + 1 =< pg + s - 1
      BY <2>1, <1>0, <1>s DEF s
    <3>2. /\ q + 1 - pg \in 1..(s - 1) /\ pg + (q + 1 - pg) = q + 1
          /\ pg + ((q + 1 - pg) - 1) = q
      BY <3>1, <2>1, <1>s DEF s
    <3> QED
      BY <3>2, <1>2 DEF s
  <2> QED
    BY <2>2, <2>3, <1>2 DEF s
<1>6. End(pg, k) \in B
  BY <1>0, <1>s DEF s
<1>7. B \subseteq Page /\ B \cap Taken = {}
  BY <1>1, <1>5, NodeFacts
<1>8. next \in [Node -> Node] /\ prev \in [Node -> Node] /\ h \in Node /\ h \notin Page
  BY NodeFacts DEF TypeOK
<1>9. Chained(o.next, o.prev, B)
  <2> SUFFICES ASSUME NEW q \in B, q + 1 \in B PROVE o.next[q] = q + 1 /\ o.prev[q + 1] = q
    BY DEF Chained
  <2>1. q \in Node /\ q # h /\ q + 1 \in Node /\ q + 1 # y
    BY <1>3, <1>7, <1>8, NodeFacts
  <2> QED
    BY <2>1, <1>4, <1>5, <1>8
<1>10. \A p \in Page : Without(lst, pg, k)[p] = None <=> p \in Taken \cup B
  BY <1>1 DEF Without, B
<1>11. ASSUME NEW i \in Order, ord =< i, i < k PROVE o.next[ListHead(i)] = ListHead(i)
  <2>1. ListHead(i) \in Node /\ ListHead(i) # h /\ next[ListHead(i)] = ListHead(i)
    BY <1>11, NodeFacts, OrderFacts
  <2> QED
    BY <2>1, <1>4, <1>8
<1>12. HandParents(Without(lst, pg, k), B)
  <2> SUFFICES ASSUME NEW p \in Page, Small(Without(lst, pg, k), p)
               PROVE  \E t \in Taken : Parent(t, Without(lst, pg, k)[p])
                                         = Parent(p, Without(lst, pg, k)[p])
    BY DEF HandParents
  <2>1. Without(lst, pg, k)[p] = lst[p] /\ Small(lst, p)
    BY NodeFacts DEF Small, Without
  <2> QED
    BY <2>1, <1>1 DEF HaveParents
<1>13. k # 0 => \A p \in B : p < Bulk
  BY <1>1, <1>5 DEF Lists, LargeInBulk
<1>14. o \in CutState
  <2>1. \A n \in Node : n \in Int
    BY NodeFacts, OrderFacts DEF ListHead
  <2>2. o.next \in [Node -> Node] /\ o.prev \in [Node -> Node]
    BY <1>3 DEF Lists
  <2>3. o.next \in [Node -> Int] /\ o.prev \in [Node -> Int]
    BY <2>1, <2>2
  <2>4. order \in [Page -> Int]
    <3>1. \A x \in Order \cup {-1} : x \in Int
      BY OrderFacts
    <3>2. order \in [Page -> Order \cup {-1}]
      BY DEF TypeOK
    <3> QED
      BY <3>1, <3>2
  <2>5. o = [pg |-> pg, order |-> order, next |-> o.next, prev |-> o.prev]
    BY DEF TakeOff
  <2> HIDE DEF o
  <2> QED
    BY <2>3, <2>4, <2>5, <1>2 DEF CutState
<1>15. order \in [Page -> Order \cup {-1}]
  BY DEF TypeOK
<1> HIDE DEF o
<1>16. AtHand(o, k, ord, Without(lst, pg, k), MovedUp(lst, at, pg, k))
  BY <1>2, <1>3, <1>4, <1>7, <1>9, <1>10, <1>11, <1>12, <1>13, <1>15 DEF AtHand, B
<1> QED
  BY <1>6, <1>7, <1>14, <1>16 DEF o

LEMMA HandOutStep ==
  ASSUME TypeOK, wild = FALSE, HeldBlocks, NEW ord \in Order,
         NEW cut, NEW lst, NEW at, AtHand(cut, ord, ord, lst, at), HandOut(cut, ord)
  PROVE  IInv'
<1> DEFINE H == Block(cut.pg, ord)
<1> DEFINE b == [first |-> cut.pg, order |-> ord]
<1>1. /\ cut.pg \in Nat /\ cut.pg % Size[ord] = 0 /\ H \subseteq Page /\ H \cap Taken = {}
      /\ cut.order \in [Page -> Order \cup {-1}]
      /\ Lists(cut.next, cut.prev, lst, at)
      /\ \A p \in Page : lst[p] = None <=> p \in Taken \cup H
      /\ HandParents(lst, H)
  BY DEF AtHand
<1>2. cut.pg \in H
  <2>1. Size[ord] \in Nat /\ Size[ord] # 0
    BY OrderFacts
  <2> QED
    BY <2>1, <1>1 DEF Block
<1>3. BlockPages(b) = H
  BY DEF BlockPages, Block
<1>4. held' = held \cup {b} /\ Taken' = Taken \cup H
  <2>1. held' = held \cup {b}
    BY DEF HandOut
  <2> HIDE DEF b, H
  <2>2. Taken' = UNION {BlockPages(x) : x \in held'}
    BY DEF Taken, BlockPages
  <2>3. \A p : p \in Taken' <=> \E x \in held' : p \in BlockPages(x)
    BY <2>2
  <2>4. \A p : p \in Taken <=> \E x \in held : p \in BlockPages(x)
    BY DEF Taken
  <2>5. \A p : p \in Taken' <=> p \in Taken \/ p \in H
    BY <2>1, <2>3, <2>4, <1>3
  <2> QED
    BY <2>1, <2>5
<1>5. /\ next' = cut.next /\ prev' = cut.prev /\ wild' = wild
      /\ order' = [cut.order EXCEPT ![cut.pg] = ord] /\ busy' = busy \cup {cut.pg}
  BY DEF HandOut
<1>6. TypeOK'
  <2>1. cut.pg \in Page
    BY <1>1, <1>2
  <2>2. order' \in [Page -> Order \cup {-1}]
    BY <1>1, <1>5
  <2>3. b \in [first : Page, order : Order]
    BY <2>1
  <2>4. held' \subseteq [first : Page, order : Order]
    BY <2>3, <1>4 DEF TypeOK
  <2>5. busy' \subseteq Page
    BY <2>1, <1>5 DEF TypeOK
  <2> QED
    BY <2>2, <2>4, <2>5, <1>1, <1>5 DEF TypeOK, Lists
<1>7. HeldBlocks'
  <2>1. b.first = cut.pg /\ b.order = ord
    OBVIOUS
  <2> HIDE DEF b
  <2>2. \A x \in held' : x.first % Size[x.order] = 0 /\ BlockPages(x) \subseteq Page
    BY <2>1, <1>1, <1>3, <1>4 DEF HeldBlocks
  <2>3. \A x \in held : BlockPages(x) \cap H = {}
    BY <1>1 DEF Taken
  <2>4. \A x, z \in held' : x # z => BlockPages(x) \cap BlockPages(z) = {}
    <3> SUFFICES ASSUME NEW x \in held', NEW z \in held', x # z
                 PROVE  BlockPages(x) \cap BlockPages(z) = {}
      OBVIOUS
    <3>1. CASE x \in held /\ z \in held
      BY <3>1 DEF HeldBlocks
    <3>2. CASE x \in held /\ z = b
      BY <3>2, <2>3, <1>3
    <3>3. CASE x = b /\ z \in held
      BY <3>3, <2>3, <1>3
    <3> QED
      BY <3>1, <3>2, <3>3, <1>4
  <2> QED
    BY <2>2, <2>4 DEF HeldBlocks, BlockPages
<1>8. HaveParents(lst, Taken')
  <2> SUFFICES ASSUME NEW p \in Page, Small(lst, p)
               PROVE  \E t \in Taken' : Parent(t, lst[p]) = Parent(p, lst[p])
    BY DEF HaveParents
  <2> HIDE DEF H
  <2> QED
    BY <1>1, <1>2, <1>4 DEF HandParents
<1>9. ListedAre(lst, at)'
  BY <1>1, <1>4, <1>5, <1>8 DEF ListedAre
<1> QED
  BY <1>5, <1>6, <1>7, <1>9 DEF IInv

LEMMA NextIInv == IInv /\ [Next]_vars => IInv'
<1> SUFFICES ASSUME IInv, [Next]_vars PROVE IInv'
  OBVIOUS
<1>1. CASE UNCHANGED vars
  <2>1. TypeOK' /\ wild' = FALSE /\ HeldBlocks' /\ Taken' = Taken
    BY <1>1 DEF IInv, TypeOK, HeldBlocks, BlockPages, Taken, vars
  <2>2. PICK lst, at : ListedAre(lst, at)
    BY DEF IInv
  <2>3. ListedAre(lst, at)'
    BY <1>1, <2>1, <2>2 DEF ListedAre, vars
  <2> QED
    BY <2>1, <2>3 DEF IInv
<1>2. ASSUME NEW ord \in Order, AllocPages(ord) PROVE IInv'
  <2> DEFINE k == FirstFit(ord)
  <2> DEFINE pg == next[ListHead(k)]
  <2>1. /\ k \in Order /\ ord =< k /\ pg # ListHead(k)
        /\ \A i \in Order : ord =< i /\ i < k => next[ListHead(i)] = ListHead(i)
    BY <1>2, FirstFitIs DEF AllocPages
  <2>2. PICK lst, at : ListedAre(lst, at)
    BY DEF IInv
  <2> HIDE DEF k
  <2>3. /\ End(pg, k) \in Page /\ TakeOff(pg, k) \in CutState
        /\ AtHand(TakeOff(pg, k), k, ord, Without(lst, pg, k), MovedUp(lst, at, pg, k))
    BY <2>1, <2>2, TakenOffAtHand DEF IInv
  <2>4. PICK l, a : AtHand(CutDown(TakeOff(pg, k), k, ord), ord, ord, l, a)
    BY <2>1, <2>3, CutKeepsHand
  <2>5. HandOut(CutDown(TakeOff(pg, k), k, ord), ord)
    BY <1>2, <2>3 DEF AllocPages, AllocFrom, k
  <2> QED
    BY <2>4, <2>5, HandOutStep DEF IInv
<1> QED
  BY <1>1, <1>2 DEF Next
(***************************************************************************)
(* The inductive invariant holds of every run of the allocator.            *)
(***************************************************************************)
THEOREM ListsHold == Spec => []IInv
<1>1. IInv /\ [Next]_vars => IInv'
  BY NextIInv
<1> QED
  BY <1>1, InitIInv, PTL DEF Spec

-----------------------------------------------------------------------------
(***************************************************************************)
(* What follows from the inductive invariant.  The way from the head of a  *)
(* list keeps to the list and gets to each of its pages.                   *)
(***************************************************************************)
LEMMA WayIs ==
  ASSUME NEW k \in Order, next \in [Node -> Node]
  PROVE  /\ Way(k)[0] = ListHead(k)
         /\ \A i \in 1..KERNEL_PAGE_NUM : Way(k)[i] = next[Way(k)[i - 1]]
<1> DEFINE n == KERNEL_PAGE_NUM
<1> DEFINE step == [i \in 1..n |-> [x \in Node |-> next[x]]]
<1>1. n \in Nat /\ ListHead(k) \in Node /\ step \in [1..n -> [Node -> Node]]
  BY OrderFacts, NodeFacts
<1> HIDE DEF n
<1>2. PICK f : RunOf(f, n, Node, ListHead(k), step)
  <2> HIDE DEF step
  <2> QED
    BY <1>1, RunExists
<1>3. f \in [0..n -> Node] /\ f[0] = ListHead(k) /\ \A i \in 1..n : f[i] = next[f[i - 1]]
  <2>1. f \in [0..n -> Node] /\ f[0] = ListHead(k) /\ \A i \in 1..n : f[i] = step[i][f[i - 1]]
    BY <1>2 DEF RunOf
  <2>2. \A i \in 1..n : i - 1 \in 0..n
    BY <1>1
  <2> QED
    BY <2>1, <2>2
<1> HIDE DEF step
<1>4. f = [i \in 0..n |-> IF i = 0 THEN ListHead(k) ELSE next[f[i - 1]]]
  <2>1. \A i \in 0..n : i = 0 \/ i \in 1..n
    BY <1>1
  <2>2. \A i \in 0..n : f[i] = IF i = 0 THEN ListHead(k) ELSE next[f[i - 1]]
    BY <2>1, <1>3
  <2> QED
    BY <2>2, <1>3
<1> DEFINE way == Way(k)
<1>5. way = [i \in 0..n |-> IF i = 0 THEN ListHead(k) ELSE next[way[i - 1]]]
  BY <1>4 DEF Way, n
<1> HIDE DEF way
<1>6. way[0] = ListHead(k) /\ \A i \in 1..n : way[i] = next[way[i - 1]]
  <2>1. 0 \in 0..n /\ \A i \in 1..n : i \in 0..n /\ i # 0
    BY <1>1
  <2> QED
    BY <2>1, <1>5
<1> QED
  BY <1>6 DEF way, n

LEMMA ListedIs ==
  ASSUME NEW lst, NEW at, Lists(next, prev, lst, at), NEW k \in Order
  PROVE  Listed(k) = {p \in Page : lst[p] = k}
<1> DEFINE n == KERNEL_PAGE_NUM
<1> DEFINE way == Way(k)
<1>1. /\ n \in Nat /\ next \in [Node -> Node] /\ ListHead(k) \in Node
      /\ \A p \in Page : at[p] \in Nat /\ 1 =< at[p] /\ at[p] =< n
  BY OrderFacts, NodeFacts, ListsFacts
<1>2. way[0] = ListHead(k) /\ \A i \in 1..n : way[i] = next[way[i - 1]]
  BY <1>1, WayIs
<1>0. Listed(k) = {way[i] : i \in 0..n} \cap Page
  BY DEF Listed
<1> HIDE DEF way, n
<1>3. \A x \in Node : On(lst, x, k) =>
        On(lst, next[x], k) /\ On(lst, prev[x], k) /\ next[prev[x]] = x /\ next[x] \in Node
  BY <1>1 DEF Lists, Linked
<1> DEFINE P == [i \in 0..n |->
                   IF way[i] \in Node /\ On(lst, way[i], k) THEN TRUE ELSE FALSE]
<1>4. \A i \in 0..n : P[i]
  <2>1. P[0]
    <3>1. 0 \in 0..n /\ way[0] \in Node /\ On(lst, way[0], k)
      BY <1>1, <1>2 DEF On
    <3> QED
      BY <3>1
  <2>2. ASSUME NEW i \in 1..n, P[i - 1] PROVE P[i]
    <3>1. i \in 0..n /\ i - 1 \in 0..n
      BY <1>1
    <3>2. way[i - 1] \in Node /\ On(lst, way[i - 1], k)
      BY <2>2, <3>1
    <3>3. way[i] \in Node /\ On(lst, way[i], k)
      BY <3>2, <1>2, <1>3
    <3> QED
      BY <3>1, <3>3
  <2> HIDE DEF P
  <2> QED
    BY <2>1, <2>2, <1>1, TurnByTurn
<1>5. ASSUME NEW p \in Listed(k) PROVE p \in Page /\ lst[p] = k
  <2>1. PICK i \in 0..n : p = way[i]
    BY <1>0
  <2>2. On(lst, p, k) /\ p \in Page
    BY <2>1, <1>0, <1>4
  <2> QED
    BY <2>2, NodeFacts DEF On
<1> DEFINE There(i) == \A p \in Page : lst[p] = k /\ at[p] = i => way[i] = p
<1> DEFINE Q == [i \in 0..n |-> IF There(i) THEN TRUE ELSE FALSE]
<1>6. ASSUME NEW i \in 1..n, There(i - 1) PROVE There(i)
  <2> SUFFICES ASSUME NEW p \in Page, lst[p] = k, at[p] = i PROVE way[i] = p
    OBVIOUS
  <2>1. On(lst, prev[p], k) /\ next[prev[p]] = p
    BY <1>3, NodeFacts DEF On
  <2>2. CASE prev[p] = ListHead(k)
    <3>1. at[p] = 1
      BY <2>1, <2>2 DEF Lists, InPlace
    <3>2. i = 1 /\ 1 \in 1..n /\ 1 - 1 = 0
      BY <3>1, <2>1
    <3> QED
      BY <3>2, <2>1, <2>2, <1>2
  <2>3. CASE prev[p] # ListHead(k)
    <3>1. prev[p] \in Page /\ lst[prev[p]] = k
      BY <2>1, <2>3 DEF On
    <3>2. at[p] = at[prev[p]] + 1
      BY <3>1, <2>1, NodeFacts DEF Lists, InPlace
    <3>3. at[prev[p]] = i - 1
      BY <3>1, <3>2, <1>1
    <3> QED
      BY <3>1, <3>3, <2>1, <1>2, <1>6
  <2> QED
    BY <2>2, <2>3
<1>7. \A i \in 0..n : Q[i]
  <2>1. Q[0]
    <3>1. 0 \in 0..n
      BY <1>1
    <3>2. There(0)
      BY <1>1
    <3> HIDE DEF There
    <3> QED
      BY <3>1, <3>2
  <2>2. ASSUME NEW i \in 1..n, Q[i - 1] PROVE Q[i]
    <3>1. i \in 0..n /\ i - 1 \in 0..n
      BY <1>1
    <3> HIDE DEF There
    <3>2. There(i - 1)
      BY <2>2, <3>1
    <3>3. There(i)
      BY <3>2, <1>6
    <3> QED
      BY <3>1, <3>3
  <2> HIDE DEF Q
  <2> QED
    BY <2>1, <2>2, <1>1, TurnByTurn
<1>8. ASSUME NEW p \in Page, lst[p] = k PROVE p \in Listed(k)
  <2>1. at[p] \in 0..n
    BY <1>1
  <2>2. There(at[p])
    <3> HIDE DEF There
    <3> QED
      BY <2>1, <1>7
  <2>3. way[at[p]] = p
    BY <2>2, <1>8
  <2> QED
    BY <2>1, <2>3, <1>0
<1> QED
  BY <1>5, <1>8

LEMMA InvNoPageLost == IInv => NoPageLost
<1> SUFFICES ASSUME IInv PROVE NoPageLost
  OBVIOUS
<1>1. PICK lst, at : ListedAre(lst, at)
  BY DEF IInv
<1>2. Lists(next, prev, lst, at) /\ \A p \in Page : lst[p] = None <=> p \in Taken
  BY <1>1 DEF ListedAre
<1>3. \A k \in Order : Listed(k) = {p \in Page : lst[p] = k}
  BY <1>2, ListedIs
<1>4. \A p \in Page : lst[p] \in Order \cup {None}
  BY <1>2, ListsFacts
<1>5. \A b, c \in held : b # c => BlockPages(b) \cap BlockPages(c) = {}
  BY DEF IInv, HeldBlocks
<1>6. UNION {Listed(k) : k \in Order} = Free
  <2>1. ASSUME NEW p \in Free PROVE \E k \in Order : p \in Listed(k)
    BY <1>2, <1>3, <1>4 DEF Free
  <2>2. ASSUME NEW k \in Order, NEW p \in Listed(k) PROVE p \in Free
    BY <1>2, <1>3, NodeFacts DEF Free
  <2> QED
    BY <2>1, <2>2
<1>7. \A j, k \in Order : j # k => Listed(j) \cap Listed(k) = {}
  BY <1>3
<1>8. \A n \in Heads \cup Free : next[prev[n]] = n /\ prev[next[n]] = n
  <2> SUFFICES ASSUME NEW n \in Heads \cup Free PROVE next[prev[n]] = n /\ prev[next[n]] = n
    OBVIOUS
  <2>1. PICK k \in Order : On(lst, n, k)
    <3>1. CASE n \in Heads
      BY <3>1 DEF Heads, On
    <3>2. CASE n \in Free
      BY <3>2, <1>2, <1>4 DEF Free, On
    <3> QED
      BY <3>1, <3>2
  <2>2. n \in Node
    BY NodeFacts DEF Node, Free
  <2> QED
    BY <2>1, <2>2, <1>2 DEF Lists, Linked
<1> QED
  BY <1>5, <1>6, <1>7, <1>8 DEF NoPageLost

LEMMA InvWholeBlocks == IInv => WholeBlocks
<1> SUFFICES ASSUME IInv PROVE WholeBlocks
  OBVIOUS
<1>1. PICK lst, at : ListedAre(lst, at)
  BY DEF IInv
<1>2. Lists(next, prev, lst, at)
  BY <1>1 DEF ListedAre
<1>3. \A k \in Order : Listed(k) = {p \in Page : lst[p] = k}
  BY <1>2, ListedIs
<1> QED
  BY <1>2, <1>3 DEF WholeBlocks, Lists, InBlocks

LEMMA InvRefused == IInv => RefusedOnlyWhenFull
<1> SUFFICES ASSUME IInv, NEW k \in Order, Fits(k) = {},
                    NEW p \in Page, p % Size[k] = 0, p < Bulk,
                    p..(p + Size[k] - 1) \cap Taken = {}
             PROVE  FALSE
  BY DEF RefusedOnlyWhenFull
<1>1. PICK lst, at : ListedAre(lst, at)
  BY DEF IInv
<1>2. /\ Lists(next, prev, lst, at) /\ HaveParents(lst, Taken)
      /\ \A q \in Page : lst[q] = None <=> q \in Taken
      /\ \A q \in Page : lst[q] \in Order \cup {None}
  BY <1>1, ListsFacts DEF ListedAre
<1>3. k \in Nat /\ Size[k] \in Nat /\ Size[k] # 0 /\ p \in Nat
  BY OrderFacts, NodeFacts
<1>4. p \in p..(p + Size[k] - 1)
  BY <1>3
<1>5. lst[p] \in Order
  BY <1>2, <1>4
<1> DEFINE j == lst[p]
<1>6. j \in Nat /\ j < k
  <2>0. j \in Nat
    BY <1>5, OrderFacts
  <2> SUFFICES ASSUME ~(j < k) PROVE FALSE
    BY <2>0
  <2>1. j \notin Fits(k) /\ j >= k
    BY <2>0, <1>3
  <2>2. next[ListHead(j)] = ListHead(j)
    BY <2>1, <1>5 DEF Fits
  <2> QED
    BY <2>2, <1>2, <1>5, EmptyList
<1>7. Small(lst, p)
  <2>1. k =< TopOrder /\ TopOrder \in Nat
    BY OrderFacts
  <2>2. j # TopOrder
    BY <2>1, <1>3, <1>6
  <2> QED
    BY <2>2, <1>5 DEF Small
<1>8. PICK t \in Taken : Parent(t, j) = Parent(p, j)
  BY <1>2, <1>7 DEF HaveParents
<1> HIDE DEF j
<1>9. /\ j + 1 \in 0..MAX_BUDDY_PAGE_NUM /\ k \in 0..MAX_BUDDY_PAGE_NUM /\ j + 1 =< k
      /\ Size[j + 1] \in Nat \ {0}
  <2>1. k =< TopOrder /\ TopOrder = MAX_BUDDY_PAGE_NUM - 1 /\ MAX_BUDDY_PAGE_NUM \in Nat
    BY OrderFacts DEF TopOrder
  <2>2. j + 1 \in 0..MAX_BUDDY_PAGE_NUM /\ k \in 0..MAX_BUDDY_PAGE_NUM /\ j + 1 =< k
    BY <2>1, <1>3, <1>6
  <2> QED
    BY <2>2, Sizes
<1>10. p % Size[j + 1] = 0 /\ Size[j + 1] =< Size[k]
  BY <1>3, <1>9, AlignedSmaller
<1>11. Start(p, Size[j + 1]) = p
  BY <1>3, <1>10 DEF Start
<1>12. t \in Nat
  <2>1. PICK b \in held : t \in BlockPages(b)
    BY DEF Taken
  <2>2. BlockPages(b) \subseteq Page
    BY DEF IInv, HeldBlocks
  <2> QED
    BY <2>1, <2>2, NodeFacts
<1>13. t \in p..(p + Size[j + 1] - 1)
  <2>1. Start(t, Size[j + 1]) = p
    BY <1>8, <1>11 DEF Parent
  <2> QED
    BY <2>1, <1>9, <1>12, StartIsMultiple
<1>14. t \in p..(p + Size[k] - 1)
  <2> DEFINE a == Size[j + 1]
  <2> DEFINE c == Size[k]
  <2>1. a \in Nat /\ c \in Nat /\ a =< c /\ t \in p..(p + a - 1)
    BY <1>3, <1>9, <1>10, <1>13
  <2> HIDE DEF a, c
  <2>2. t \in p..(p + c - 1)
    BY <2>1, <1>3, <1>12
  <2> QED
    BY <2>2 DEF c
<1> QED
  BY <1>8, <1>14

-----------------------------------------------------------------------------
(***************************************************************************)
(* The links, orders and blocks keep their types, and no list is touched   *)
(* that is not there (kmalloc.c:248-274).                                  *)
(***************************************************************************)
THEOREM BuddyTyped == Spec => [](TypeOK /\ wild = FALSE)
<1>1. IInv => TypeOK /\ wild = FALSE
  BY DEF IInv
<1> QED
  BY <1>1, ListsHold, PTL

(***************************************************************************)
(* Every page is held by one caller or is on one free list, once           *)
(* (kmalloc.c:248-276).                                                    *)
(***************************************************************************)
THEOREM PagesKept == Spec => []NoPageLost
BY InvNoPageLost, ListsHold, PTL

(***************************************************************************)
(* The lists consist of whole, aligned blocks (kmalloc.c:238-258).         *)
(***************************************************************************)
THEOREM BlocksWhole == Spec => []WholeBlocks
BY InvWholeBlocks, ListsHold, PTL

(***************************************************************************)
(* Every block that is handed out is aligned, so that find_free_page_dir() *)
(* never gives one back (kmalloc.c:359-366).                               *)
(***************************************************************************)
THEOREM BlocksAligned == Spec => []Aligned
<1>1. IInv => Aligned
  BY DEF IInv, HeldBlocks, Aligned
<1> QED
  BY <1>1, ListsHold, PTL

(***************************************************************************)
(* A request is refused only when no aligned run of that many pages is     *)
(* free among the largest blocks (kmalloc.c:253-265).                      *)
(***************************************************************************)
THEOREM RefusedWhenFull == Spec => []RefusedOnlyWhenFull
BY InvRefused, ListsHold, PTL
=============================================================================
